----------------------- MODULE TransferCleanupProofs -----------------------
(***************************************************************************)
(* Proof that the cleanup journal keeps files and records together, for    *)
(* any transfers, files and number of faults.  CleanupInv is inductive: it *)
(* adds to ArtifactsOnRecord which files a record may name, that no file   *)
(* is on record twice, which operations have a row, and what the holder of *)
(* maintenanceMu knows of the rows it is deleting.                         *)
(***************************************************************************)
EXTENDS TransferCleanup, TLAPS

\* A receive owns its partial, a send a spool; their intents name the same kind.
Kinds ==
    /\ \A t \in Receives : {row[t], intent[t]} \subseteq {PartOf[t], None}
    /\ \A t \in Sends : {row[t], intent[t]} \subseteq Spools \cup {None}

\* No file is on record for two transfers.
Apart ==
    \A t, u \in Transfers :
        t # u => /\ row[t] # None => row[t] \notin {row[u], intent[u]}
                 /\ intent[t] # None => intent[t] # intent[u]

\* An operation that uses a file has the row; only receives create theirs late.
OperationsHaveRows ==
    /\ \A t \in Transfers : op[t] \in {"owner", "open"} => row[t] # None
    /\ \A t \in Transfers : op[t] = "owner" => t \in Receives
    /\ \A t \in filled : row[t] # None

\* The rows about to be deleted have no operation but the one that asks for
\* it, and the intents recorded for them name their files.
BatchInHand ==
    /\ mpc \in {"create", "execute", "delete"} =>
          \A t \in batch : op[t] \in {"idle", "finishing"} /\ row[t] # None
    /\ mpc \in {"execute", "delete"} => \A t \in batch : intent[t] = row[t]
    /\ mpc = "execute" => todo \subseteq batch

\* The inductive invariant.
CleanupInv ==
    /\ TypeOK
    /\ Kinds
    /\ Apart
    /\ OperationsHaveRows
    /\ BatchInHand
    /\ OwnerKeepsArtifact
    /\ PartialLeftoversQueued

\* Acquiring, opening, abandoning and finishing an operation keep files and
\* records together: only a receive creates its file after its row, and an
\* operation hands over its own row only.
LEMMA OperationsKeepInv ==
    ASSUME CleanupInv, Operate
    PROVE  CleanupInv'
  <1> USE DEF journal, files, sessions
  <1>1. ASSUME NEW t \in Transfers, AcquireReceive(t)
        PROVE  CleanupInv'
    <2>1. TypeOK'
      BY <1>1, CleanupAssumption DEF CleanupInv, TypeOK, AcquireReceive
    <2>2. Kinds'
      BY <1>1, CleanupAssumption DEF CleanupInv, Kinds, AcquireReceive
    <2>3. Apart'
      BY <1>1, CleanupAssumption DEF CleanupInv, Kinds, Apart, AcquireReceive, Transfers,
          Spools, Parts
    <2>4. OperationsHaveRows'
      BY <1>1, CleanupAssumption DEF CleanupInv, TypeOK, OperationsHaveRows, AcquireReceive
    <2>5. BatchInHand'
      BY <1>1 DEF BatchInHand, AcquireReceive
    <2>6. OwnerKeepsArtifact'
      BY <1>1 DEF CleanupInv, Kinds, OperationsHaveRows, OwnerKeepsArtifact, AcquireReceive
    <2>7. PartialLeftoversQueued'
      BY <1>1, CleanupAssumption DEF CleanupInv, PartialLeftoversQueued, AcquireReceive
    <2> QED
      BY <2>1, <2>2, <2>3, <2>4, <2>5, <2>6, <2>7 DEF CleanupInv
  <1>2. ASSUME NEW t \in Transfers, OpenPartial(t)
        PROVE  CleanupInv'
    <2>1. TypeOK'
      BY <1>2, CleanupAssumption DEF CleanupInv, TypeOK, OperationsHaveRows, OpenPartial
    <2>2. Kinds' /\ Apart'
      BY <1>2 DEF CleanupInv, Kinds, Apart, OpenPartial
    <2>3. OperationsHaveRows'
      BY <1>2 DEF CleanupInv, OperationsHaveRows, OpenPartial
    <2>4. BatchInHand'
      BY <1>2 DEF CleanupInv, BatchInHand, OpenPartial
    <2>5. OwnerKeepsArtifact'
      BY <1>2 DEF CleanupInv, Kinds, OperationsHaveRows, OwnerKeepsArtifact, OpenPartial
    <2>6. PartialLeftoversQueued'
      BY <1>2, CleanupAssumption DEF CleanupInv, OperationsHaveRows, PartialLeftoversQueued,
          OpenPartial
    <2> QED
      BY <2>1, <2>2, <2>3, <2>4, <2>5, <2>6 DEF CleanupInv
  <1>3. ASSUME NEW t \in Transfers, ClaimSpool(t)
        PROVE  CleanupInv'
    <2>1. TypeOK'
      BY <1>3 DEF CleanupInv, TypeOK, ClaimSpool
    <2>2. Kinds' /\ Apart' /\ OwnerKeepsArtifact' /\ PartialLeftoversQueued'
      BY <1>3 DEF CleanupInv, Kinds, Apart, OwnerKeepsArtifact, PartialLeftoversQueued,
          ClaimSpool
    <2>3. OperationsHaveRows'
      BY <1>3, CleanupAssumption DEF CleanupInv, TypeOK, OperationsHaveRows, ClaimSpool
    <2>4. BatchInHand'
      BY <1>3 DEF BatchInHand, ClaimSpool
    <2> QED
      BY <2>1, <2>2, <2>3, <2>4 DEF CleanupInv
  <1>4. ASSUME NEW t \in Transfers, Abandon(t)
        PROVE  CleanupInv'
    <2>1. TypeOK'
      BY <1>4 DEF CleanupInv, TypeOK, Abandon
    <2>2. Kinds' /\ Apart' /\ OwnerKeepsArtifact' /\ PartialLeftoversQueued'
      BY <1>4 DEF CleanupInv, Kinds, Apart, OwnerKeepsArtifact, PartialLeftoversQueued, Abandon
    <2>3. OperationsHaveRows'
      BY <1>4 DEF CleanupInv, OperationsHaveRows, Abandon
    <2>4. BatchInHand'
      BY <1>4 DEF CleanupInv, BatchInHand, Abandon
    <2> QED
      BY <2>1, <2>2, <2>3, <2>4 DEF CleanupInv
  <1>5. ASSUME NEW t \in Transfers, Finish(t)
        PROVE  CleanupInv'
    <2>1. TypeOK'
      BY <1>5 DEF CleanupInv, TypeOK, Finish, MPCs
    <2>2. Kinds' /\ Apart' /\ OwnerKeepsArtifact' /\ PartialLeftoversQueued'
      BY <1>5 DEF CleanupInv, Kinds, Apart, OwnerKeepsArtifact, PartialLeftoversQueued, Finish
    <2>3. OperationsHaveRows'
      BY <1>5 DEF CleanupInv, OperationsHaveRows, Finish
    <2>4. BatchInHand'
      BY <1>5 DEF CleanupInv, TypeOK, OperationsHaveRows, BatchInHand, Finish
    <2> QED
      BY <2>1, <2>2, <2>3, <2>4 DEF CleanupInv
  <1>6. ASSUME NEW t \in Transfers, ExpireSender(t)
        PROVE  CleanupInv'
    <2>1. TypeOK'
      BY <1>6 DEF CleanupInv, TypeOK, ExpireSender, MPCs
    <2>2. Kinds' /\ Apart' /\ OperationsHaveRows' /\ OwnerKeepsArtifact' /\
          PartialLeftoversQueued'
      BY <1>6 DEF CleanupInv, Kinds, Apart, OperationsHaveRows, OwnerKeepsArtifact,
          PartialLeftoversQueued, ExpireSender
    <2>3. BatchInHand'
      BY <1>6 DEF BatchInHand, ExpireSender
    <2> QED
      BY <2>1, <2>2, <2>3 DEF CleanupInv
  <1>7. ASSUME NEW t \in Transfers, NEW f \in Spools, SaveSpool(t, f)
        PROVE  CleanupInv'
    <2>1. TypeOK'
      BY <1>7 DEF CleanupInv, TypeOK, SaveSpool, Spools
    <2>2. Kinds'
      BY <1>7, CleanupAssumption DEF CleanupInv, Kinds, SaveSpool
    <2>3. Apart'
      BY <1>7 DEF CleanupInv, Apart, SaveSpool
    <2>4. OperationsHaveRows'
      BY <1>7 DEF CleanupInv, TypeOK, OperationsHaveRows, SaveSpool
    <2>5. BatchInHand'
      BY <1>7 DEF BatchInHand, SaveSpool
    <2>6. OwnerKeepsArtifact'
      BY <1>7 DEF CleanupInv, TypeOK, OwnerKeepsArtifact, SaveSpool
    <2>7. PartialLeftoversQueued'
      BY <1>7, CleanupAssumption DEF CleanupInv, PartialLeftoversQueued, SaveSpool, Spools,
          Parts
    <2> QED
      BY <2>1, <2>2, <2>3, <2>4, <2>5, <2>6, <2>7 DEF CleanupInv
  <1> QED
    BY <1>1, <1>2, <1>3, <1>4, <1>5, <1>6, <1>7 DEF Operate

\* deleteStoredRows: intents first, then the renames, then the rows.
LEMMA DeletionKeepsInv ==
    ASSUME CleanupInv,
           \/ CreateIntents \/ AllStaged \/ DeleteRows
           \/ \E t \in Transfers : StageArtifact(t)
    PROVE  CleanupInv'
  <1> USE DEF journal, files, sessions
  <1>1. CASE CreateIntents
    <2>1. TypeOK'
      BY <1>1 DEF CleanupInv, TypeOK, BatchInHand, CreateIntents, Unlock, MPCs
    <2>2. Kinds'
      BY <1>1 DEF CleanupInv, Kinds, CreateIntents, Transfers
    <2>3. Apart'
      BY <1>1 DEF CleanupInv, Apart, CreateIntents
    <2>4. OperationsHaveRows'
      BY <1>1 DEF CleanupInv, OperationsHaveRows, CreateIntents, Unlock
    <2>5. BatchInHand'
      BY <1>1 DEF CleanupInv, TypeOK, BatchInHand, CreateIntents, Unlock
    <2>6. OwnerKeepsArtifact'
      BY <1>1 DEF CleanupInv, TypeOK, OwnerKeepsArtifact, CreateIntents
    <2>7. PartialLeftoversQueued'
      BY <1>1 DEF CleanupInv, Kinds, BatchInHand, PartialLeftoversQueued, CreateIntents,
          Transfers
    <2> QED
      BY <2>1, <2>2, <2>3, <2>4, <2>5, <2>6, <2>7 DEF CleanupInv
  <1>2. CASE AllStaged
    <2>1. TypeOK'
      BY <1>2 DEF CleanupInv, TypeOK, AllStaged, MPCs
    <2>2. Kinds' /\ Apart' /\ OperationsHaveRows' /\ OwnerKeepsArtifact' /\
          PartialLeftoversQueued'
      BY <1>2 DEF CleanupInv, Kinds, Apart, OperationsHaveRows, OwnerKeepsArtifact,
          PartialLeftoversQueued, AllStaged
    <2>3. BatchInHand'
      BY <1>2 DEF CleanupInv, BatchInHand, AllStaged
    <2> QED
      BY <2>1, <2>2, <2>3 DEF CleanupInv
  <1>3. CASE DeleteRows
    <2>1. TypeOK'
      BY <1>3 DEF CleanupInv, TypeOK, DeleteRows, Intents, MPCs
    <2>2. Kinds'
      BY <1>3 DEF CleanupInv, Kinds, DeleteRows, Transfers
    <2>3. Apart'
      BY <1>3 DEF CleanupInv, Apart, DeleteRows
    <2>4. OperationsHaveRows'
      BY <1>3 DEF CleanupInv, TypeOK, OperationsHaveRows, BatchInHand, DeleteRows
    <2>5. BatchInHand'
      BY <1>3 DEF BatchInHand, DeleteRows
    <2>6. OwnerKeepsArtifact'
      BY <1>3 DEF CleanupInv, TypeOK, OwnerKeepsArtifact, DeleteRows
    <2>7. PartialLeftoversQueued'
      BY <1>3 DEF CleanupInv, BatchInHand, PartialLeftoversQueued, DeleteRows, Transfers
    <2> QED
      BY <2>1, <2>2, <2>3, <2>4, <2>5, <2>6, <2>7 DEF CleanupInv
  <1>4. ASSUME NEW t \in Transfers, StageArtifact(t)
        PROVE  CleanupInv'
    <2>1. TypeOK'
      BY <1>4 DEF CleanupInv, TypeOK, StageArtifact
    <2>2. Kinds' /\ Apart' /\ OperationsHaveRows'
      BY <1>4 DEF CleanupInv, Kinds, Apart, OperationsHaveRows, StageArtifact
    <2>3. BatchInHand'
      BY <1>4 DEF CleanupInv, BatchInHand, StageArtifact
    <2>4. OwnerKeepsArtifact'
      BY <1>4 DEF CleanupInv, TypeOK, Apart, OwnerKeepsArtifact, StageArtifact
    <2>5. PartialLeftoversQueued'
      BY <1>4, CleanupAssumption DEF CleanupInv, TypeOK, Kinds, PartialLeftoversQueued,
          StageArtifact, Transfers, Spools, Parts
    <2> QED
      BY <2>1, <2>2, <2>3, <2>4, <2>5 DEF CleanupInv
  <1> QED
    BY <1>1, <1>2, <1>3, <1>4

\* recoverCleanup touches no file but the one its intent names, and forgets
\* the intent only when that file is where the row, or its absence, says.
LEMMA RecoveryKeepsInv ==
    ASSUME CleanupInv,
           \/ Recovered
           \/ \E t \in Transfers : \/ RestoreOwned(t) \/ RemoveOwnerless(t)
                                   \/ ForgetIntent(t) \/ GiveUp(t)
    PROVE  CleanupInv'
  <1> USE DEF journal, files, sessions
  <1>1. CASE Recovered
    <2>1. TypeOK'
      BY <1>1 DEF CleanupInv, TypeOK, Recovered, Unlock, MPCs
    <2>2. Kinds' /\ Apart' /\ OwnerKeepsArtifact' /\ PartialLeftoversQueued'
      BY <1>1 DEF CleanupInv, Kinds, Apart, OwnerKeepsArtifact, PartialLeftoversQueued,
          Recovered
    <2>3. OperationsHaveRows'
      BY <1>1 DEF CleanupInv, OperationsHaveRows, Recovered, Unlock
    <2>4. BatchInHand'
      BY <1>1 DEF BatchInHand, Recovered, Unlock
    <2> QED
      BY <2>1, <2>2, <2>3, <2>4 DEF CleanupInv
  <1>2. ASSUME NEW t \in Transfers, RestoreOwned(t)
        PROVE  CleanupInv'
    <2>1. TypeOK'
      BY <1>2 DEF CleanupInv, TypeOK, RestoreOwned
    <2>2. Kinds' /\ Apart' /\ OperationsHaveRows' /\ BatchInHand'
      BY <1>2 DEF CleanupInv, Kinds, Apart, OperationsHaveRows, BatchInHand, RestoreOwned
    <2>3. OwnerKeepsArtifact'
      BY <1>2 DEF CleanupInv, OwnerKeepsArtifact, RestoreOwned
    <2>4. PartialLeftoversQueued'
      BY <1>2, CleanupAssumption DEF CleanupInv, PartialLeftoversQueued, RestoreOwned, HasStaged
    <2> QED
      BY <2>1, <2>2, <2>3, <2>4 DEF CleanupInv
  <1>3. ASSUME NEW t \in Transfers, RemoveOwnerless(t)
        PROVE  CleanupInv'
    <2>1. TypeOK'
      BY <1>3 DEF CleanupInv, TypeOK, RemoveOwnerless
    <2>2. Kinds' /\ Apart' /\ OperationsHaveRows' /\ BatchInHand'
      BY <1>3 DEF CleanupInv, Kinds, Apart, OperationsHaveRows, BatchInHand, RemoveOwnerless
    <2>3. OwnerKeepsArtifact'
      BY <1>3 DEF CleanupInv, TypeOK, Apart, OwnerKeepsArtifact, RemoveOwnerless, Owned
    <2>4. PartialLeftoversQueued'
      BY <1>3 DEF CleanupInv, PartialLeftoversQueued, RemoveOwnerless
    <2> QED
      BY <2>1, <2>2, <2>3, <2>4 DEF CleanupInv
  <1>4. ASSUME NEW t \in Transfers, ForgetIntent(t)
        PROVE  CleanupInv'
    <2>1. TypeOK'
      BY <1>4 DEF CleanupInv, TypeOK, ForgetIntent
    <2>2. Kinds'
      BY <1>4 DEF CleanupInv, Kinds, ForgetIntent
    <2>3. Apart'
      BY <1>4 DEF CleanupInv, Apart, ForgetIntent
    <2>4. OperationsHaveRows'
      BY <1>4 DEF CleanupInv, OperationsHaveRows, ForgetIntent
    <2>5. BatchInHand'
      BY <1>4 DEF BatchInHand, ForgetIntent, Recovering
    <2>6. OwnerKeepsArtifact'
      BY <1>4 DEF CleanupInv, OwnerKeepsArtifact, ForgetIntent, Valid, Owned, HasOrig
    <2>7. PartialLeftoversQueued'
      BY <1>4 DEF CleanupInv, Kinds, PartialLeftoversQueued, ForgetIntent, Valid, Owned,
          HasOrig, HasStaged
    <2> QED
      BY <2>1, <2>2, <2>3, <2>4, <2>5, <2>6, <2>7 DEF CleanupInv
  <1>5. ASSUME NEW t \in Transfers, GiveUp(t)
        PROVE  CleanupInv'
    <2>1. TypeOK'
      BY <1>5 DEF CleanupInv, TypeOK, GiveUp, Unlock, MPCs
    <2>2. Kinds' /\ Apart' /\ OwnerKeepsArtifact' /\ PartialLeftoversQueued'
      BY <1>5 DEF CleanupInv, Kinds, Apart, OwnerKeepsArtifact, PartialLeftoversQueued, GiveUp
    <2>3. OperationsHaveRows'
      BY <1>5 DEF CleanupInv, OperationsHaveRows, GiveUp, Unlock
    <2>4. BatchInHand'
      BY <1>5 DEF BatchInHand, GiveUp, Unlock
    <2> QED
      BY <2>1, <2>2, <2>3, <2>4 DEF CleanupInv
  <1> QED
    BY <1>1, <1>2, <1>3, <1>4, <1>5

\* GC and the removal of a context choose rows no operation is using.
LEMMA MaintenanceKeepsInv ==
    ASSUME CleanupInv,
           \/ BeginGC \/ BeginRemoveContext \/ EndGC \/ RemoveContext
           \/ \E t \in Transfers : ExpireRow(t)
    PROVE  CleanupInv'
  <1> USE DEF journal, files, sessions
  <1>1. CASE BeginGC
    <2>1. TypeOK'
      BY <1>1 DEF CleanupInv, TypeOK, BeginGC, Intents, MPCs
    <2>2. Kinds' /\ Apart' /\ OperationsHaveRows' /\ OwnerKeepsArtifact' /\
          PartialLeftoversQueued'
      BY <1>1 DEF CleanupInv, Kinds, Apart, OperationsHaveRows, OwnerKeepsArtifact,
          PartialLeftoversQueued, BeginGC
    <2>3. BatchInHand'
      BY <1>1 DEF BatchInHand, BeginGC
    <2> QED
      BY <2>1, <2>2, <2>3 DEF CleanupInv
  <1>2. CASE BeginRemoveContext
    <2>1. TypeOK'
      BY <1>2 DEF CleanupInv, TypeOK, BeginRemoveContext, Intents, MPCs
    <2>2. Kinds' /\ Apart' /\ OperationsHaveRows' /\ OwnerKeepsArtifact' /\
          PartialLeftoversQueued'
      BY <1>2 DEF CleanupInv, Kinds, Apart, OperationsHaveRows, OwnerKeepsArtifact,
          PartialLeftoversQueued, BeginRemoveContext
    <2>3. BatchInHand'
      BY <1>2 DEF BatchInHand, BeginRemoveContext
    <2> QED
      BY <2>1, <2>2, <2>3 DEF CleanupInv
  <1>3. CASE EndGC
    <2>1. TypeOK'
      BY <1>3 DEF CleanupInv, TypeOK, EndGC, MPCs
    <2>2. Kinds' /\ Apart' /\ OperationsHaveRows' /\ OwnerKeepsArtifact' /\
          PartialLeftoversQueued'
      BY <1>3 DEF CleanupInv, Kinds, Apart, OperationsHaveRows, OwnerKeepsArtifact,
          PartialLeftoversQueued, EndGC
    <2>3. BatchInHand'
      BY <1>3 DEF BatchInHand, EndGC
    <2> QED
      BY <2>1, <2>2, <2>3 DEF CleanupInv
  <1>4. CASE RemoveContext
    <2>1. TypeOK'
      BY <1>4 DEF CleanupInv, TypeOK, RemoveContext, Rows, Unlock, MPCs
    <2>2. Kinds' /\ Apart' /\ OwnerKeepsArtifact' /\ PartialLeftoversQueued'
      BY <1>4 DEF CleanupInv, Kinds, Apart, OwnerKeepsArtifact, PartialLeftoversQueued,
          RemoveContext
    <2>3. OperationsHaveRows'
      BY <1>4 DEF CleanupInv, OperationsHaveRows, RemoveContext, Unlock
    <2>4. BatchInHand'
      BY <1>4 DEF BatchInHand, RemoveContext, Rows, Unlock
    <2> QED
      BY <2>1, <2>2, <2>3, <2>4 DEF CleanupInv
  <1>5. ASSUME NEW t \in Transfers, ExpireRow(t)
        PROVE  CleanupInv'
    <2>1. TypeOK'
      BY <1>5 DEF CleanupInv, TypeOK, ExpireRow, MPCs
    <2>2. Kinds' /\ Apart' /\ OperationsHaveRows' /\ OwnerKeepsArtifact' /\
          PartialLeftoversQueued'
      BY <1>5 DEF CleanupInv, Kinds, Apart, OperationsHaveRows, OwnerKeepsArtifact,
          PartialLeftoversQueued, ExpireRow
    <2>3. BatchInHand'
      BY <1>5 DEF BatchInHand, ExpireRow
    <2> QED
      BY <2>1, <2>2, <2>3 DEF CleanupInv
  <1> QED
    BY <1>1, <1>2, <1>3, <1>4, <1>5

\* An error at any step, or a stop of the agent, changes neither records nor
\* files; an intent dropped unread is the exception the invariant names.
LEMMA FaultsKeepInv ==
    ASSUME CleanupInv,
           MaintenanceFails \/ AgentStops \/ \E t \in Transfers : ForgetUnreadable(t)
    PROVE  CleanupInv'
  <1> USE DEF journal, files, sessions
  <1>1. CASE MaintenanceFails
    <2>1. TypeOK'
      BY <1>1, CleanupAssumption DEF CleanupInv, TypeOK, MaintenanceFails, Fault, Unlock,
          Intents, MPCs
    <2>2. Kinds' /\ Apart' /\ OwnerKeepsArtifact' /\ PartialLeftoversQueued'
      BY <1>1 DEF CleanupInv, Kinds, Apart, OwnerKeepsArtifact, PartialLeftoversQueued,
          MaintenanceFails
    <2>3. OperationsHaveRows'
      BY <1>1 DEF CleanupInv, OperationsHaveRows, MaintenanceFails, Unlock
    <2>4. BatchInHand'
      BY <1>1 DEF BatchInHand, MaintenanceFails, Unlock
    <2> QED
      BY <2>1, <2>2, <2>3, <2>4 DEF CleanupInv
  <1>2. CASE AgentStops
    <2>1. TypeOK'
      BY <1>2, CleanupAssumption DEF CleanupInv, TypeOK, AgentStops, Fault, MPCs
    <2>2. Kinds' /\ Apart' /\ OwnerKeepsArtifact' /\ PartialLeftoversQueued'
      BY <1>2 DEF CleanupInv, Kinds, Apart, OwnerKeepsArtifact, PartialLeftoversQueued,
          AgentStops
    <2>3. OperationsHaveRows'
      BY <1>2 DEF CleanupInv, OperationsHaveRows, AgentStops
    <2>4. BatchInHand'
      BY <1>2 DEF BatchInHand, AgentStops
    <2> QED
      BY <2>1, <2>2, <2>3, <2>4 DEF CleanupInv
  <1>3. ASSUME NEW t \in Transfers, ForgetUnreadable(t)
        PROVE  CleanupInv'
    <2>1. TypeOK'
      BY <1>3, CleanupAssumption DEF CleanupInv, TypeOK, ForgetUnreadable, Fault
    <2>2. Kinds'
      BY <1>3 DEF CleanupInv, Kinds, ForgetUnreadable
    <2>3. Apart'
      BY <1>3 DEF CleanupInv, Apart, ForgetUnreadable
    <2>4. OperationsHaveRows'
      BY <1>3 DEF CleanupInv, OperationsHaveRows, ForgetUnreadable
    <2>5. BatchInHand'
      BY <1>3 DEF BatchInHand, ForgetUnreadable, Recovering
    <2>6. OwnerKeepsArtifact'
      <3> SUFFICES ASSUME NEW u \in filled' \ unread'
                   PROVE  (row[u] \in orig \/ (row[u] \in staged /\ intent[u] = row[u]))'
        BY DEF OwnerKeepsArtifact
      <3>1. u \in filled \ unread /\ row[u] # None /\ u \in Transfers
        BY <1>3 DEF ForgetUnreadable, CleanupInv, TypeOK, OperationsHaveRows
      <3>2. CASE u = t
        BY <1>3, <3>1, <3>2 DEF CleanupInv, OwnerKeepsArtifact, ForgetUnreadable, HasStaged
      <3>3. CASE u # t
        BY <1>3, <3>1, <3>3 DEF CleanupInv, TypeOK, Apart, OwnerKeepsArtifact,
            ForgetUnreadable
      <3> QED
        BY <3>2, <3>3
    <2>7. PartialLeftoversQueued'
      BY <1>3 DEF CleanupInv, Kinds, PartialLeftoversQueued, ForgetUnreadable, Owned, HasOrig,
          Transfers
    <2> QED
      BY <2>1, <2>2, <2>3, <2>4, <2>5, <2>6, <2>7 DEF CleanupInv
  <1> QED
    BY <1>1, <1>2, <1>3

\* The invariant holds before the first transfer.
LEMMA InitInv == Init => CleanupInv
  <1> SUFFICES ASSUME Init PROVE CleanupInv
    OBVIOUS
  <1>1. TypeOK
    BY CleanupAssumption DEF Init, TypeOK, MPCs
  <1>2. Kinds /\ Apart
    BY DEF Init, Kinds, Apart, Transfers
  <1>3. OperationsHaveRows /\ BatchInHand
    BY DEF Init, OperationsHaveRows, BatchInHand
  <1>4. OwnerKeepsArtifact /\ PartialLeftoversQueued
    BY DEF Init, OwnerKeepsArtifact, PartialLeftoversQueued
  <1> QED
    BY <1>1, <1>2, <1>3, <1>4 DEF CleanupInv

\* Every step keeps the invariant.
LEMMA NextInv == CleanupInv /\ [Next]_vars => CleanupInv'
  <1> SUFFICES ASSUME CleanupInv, [Next]_vars PROVE CleanupInv'
    OBVIOUS
  <1>1. CASE UNCHANGED vars
    BY <1>1 DEF vars, CleanupInv, TypeOK, Kinds, Apart, OperationsHaveRows, BatchInHand,
        OwnerKeepsArtifact, PartialLeftoversQueued
  <1>2. CASE Maintain
    BY <1>2, DeletionKeepsInv, RecoveryKeepsInv, MaintenanceKeepsInv DEF Maintain
  <1>3. CASE Next /\ ~Maintain
    BY <1>3, OperationsKeepInv, MaintenanceKeepsInv, FaultsKeepInv DEF Next
  <1> QED
    BY <1>1, <1>2, <1>3

\* A row of transfer_resumes that had its file keeps it, in place or where
\* recoverCleanup brings it back from, and a partial without a row is named by
\* an intent, whatever step of a deletion or of its recovery failed or was cut
\* short by a stop of the agent, and however often; except a transfer whose
\* intent recoverCleanup deleted because it could not look at a file
\* (rootFileExists).  Spools without a row are outside the statement.
THEOREM Artifacts == Spec => []ArtifactsOnRecord
  <1>1. CleanupInv => ArtifactsOnRecord
    BY DEF CleanupInv, ArtifactsOnRecord
  <1> QED
    BY <1>1, InitInv, NextInv, PTL DEF Spec

=============================================================================

--------------------------- MODULE TransferCleanup ---------------------------
(***************************************************************************)
(* The cleanup journal of the resume store (internal/transfer/resume.go:   *)
(* deleteStoredRows, createCleanupIntents, executeCleanupIntents,          *)
(* recoverCleanup, GC, RemoveContextWith).                                 *)
(*                                                                         *)
(* A row of transfer_resumes owns a private file: the partial of a receive *)
(* (its name is derived from the transfer ID) or the stdin spool of a send *)
(* (a random name).  SQLite and the file system cannot change together, so *)
(* a deletion records an intent, renames the file to a random staged name, *)
(* deletes the row, and then lets recovery finish; recovery restores the   *)
(* file of a row that still exists and removes the file of one that does   *)
(* not.  Everything here except creating a partial runs under              *)
(* maintenanceMu; any step may fail or the agent may stop after it.        *)
(*                                                                         *)
(* Abstractions: the staged name of an intent is identified with the file  *)
(* it stands for; the phase column is left out, recovery reads it only to  *)
(* check that it is well formed; rows and intents are well formed.         *)
(***************************************************************************)
EXTENDS Naturals, FiniteSets

CONSTANTS
    Receives,    \* transfers received here
    Sends,       \* transfers sent from here out of an stdin spool
    Files,       \* private file names below agent/transfers
    PartOf,      \* [Receives -> Files]: <transfer ID>.part
    None,        \* no row, no intent
    MaxFaults    \* how often a step fails or the agent stops

Transfers == Receives \cup Sends
Parts == {PartOf[t] : t \in Receives}
Spools == Files \ Parts

ASSUME CleanupAssumption ==
    /\ Receives \cap Sends = {}
    /\ PartOf \in [Receives -> Files]
    /\ \A t, u \in Receives : PartOf[t] = PartOf[u] => t = u
    /\ None \notin Files
    /\ MaxFaults \in Nat

VARIABLES
    row,       \* the file each transfer_resumes row owns, or None
    intent,    \* the file each transfer_cleanup row names, or None
    orig,      \* files present under their own name
    staged,    \* files present under the staged name recorded for them
    filled,    \* transfers whose present row has had its file
    op,        \* what the operation registered for a transfer is doing
    ready,     \* transfers some session has passed GC for but not acquired
    mpc,       \* what the holder of maintenanceMu is doing
    batch,     \* the transfers whose rows it deletes
    todo,      \* the intents its loop has still to visit
    unread,    \* history: transfers whose intent recovery dropped, with files
               \* it had not dealt with, because it could not look at one
    faults

vars == <<row, intent, orig, staged, filled, op, ready, mpc, batch, todo, unread, faults>>
journal == <<row, intent, filled, unread>>
files == <<orig, staged>>
sessions == <<op, ready>>

MPCs == {"idle", "gc_drain", "gc", "remove_drain", "remove", "create", "execute",
         "delete", "recover"}

\* The type invariant; the loops over intents visit intents that exist.
TypeOK ==
    /\ row \in [Transfers -> Files \cup {None}]
    /\ intent \in [Transfers -> Files \cup {None}]
    /\ orig \subseteq Files
    /\ staged \subseteq Files
    /\ filled \subseteq Transfers
    /\ op \in [Transfers -> {"idle", "owner", "open", "finishing"}]
    /\ ready \subseteq Transfers
    /\ mpc \in MPCs
    /\ batch \subseteq Transfers
    /\ todo \subseteq {t \in Transfers : intent[t] # None}
    /\ unread \subseteq Transfers
    /\ faults \in 0 .. MaxFaults

Init ==
    /\ row = [t \in Transfers |-> None]
    /\ intent = [t \in Transfers |-> None]
    /\ orig = {}
    /\ staged = {}
    /\ filled = {}
    /\ op = [t \in Transfers |-> "idle"]
    /\ ready = {}
    /\ mpc = "idle"
    /\ batch = {}
    /\ todo = {}
    /\ unread = {}
    /\ faults = 0

Intents == {t \in Transfers : intent[t] # None}
Rows == {t \in Transfers : row[t] # None}

(***************************************************************************)
(* Operations.  A session has run GC with success before it knows which    *)
(* transfer it serves; acquire and the row insertions take maintenanceMu.  *)
(***************************************************************************)

\* acquire, then the existing row or reserveReceive.
AcquireReceive(t) ==
    /\ t \in ready /\ t \in Receives
    /\ mpc = "idle" /\ op[t] = "idle"
    /\ ready' = ready \ {t}
    /\ op' = [op EXCEPT ![t] = "owner"]
    /\ row' = [row EXCEPT ![t] = PartOf[t]]
    /\ UNCHANGED <<intent, files, filled, mpc, batch, todo, unread, faults>>

\* OpenFile(partial, O_CREATE): not under maintenanceMu.
OpenPartial(t) ==
    /\ op[t] = "owner"
    /\ op' = [op EXCEPT ![t] = "open"]
    /\ orig' = orig \cup {PartOf[t]}
    /\ filled' = filled \cup {t}
    /\ unread' = unread \ {t}
    /\ UNCHANGED <<row, intent, staged, ready, mpc, batch, todo, faults>>

\* A submission with a fresh spool: prepareSend finds no row, acquire, saveSend.
SaveSpool(t, f) ==
    /\ t \in ready /\ t \in Sends
    /\ mpc = "idle" /\ op[t] = "idle"
    /\ row[t] = None
    /\ f \in Spools \ (orig \cup staged)
    /\ \A u \in Transfers : row[u] # f /\ intent[u] # f
    /\ ready' = ready \ {t}
    /\ op' = [op EXCEPT ![t] = "open"]
    /\ row' = [row EXCEPT ![t] = f]
    /\ orig' = orig \cup {f}
    /\ filled' = filled \cup {t}
    /\ unread' = unread \ {t}
    /\ UNCHANGED <<intent, staged, mpc, batch, todo, faults>>

\* ClaimSend of a row whose spool is still there.
ClaimSpool(t) ==
    /\ t \in ready /\ t \in Sends
    /\ mpc = "idle" /\ op[t] = "idle"
    /\ row[t] \in orig
    /\ ready' = ready \ {t}
    /\ op' = [op EXCEPT ![t] = "open"]
    /\ UNCHANGED <<journal, files, mpc, batch, todo, faults>>

\* The operation returns with its row in place.
Abandon(t) ==
    /\ op[t] \in {"owner", "open"}
    /\ op' = [op EXCEPT ![t] = "idle"]
    /\ UNCHANGED <<journal, files, ready, mpc, batch, todo, faults>>

\* finishSend, finishReceive and discardReceive delete the row of the
\* operation that calls them.
Finish(t) ==
    /\ mpc = "idle" /\ op[t] = "open"
    /\ op' = [op EXCEPT ![t] = "finishing"]
    /\ mpc' = "create"
    /\ batch' = {t}
    /\ UNCHANGED <<journal, files, ready, todo, faults>>

(***************************************************************************)
(* Deleting rows: deleteStoredRows and RemoveContextWith.                  *)
(***************************************************************************)

\* The holder of maintenanceMu returns, and the operation it worked for.
Unlock ==
    /\ mpc' = "idle"
    /\ batch' = {}
    /\ todo' = {}
    /\ op' = [t \in Transfers |-> IF op[t] = "finishing" THEN "idle" ELSE op[t]]

\* Mutant: the file is renamed before the intent is recorded.
CreateIntentsLate ==
    /\ mpc = "create"
    /\ staged' = staged \cup ({row[t] : t \in batch} \cap orig)
    /\ orig' = orig \ {row[t] : t \in batch}
    /\ mpc' = "delete"
    /\ UNCHANGED <<journal, sessions, batch, todo, faults>>

\* createCleanupIntents: one transaction; an intent left over from an
\* earlier deletion violates the primary key.
CreateIntents ==
    /\ mpc = "create"
    /\ \/ /\ batch \cap Intents = {}
          /\ intent' = [t \in Transfers |-> IF t \in batch THEN row[t] ELSE intent[t]]
          /\ mpc' = "execute"
          /\ todo' = batch
          /\ UNCHANGED <<op, batch>>
       \/ /\ batch \cap Intents # {}
          /\ Unlock
          /\ intent' = intent
    /\ UNCHANGED <<row, filled, unread, files, ready, faults>>

\* executeCleanupIntents: rename each file that is there.
StageArtifact(t) ==
    /\ mpc = "execute" /\ t \in todo
    /\ todo' = todo \ {t}
    /\ orig' = orig \ {intent[t]}
    /\ staged' = IF intent[t] \in orig THEN staged \cup {intent[t]} ELSE staged
    /\ UNCHANGED <<journal, sessions, mpc, batch, faults>>

AllStaged ==
    /\ mpc = "execute" /\ todo = {}
    /\ mpc' = "delete"
    /\ UNCHANGED <<journal, files, sessions, batch, todo, faults>>

\* The transaction that deletes the rows commits.
DeleteRows ==
    /\ mpc = "delete"
    /\ row' = [t \in Transfers |-> IF t \in batch THEN None ELSE row[t]]
    /\ filled' = filled \ batch
    /\ unread' = unread \ batch
    /\ mpc' = "recover"
    /\ todo' = Intents
    /\ UNCHANGED <<intent, files, sessions, batch, faults>>

(***************************************************************************)
(* recoverCleanup, over a snapshot of the intents.                         *)
(***************************************************************************)
Recovering == mpc \in {"gc_drain", "remove_drain", "recover"}

\* A step fails, a file cannot be looked at or the agent stops.
Fault == faults < MaxFaults /\ faults' = faults + 1

\* cleanupIntentOwnership: valid unless the row of a send has another spool.
Owned(t) == row[t] # None
Valid(t) == t \in Sends /\ Owned(t) => row[t] = intent[t]
HasOrig(t) == intent[t] \in orig
HasStaged(t) == intent[t] \in staged

\* The row still exists: its file goes back, or a newer one stays.
RestoreOwned(t) ==
    /\ Recovering /\ t \in todo /\ Valid(t) /\ Owned(t)
    /\ HasStaged(t)
    /\ staged' = staged \ {intent[t]}
    /\ orig' = orig \cup {intent[t]}
    /\ UNCHANGED <<journal, sessions, mpc, batch, todo, faults>>

\* The row is gone: both names are removed, one after the other.
RemoveOwnerless(t) ==
    /\ Recovering /\ t \in todo /\ Valid(t) /\ ~Owned(t)
    /\ \/ HasOrig(t) /\ orig' = orig \ {intent[t]} /\ staged' = staged
       \/ HasStaged(t) /\ staged' = staged \ {intent[t]} /\ orig' = orig
    /\ UNCHANGED <<journal, sessions, mpc, batch, todo, faults>>

\* An intent that recovery can neither restore nor complete: the row exists
\* and its file is under neither name.
Stuck(t) == intent[t] # None /\ Owned(t) /\ Valid(t) /\ ~HasOrig(t) /\ ~HasStaged(t)

\* deleteCleanupIntent, once the files are as they should be or the intent
\* does not describe the row.
ForgetIntent(t) ==
    /\ Recovering /\ t \in todo
    /\ \/ ~Valid(t)
       \/ Owned(t) /\ HasOrig(t) /\ ~HasStaged(t)
       \/ ~Owned(t) /\ ~HasOrig(t) /\ ~HasStaged(t)
    /\ intent' = [intent EXCEPT ![t] = None]
    /\ todo' = todo \ {t}
    /\ UNCHANGED <<row, filled, unread, files, sessions, mpc, batch, faults>>

\* rootFileExists fails, or finds something that is not a regular file, under
\* one of the two names: the intent is deleted all the same and the loop goes
\* on.  A file under the staged name stays there with nothing that names it,
\* and one under its own name loses the record that it is to go.
ForgetUnreadable(t) ==
    /\ Fault
    /\ Recovering /\ t \in todo /\ Valid(t)
    /\ intent' = [intent EXCEPT ![t] = None]
    /\ todo' = todo \ {t}
    /\ staged' = staged \ {intent[t]}
    /\ unread' = IF HasStaged(t) \/ (HasOrig(t) /\ ~Owned(t))
                 THEN unread \cup {t} ELSE unread
    /\ UNCHANGED <<row, filled, orig, sessions, mpc, batch>>

\* ErrTransferCleanup: the loop, and what it was run for, ends.
GiveUp(t) ==
    /\ Recovering /\ t \in todo /\ Stuck(t)
    /\ Unlock
    /\ UNCHANGED <<journal, files, ready, faults>>

\* Everything is drained: GC and context removal go on, a deletion returns.
Recovered ==
    /\ Recovering /\ todo = {}
    /\ \/ mpc = "gc_drain" /\ mpc' = "gc" /\ UNCHANGED <<op, batch, todo>>
       \/ mpc = "remove_drain" /\ mpc' = "remove" /\ UNCHANGED <<op, batch, todo>>
       \/ mpc = "recover" /\ Unlock
    /\ UNCHANGED <<journal, files, ready, faults>>

(***************************************************************************)
(* Maintenance: GC, ExpireSenders, Delete and RemoveContextWith.           *)
(***************************************************************************)
\* Mutant: GC collects without draining the cleanup journal first.
BeginGCWithoutDrain ==
    /\ mpc = "idle"
    /\ mpc' = "gc"
    /\ UNCHANGED <<journal, files, sessions, batch, todo, faults>>

BeginGC ==
    /\ mpc = "idle"
    /\ mpc' = "gc_drain"
    /\ todo' = Intents
    /\ UNCHANGED <<journal, files, sessions, batch, faults>>

\* An expired row without an active operation (GC), or one the user deletes.
ExpireRow(t) ==
    /\ mpc = "gc" /\ op[t] = "idle" /\ row[t] # None
    /\ mpc' = "create"
    /\ batch' = {t}
    /\ UNCHANGED <<journal, files, sessions, todo, faults>>

\* ExpireSenders does not drain first.
ExpireSender(t) ==
    /\ mpc = "idle" /\ t \in Sends /\ op[t] = "idle" /\ row[t] # None
    /\ mpc' = "create"
    /\ batch' = {t}
    /\ UNCHANGED <<journal, files, sessions, todo, faults>>

\* GC returns with success; the session that called it may go on.
EndGC ==
    /\ mpc = "gc"
    /\ mpc' = "idle"
    /\ \E r \in SUBSET Transfers : Cardinality(r) <= 1 /\ ready' = ready \cup r
    /\ UNCHANGED <<journal, files, op, batch, todo, faults>>

BeginRemoveContext ==
    /\ mpc = "idle"
    /\ mpc' = "remove_drain"
    /\ todo' = Intents
    /\ UNCHANGED <<journal, files, sessions, batch, faults>>

\* All rows of the context at once, unless an operation is active.
RemoveContext ==
    /\ mpc = "remove"
    /\ \/ /\ \A t \in Transfers : op[t] = "idle"
          /\ mpc' = "create"
          /\ batch' = Rows
          /\ UNCHANGED <<op, todo>>
       \/ /\ \E t \in Transfers : op[t] # "idle"
          /\ Unlock
    /\ UNCHANGED <<journal, files, ready, faults>>

(***************************************************************************)
(* Faults.                                                                 *)
(***************************************************************************)
\* A file or database error: most return at once, a failed deletion
\* transaction runs recovery first.
MaintenanceFails ==
    /\ Fault
    /\ mpc # "idle"
    /\ \/ Unlock
       \/ /\ mpc = "delete"
          /\ mpc' = "recover"
          /\ todo' = Intents
          /\ UNCHANGED <<op, batch>>
    /\ UNCHANGED <<journal, files, ready>>

\* The agent stops; operations, sessions and the mutex are gone.
AgentStops ==
    /\ Fault
    /\ mpc' = "idle"
    /\ batch' = {}
    /\ todo' = {}
    /\ op' = [t \in Transfers |-> "idle"]
    /\ ready' = {}
    /\ UNCHANGED <<journal, files>>

(***************************************************************************)
(* The specification.                                                      *)
(***************************************************************************)
Maintain ==
    \/ CreateIntents \/ AllStaged \/ DeleteRows \/ Recovered \/ EndGC \/ RemoveContext
    \/ \E t \in Transfers : \/ StageArtifact(t) \/ RestoreOwned(t) \/ RemoveOwnerless(t)
                            \/ ForgetIntent(t) \/ GiveUp(t) \/ ExpireRow(t)

Operate ==
    \E t \in Transfers :
        \/ AcquireReceive(t) \/ OpenPartial(t) \/ ClaimSpool(t) \/ Abandon(t)
        \/ Finish(t) \/ ExpireSender(t)
        \/ \E f \in Spools : SaveSpool(t, f)

Next ==
    \/ BeginGC \/ BeginRemoveContext \/ Maintain \/ Operate
    \/ MaintenanceFails \/ AgentStops
    \/ \E t \in Transfers : ForgetUnreadable(t)

Spec == Init /\ [][Next]_vars

\* The holder of maintenanceMu keeps running; GC is asked for again and again
\* (every transfer, listing and start of the agent runs it) and a sync.Mutex
\* does not starve a waiter.
FairSpec == Spec /\ WF_vars(Maintain) /\ SF_vars(BeginGC)

(***************************************************************************)
(* Properties.                                                             *)
(***************************************************************************)

\* A row that had its file never loses it: whatever step a deletion failed
\* or stopped at (createCleanupIntents to the deletion transaction), the file
\* is in place or recovery can bring it back.  The exception is a transfer
\* whose intent recoverCleanup deleted because rootFileExists failed on one of
\* its names (unread): there the staged file is out of reach.
OwnerKeepsArtifact ==
    \A t \in filled \ unread : row[t] \in orig \/ (row[t] \in staged /\ intent[t] = row[t])

\* A partial that has no row is on record: until recoverCleanup has removed
\* it, an intent names it, under its own or its staged name, unless that intent
\* was deleted because a name could not be looked at (unread).  Nothing is said
\* of spools: their names are random and no later transfer takes them over.
PartialLeftoversQueued ==
    \A t \in Receives :
        /\ PartOf[t] \in staged => intent[t] = PartOf[t]
        /\ PartOf[t] \in orig => row[t] # None \/ intent[t] # None \/ t \in unread

\* Once faults stop, a pending cleanup is drained by later runs of GC, or
\* some intent is stuck (recoverCleanup's default case).
CleanupDrainsOrSticks ==
    \A t \in Transfers : intent[t] # None ~> intent[t] = None \/ \E u \in Transfers : Stuck(u)

\* Files and records part in one way only, an intent dropped unread: otherwise a
\* row has its file and a partial without a row is queued, at every step of a
\* deletion and of the recovery from one.
ArtifactsOnRecord == TypeOK /\ OwnerKeepsArtifact /\ PartialLeftoversQueued

=============================================================================

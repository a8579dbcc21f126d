# A TLA+ verification of px

px moves files between the devices of a small trusted group. An *agent* runs on every device; a
*rendezvous server* authenticates the agents, tells them who is present and relays the signalling
from which two agents build a WebRTC *direct session*. Payload travels over direct sessions only.
Each agent keeps its durable state in SQLite and in a private directory beside the database.

This directory models the parts of px whose correctness depends on order, interleaving, failure
and retry, checks them with TLC on small instances, and proves the central results with TLAPS for
every value of the constants. `PROJECT.json` maps every definition to the lines it models.

## 1. Inventory of the system

For each component: the state it keeps, its operations, what makes it hard, and what makes it
correct. The column *model* names the module, or says why there is none.

### Data plane (agent to agent, over a direct session)

| component | state | operations | hard because | correct when | model |
| --- | --- | --- | --- | --- | --- |
| recoverable send (`internal/transfer/resume.go`) | a `transfer_resumes` row per transfer on either side; the receiver's `<id>.part`; the volatile registry `ResumeStore.active`; observations in `recent` | `SendResumable`, `ReceiveResumable`, `ClaimSend`, `Cancel`, `Delete`, `GC`, `ExpireSenders` | two processes, a session that breaks anywhere, crashes, retries, quotas, a user at either end | a file appears whole, once, and only where nothing was; each side records an outcome only after what justifies it; a publication nobody confirmed stays answerable | `ResumeTransfer`, `Publication` |
| transfer cleanup journal (same file) | `transfer_cleanup` intents; files under their own or staged names; `maintenanceMu` | `deleteStoredRows`, `createCleanupIntents`, `executeCleanupIntents`, `recoverCleanup`, `RemoveContextWith` | one logical deletion spans two SQL transactions and several renames; any of them may fail | a row never loses its file, a file without a row is always on record, pending cleanups drain | `TransferCleanup` |
| put (`internal/put`, `internal/putroot`) | `put_transfers` rows of either direction with lease tokens; stage files (on Windows also backups) in the destination's directory; the in-process destination lock | `Send`, `Receive`, `ReapParent`, `ResolveAcceptCurrent`, `Abandon`, `Startup` | create or replace of a user's file by rename, with evidence read back from the directory after a crash | a replacement destroys only the file it inspected; an outcome is reported only with evidence; a failure is final only after cleanup; every stage on disk is on record | `PutTransfer` (Unix build) |
| get and its staging (`internal/offered`, `internal/getcleanup`) | `get_cleanup` rows with leases; stage directories beside the destination | `Get`, `serveGet`, `Create`, `Publish`, `Finish`, reaping, `Startup` | a crashed get's stage versus a live one's; residue is removed by other gets | a live stage is never reaped; residue is on record and can be removed; both ends report what happened | `GetTransfer` |
| fast send and download (`transfer.go`, `fast.go`) | none durable but the spool | `Send`, `Receive`, `Download` | one attempt, early close | exclusive link at the end | as operations of `AgentOperations` |
| inbox (`internal/inbox`) | a lock per entry; claim directories | `MoveInbox` | the file is replaced under a move; two moves of one entry | a file is neither lost nor delivered twice without saying so | `AgentOperations` |
| ping, probe, benchmark, recent observations | none of their own, but slots and sessions | measure, ask | limits and cancellation | what is taken is given back | `AgentOperations` |
| direct session (`internal/direct`) | two ordered queues, a close state | `Send`, `Receive`, `Close` | `Receive` may drain after close or fail; `Send` fails after close | order, no loss before close | the channel of `ResumeTransfer`; an external open or failure in `AgentOperations` |

### Control plane

| component | state | operations | hard because | correct when | model |
| --- | --- | --- | --- | --- | --- |
| rendezvous hub (`internal/rendezvousapi`) and the agent's control connection (`internal/contexts`) | a client per device with a bounded queue; peers, sessions and waiters of a connection | register, unregister, relay, revoke, close; dial, read, request | both ends of a connection outlive each other; queues fill up | presence is never silently wrong; sessions are with peers that are present; outcomes of requests are true | `Rendezvous` |
| context watch (`internal/contextwatch`) | bounded streams | subscribe, publish, gap | slow readers | an event is delivered or its loss is visible | `Rendezvous` |
| membership (`internal/membership`) | devices, pending enrollments, invites, facts, receipts, adapters in SQLite | request, approve, invite, redeem, expire, revoke, prune | several transactions per call; capacity; pruning of what later checks need | a label names one device; every settlement stays possible; receipts tell the truth | `Membership` |
| adapter broker and API (`internal/adapterapi`) | doorbell streams, cursor on the adapter's disk, receipts | replay, snapshot, subscribe, submit, query | kills, restarts, lost answers, evicted receipts, rotated credentials | the adapter's view is true; no fact goes unheard; commands are settled the same way on both sides | `AdapterFeed` |
| context manager (`internal/contexts`) | the context row, key files, workers, operations in flight | join, update, disable, enable, remove, start, stop | the mutex is given up while a call waits; the worker writes meanwhile | a stopped context is quiet; roots do not change under an operation; keys outlive the row | `ContextManager` |
| agent API (`internal/agentapi`) | slots, streams, named operations | some sixteen kinds of request | every error path gives back a different set of resources | what is taken is given back, the client is answered once | `AgentOperations` |
| startup integration and the commands that use it (`internal/startup`, `internal/cli`) | the startup definition, what the service manager has loaded, the startup lock | install, upgrade, start, stop, restart, status, uninstall; recovery; onboard | several commands of another program, any of which fails; the user is asked in between | nothing is changed that the user did not approve; success means it is done | `AgentStartup` |
| server administration | none beyond membership | approvals, revocations, invites, adapters | | | as calls of `Membership` and `AdapterFeed` |
| transfer inventory, database, platform files and identity, STUN, diagnostics, release | none beyond the above | | | | not modelled: reads, rendering, SQL migrations, platform calls |

### Interactions

`contexts.Manager` owns the control connection, opens direct sessions and hands each to one of the
data-plane protocols, in a goroutine of its own. The data-plane stores share one SQLite database; a
SQL transaction is one atomic step of the models. Files and rows are not updated atomically: the
journals exist for that, and every window between them is a separate step here. Removing a context
goes through `ResumeStore.RemoveContextWith` while the manager's own removal state is pending.

The modules meet at these seams. `Membership` owns what `Rendezvous` sees of a member (active or
revoked), what `ContextManager` sees of its device (`server`) and what `AdapterFeed` sees of an
enrollment (its facts). `Rendezvous` owns the control connection of which `AgentOperations` uses the
sessions and waiters and `ContextManager` the worker. `AgentOperations` runs, without their bytes,
the protocols of `ResumeTransfer`, `PutTransfer` and `GetTransfer`; `ContextManager` sees the rows
they leave (`evidence`). `TransferCleanup` opens up the deletion that is atomic in `ResumeTransfer`.

## 2. Plan

Done: `Publication`, `ResumeTransfer`, `TransferCleanup`, `PutTransfer`, `GetTransfer`,
`Membership`, `Rendezvous`, `AdapterFeed`, `ContextManager`, `AgentOperations`, `AgentStartup`, and
the proofs about all of them but `AgentOperations` and `AgentStartup`.

Next, in this order:

1. Theorems: `SuccessIsTrue` of `AgentStartup`, `NothingLeft` of `AgentOperations`.
2. The Windows build of put, whose publication moves the old file to a backup first.
3. An abstract registry that `Rendezvous` refines, in which a device is online exactly while one of
   its connections is registered.
4. Composition of `Membership` and `Rendezvous`, for the race of revocation and registration.

## 3. Recoverable send: `ResumeTransfer`

### State and code

| variable | code |
| --- | --- |
| `sendRow`, `recvRow` | the `transfer_resumes` rows: state and resume token |
| `sendJournal`, `recvJournal` | `recent` observations `sender_observed_commit` and `receiver_published` |
| `partial` | the receiver's `<id>.part`: length in chunks, and whether every byte is the manifest's |
| `dest` | the receiving root: what is at each name |
| `source` | whether the sending user's file still has the manifest's hash |
| `sActive`, `rActive` | `ResumeStore.active` of either agent (volatile) |
| `up`, `toR`, `toS` | a direct session: open, and the two ordered queues |
| `spc`, `stok`, `sent`, `sok` | the goroutine in `SendResumable` |
| `rpc`, `rrec`, `offered` | the goroutine in `ReceiveResumable` and its copy of the row |
| `published`, `lapsed` | history: what was linked or recognised; whose evidence was given up |

One session is one attempt, `xfer` says of which transfer. An action is the code between two points
where another actor can interfere: a message, a SQL transaction, a file-system call, the registry.
`SenderStep` and `ReceiverStep` list the steps of the two goroutines; `Environment` holds crashes of
either agent, expiry, deletion, a changing source, a damaged spool and the receiving user.

Abstractions. A chunk says only whether it is what the manifest was hashed over, a hash check asks
whether all of them are. Byte quotas are row counts. A resume token is named by the session that
issued it, since tokens are random and compared for equality only. A SQL error in the middle of a
step is the failure of the step (`SendFails`, `RecvFails`, `CommitFails`). `deleteStoredRow` is
atomic here and is opened up in `TransferCleanup`.

### The abstract specification

`Publication` says what a user may rely on: a file appears complete and only at a free name
(`Publish`), or is recognised because it is there already (`Recognise`); the receiver records
(`Record`) what was published, the sender observes (`Observe`) what was recorded; the user may move
files at any time. `ImplementsPublication` instantiates it with `recorded <- recvJournal` and
`observed <- sendJournal`.

### Runs

| run | instance | checks |
| --- | --- | --- |
| `resume_rivals` | 2 transfers with different content, one name, one row of quota per side, 2 sessions, 1 chunk; 734 thousand states | `TypeOK`, `CommitEvidenceChain`, `NoDamagedPublication`, `CommitEvidence`, `ImplementsPublication`, `TombstoneStopsRepublication` |
| `resume_live` | 1 transfer, 2 sessions, 2 chunks, fairness; 327 thousand states | `SessionsEnd` |

Why these bounds. Every conflict in the code is between two operations: two transfers at one name,
two transfers at one quota row, two sessions of one transfer; `resume_rivals` lets both sessions
serve either transfer, so it has all of them, and one chunk separates "nothing", "some" and "all" of
the payload. Two chunks in `resume_live` make the loops iterate. Sessions are interchangeable
(symmetry, not used with liveness).

Fairness. `SessionsEnd` assumes weak fairness of each goroutine of each session, which the Go
scheduler gives. Nothing is assumed of the network, of timers, of crashes or of users.

What they show. Whatever is lost, retried or interrupted, no destination is overwritten and none
gets content its manifest denies; a sender that reports success is backed by the receiver's record
and that by the link; a publication the sender has not heard of leaves a commit intent or a tombstone
unless it expired or an error at commit time discarded the row (`lapsed`). That last exception is
real: any error of `commitResume` after the link discards the row.

### Proofs: `ResumeTransferProofs`

For all transfers, sessions, names, contents, payload lengths and limits, from
`ConstantsAssumption` alone:

* `TypeCorrect`: `Spec => []TypeOK`. Inductive with `SendersCount` (a sender that streams has a
  chunk left), which bounds the counter.
* `EvidenceChain`: `Spec => []CommitEvidenceChain`, and `OnlyVerifiedContent`:
  `Spec => []NoDamagedPublication`.
* `Refinement`: `Spec => ImplementsPublication`.
* `EvidenceKept`: `Spec => []CommitEvidence`, and `NoRepublication`:
  `Spec => TombstoneStopsRepublication`.

The second and third rest on `EvidenceInv`, which follows the evidence hop by hop. `NoDamagedPublication`
needs `Verified` (a partial about to be linked is intact), and that needs `Owns`: an operation past
its offer holds the registry entry, so no other session writes its partial, no expiry or deletion
takes its row. `CommitEvidenceChain` needs a fact for each place the evidence passes through: the
receiver's program counter (`LinkedIsPublished`), the tombstone, the receiver's copy of it and the
decision to confirm (`PendingIsRecorded`), the `committed` message in flight
(`ConfirmationIsRecorded`). The proof of preservation has one step per action.

`CommitEvidence` says that evidence is not lost, so its proof needs to know who may touch a row and
why `finishReceive` may remove one. `KeptInv` adds two families of facts to `EvidenceInv`. `RowInv`:
the row of a transfer is what its owner read or wrote last, the link happens under a commit intent,
a session that has admitted no offer has issued no token, and a row that the session created itself
(the one the code discards when there is no room) has no commit intent. `AckInv` follows the
acknowledgement backwards: an operation that finishes has had its commit observed, because an `ack`
in flight was sent after `observeSend` or answers a rejection, and a receiver that has rejected never
takes it for the acknowledgement of its confirmation. `TombstoneStopsRepublication` is then a
consequence of `RowInv`.

Only model-checked: `SessionsEnd` (liveness).

## 4. The cleanup journal: `TransferCleanup`

Deleting a transfer records an intent, renames the file to a staged name, deletes the row and then
removes the file; `recoverCleanup` finishes or undoes what was interrupted. The model keeps, per
transfer, the file its row owns and the file its intent names; the set of files under their own and
under staged names; and what the holder of `maintenanceMu` is doing (`mpc`, `batch`, `todo`).
A receive always has the same `.part` name; a send from standard input gets a fresh spool per
submission. `MaintenanceFails` is a SQL or file error at any step, `AgentStops` a crash;
`ForgetUnreadable` is what recovery does when it cannot look at a file of an intent or finds something
that is not a regular file: it deletes the intent and goes on.
`OpenPartial` is the one file operation that the code runs outside the mutex.

| run | instance | checks |
| --- | --- | --- |
| `cleanup_recovery` | 1 receive, 1 send with 2 spool names, 2 faults, fairness; 39 thousand states | `ArtifactsOnRecord` (types, `OwnerKeepsArtifact`, `PartialLeftoversQueued`), `CleanupDrainsOrSticks` |

Two transfers suffice because intents meet only in the loops over all of them; two faults because
the second has to hit the recovery from the first. Fairness: weak for the holder of the mutex, strong
for the start of GC, since every transfer, listing and start of the agent asks for it and `sync.Mutex`
does not starve a waiter.

`CleanupDrainsOrSticks` shows that a stuck intent (section 13) is the only obstacle to draining.
`PartialLeftoversQueued` is about partials only: a spool can be forgotten (section 13). Both parts of
`ArtifactsOnRecord` except the transfers one of whose intents recovery gave up unread (`unread`), and
say of every other that its files stay in reach.

### Proofs: `TransferCleanupProofs`

`Artifacts`: `Spec => []ArtifactsOnRecord`, for any transfers, files and number of faults, from
`CleanupAssumption` (partial names are derived from transfer IDs, so they differ; a transfer is
received or sent). `ArtifactsOnRecord` is not inductive: a step of recovery renames or removes the file
its intent names, so one has to know that nobody else's row or intent names it (`Kinds`, `Apart`);
`OpenPartial` runs outside the mutex, so that the rows being deleted belong to no operation that
could still open a file (`OperationsHaveRows`, `BatchInHand`); and deleting the rows is safe because
the intents of the whole batch were recorded before (`BatchInHand`). The conjunction, `CleanupInv`, is
inductive; its proof has one step per action.

## 5. Remote put: `PutTransfer`

A put creates or replaces a file below another agent's put root. The receiver reserves a row with the
name of a stage (`stage_intent`), creates the stage beside the destination and attaches it
(`transferring`), receives and verifies the content, records `publication_intent`, links or renames
the stage to the destination, commits, removes what is left of the stage and only then reports. Every
step may be the last one before a crash, an error or the loss of the session.

### State and code

| variable | code |
| --- | --- |
| `sRow`, `sLease`, `aged` | the `put_transfers` row of direction `send`: state, lease, whether its 24 hours are over |
| `row` | the row of direction `receive`: state, stage, `old_identity`, `resolution_destination_identity`, cleanup facts, lease |
| `files`, `dest` | the destination's directory: stages under their own names, and the file at each destination |
| `parent` | whether `openDestinationParent` finds the directory of the record |
| `stale` | the puts whose sender's manifest names an earlier `put_root_revision` than the receiver's |
| `lock` | `lockPutDestination` of that directory |
| `spc`, `link` | the goroutine in `Send`, and the session with one message under way in each direction |
| `wk` | the goroutine in `Receive` of each attempt, and the local operator: where it is, its copy of its own record (`own`), the record it is settling (`put`, `rec`), what follows the settlement (`plan`) and the records still to reap (`todo`) |
| `hist` | history: publications, rejections and the exceptions named below |

A settlement (`AbortPrepublication`, `CleanupNotAttempted`, `CleanupCommitted`, `cleanupStage`) is the
same four steps for whoever holds the lease: `BeginCleanup`, `UnlinkStage`, `MarkCleaned`, `DropStage`;
each may fail, and `Conclude` is what its caller does then. `Reconcile` decides from the directory
whether a record in `publication_intent` or `outcome_unknown` was published; its callers are the
record's own retry and `ReapParent` of another put.

Abstractions. One destination directory, since the lock and the reaping are per directory. A stage is
named, and its file identified, by the attempt that reserved it (names are random, identities are
inode numbers). The payload is one message; whether it is what the manifest says is a choice of the
receiver. A lease token is named by its holder. `stage_removed` and `parent_synced` are one fact.
`Scenes` chooses what a behaviour lets happen from outside: a user at the destination, a user
who moves the directory away and back, a change of the put root or of `allow_put`, the operator, the
passing of 24 hours, a crash of either agent.
Broken sessions and failing SQL or file operations are always possible.

### Runs

| run | instance | checks |
| --- | --- | --- |
| `put_retry` | 1 replacement, 2 attempts, everything but a moving directory, fairness; 259 thousand states | `ResultsAreTrue` (`CommitIsPublished`, `RejectionIsClean`), `PublishedOnce`, `RecordsTrue` (types, `StagesOnRecord`), `ReceivesEnd` |
| `put_rivals` | 1 create with 2 attempts and 1 conditional replacement, one name; a user there and sender crashes, or a directory that is moved and receiver crashes; 2.1 million states | `PutsStaySound` (the three invariants above), `ReplacesWhatItInspected` |

Why these bounds. One attempt leaves a record in any of its states and a second one finds it; the
operator and the user work on the record of the first or against the second. A third attempt and a
second put make one put settle what the other left and let the first come back to the result.

Fairness. Weak for each goroutine; strong for taking the directory lock, which is a channel of one
token that serves its waiters in order. The result's acknowledgement has a timeout in the code
(`deliverTerminal`), so a receiver need not wait for it. Crashes, users and the network owe nothing.

What they show. The receiver's row, the message and the sender's row say `committed` only after a
publication; a put is published once however often it is retried or reaped, as long as its record
lasts; a sender that is told of a final failure left neither a file nor a stage, but for the exceptions
below; every stage on disk is named by its row through every partial cleanup; a replacement never
destroys what another put published after the inspection; every receive ends. The user's own race
between the last validation and the rename is in the model and outside the property: ADR-0019
documents it.

Exceptions in the properties, through `hist`:

* `unfound`: the put was rejected before its record was read, because its directory was away or the
  put root was changed since its manifest was agreed (section 13).
* `overtaken`: `Receive` goes on with the record it read before the prepared/start exchange. If the
  operator's `Abandon` removed the stage in between and failed to delete the row, the retry makes the
  stage again, no later update matches, and the row expires with the stage on disk. A third attempt
  may then be rejected with the first one's stage still there, so `RejectionIsClean` asks only that
  such a put was not published. Two attempts do not get that far: the failing proof showed it, and an
  instance with three attempts confirmed it.
* `lapsed`: `Abandon` checks the state before it has the lease and not afterwards, so a put that is
  published in between without reaching its commit loses its evidence; and a row that expires under a
  retry claimed in time lets a replacement be published twice.

### Proofs: `PutTransferProofs`

`ResultsStayTrue`, `PublicationIsOnce`, `RecordsStayTrue`, `PutsAreSound` and `ReplacementsInspected`
prove every safety property of the two runs for any puts, attempts, names, user files and scenes, from
`PutAssumption` (attempts, user files, the operator and `None` are different things, there is a put)
and `NoMessage` (`None` is no message). None of the properties is inductive; `PutInvariant` proves
`PutInv`, which is, and has three layers.

* Copies. Whoever settles or works on a record has its lease, and whoever may make one has the lock of
  the directory (`LockHeldBy`), so the copy it works from agrees with the record (`SettledCopyOf`,
  `WorkingCopyOf`). Between loading a record and claiming it the copy is stale, and `LoadedCopyOf` is
  exactly what the operator and the expiry may have made of the record meanwhile.
* Evidence. A published put is on record as one that may have been published until the record lapses,
  and a replacement's stage is gone by then (`PastRecordedOf`); so no attempt publishes a second time
  (`NotYetPublishedBy`), and "committed" is neither on record nor under way nor about to be sent
  without a publication (`CommitRecordedOf`, `CommitKnownBy`, `PlanOf`).
* Results. A put has one sender at a time (`OneSender`), which leaves a session that is good for an
  acknowledgement only (`SessionOf`). A final failure is told of a put that is over (`Over`): not
  published, without a record, and without a receive that could still make one. It stays over because
  the sender that was told drops its row and never sends it again (`RejectedIsFinal`).

The steps are reduced to 72 moves, each of which says field by field what changes; one move may be a branch of several actions. A move of `m` spares what the others hold (`Spares`: their
leases, the records under them, the lock and the sessions), so that it has to be checked for `m`, for
the record it writes and for the whole only (`AllKept`). Each action amounts to one of the moves and
keeps the types. `PutInv` was checked with TLC on the instances of
both runs before it was proved. Only `ReceivesEnd`, which needs fairness, stays with TLC.

## 6. Downloading: `GetTransfer`

A get asks an agent for an offered file, builds a protected stage beside the destination (directory,
marker, data, a hard-link probe), receives into it, links the data and takes the stage down. Before it
reserves its row it reaps what earlier gets left in the same parent; nothing else ever removes
residue, `Startup` only withdraws the leases.

`row` and `active` are `getcleanup.Store`; `disk`, `dest` and `parent` the directory; `pc`, `loc` and
`outcome` the requesting goroutine, with the row its cleanup works on (its own or one it reaps) and
its copy of it; `link` and `spc` the session and `serveGet`. `GetStep` lists the steps of the
requester, `ServeStep` those of the offering agent, `Environment` the broken session, the passing of
a retry time, a crash, the next start, and users at the destination and its directory. Every step of
building, publication and cleanup can fail (`StageFails`, `CleanupFails`, `SettleFails`).

`get_reap` (2 gets of one name, 1 crash) checks `LiveStageIntact`, `ResidueOnRecord` (types,
`StageOnRecord`, `ResidueIsRecoverable`) and `OutcomesAreTrue`. Two gets are a victim and its reaper,
with the roles exchanged after the crash. It shows that leases keep a reaper off a stage that is
alive whatever its query saw before, and that interrupted cleanups can be resumed, but for one shape:
a stage whose row says it exists and whose marker was never made is left alone for good (`Markerless`).

### Proofs: `GetTransferProofs`

`LiveStages`, `Residue` and `TrueOutcomes` prove the three invariants of the run (and `TypeCorrect`
the types) for any gets, names, row quota and number of crashes, from `GetAssumption` and
`NoneAssumption` (`None` is neither a row nor a directory). None of them is inductive. The argument
is the lease: whoever works on a stage, its owner or a reaper, has the row of that stage under its
own lease (`WorkersHoldLease`), and a get that reaps has no row of its own yet
(`BeginnersHaveNothing`). So two gets never work on one directory, and its contents can be followed
from step to step: what a builder has made so far (`BuiltSoFar`), what a cleanup found at its
inspection and may still rely on when it removes (`CleanupKnows`), and which shapes a crash may leave
(`EveryShapeKnown`). `OutcomeInv` takes the bytes that were verified to the link, the link to the
outcome, and the outcome to the confirmation under way to the other agent.

## 7. Membership: `Membership`

The database of the rendezvous server. One SQL transaction is one step; calls that settle what
expired before they do their work are two steps or more (`calls`), with the time they read first.
`members`, `pending`, `invites`, `facts` with `floor`, `receipts` and `last` are the tables, `told` is
what a device's agent last learned. Approvals come from the operator, a member or an adapter's
command (`AdapterCommands`: admission and execution are separate transactions).

`membership_enroll` (1.6 million states) has 2 devices, 2 calls in flight, 2 labels of which one in
two spellings, and every table at its limit. A scene says which channels are in use (invites,
members, the adapter) and how many members there may be. `TablesAgree` (types, `LabelsExclusive`, `InvitesHaveIssuers`) says that
the several tables that reserve a label never disagree; `FactLogSound` (`FactsFit`,
`SettlementsPossible`) that the reserve of `facts.go` covers whatever may still happen and that
pruning never removes a fact a later settlement is validated against; `ReceiptsSound` that a receipt
tells what became of its command; `AdmittedOnce` that no identifier is
admitted a second time: `admittedEver` is the history of those that ever had a receipt, which the
server does not keep, and `last`, which it keeps, has to stand for it after receipts are evicted. With
`MaxFactRows` at 5 the reserve admits one pending enrollment at a time beside a member; this is the
limit at which pruning, refusal and settlement meet. The audit log is left out.

### Proofs: `MembershipProofs`

`Tables`, `FactLog`, `Receipts` and `CommandsOnce` prove the four properties of the run for any
devices, labels and spellings, adapters, commands, calls in flight and capacities, from
`MembershipConstants` alone. `Inv` has four parts. `Types` gives the rows of every table. `TableInv`
adds to the two invariants about labels and issuers what keeps them inductive: no identifier is on a
row before it was given out, an enrollment is on one row of two tables, a member was revoked once.
`FactInv` carries the reserve argument of `facts.go`. `FactsFit` is inductive by arithmetic once the
sizes of the tables are known: an expiry takes one of the two rows its pending enrollment had
reserved, an approval takes one and leaves the other to the new member, a revocation takes that one,
and only an admission (three rows) and a redemption (one) need room to be made. That settlements stay
possible needs what the log says of each enrollment: the admission of a pending one is not pruned and
is all there is (`PendingFacts`); an active member has no expiry and no revocation, and its approval
comes after its admission, so that pruning a prefix never leaves the admission alone (`MemberFacts`).
`ReceiptInv` adds that keys are unique, that no identifier an adapter was ever given a receipt for is
above its last command (`EverKnown`), nor any receipt on the table (`LastKnown`) and that no member was admitted by a command its adapter has not been given
(`AdmittersKnown`), without which a new receipt could find its member already there.

The proof goes through ten effects (`QuietDoes`, `SettleDoes`, `AdmitDoes`, `MemberDoes`,
`RedeemDoes`, `PruneDoes`, `InviteDoes`, `RevokeDoes`, `SubmitDoes`, `RejectDoes`), which say row by
row what a transaction did. Each action has one of them (`NextDoes`) and each preserves the four parts.
The hardest action is `Begin`: the expired enrollments are settled in any order of their deadlines,
and `OrderedRows` shows by counting that such an order names each of them exactly once.

## 8. Presence and control connections: `Rendezvous`

A connection has a server end (`server`: `connect`, its bounded queue and writer; `clients` is the
hub) and an agent end (`agent`: `connectControl`, the peers and sessions of the connection). The
network breaks, the writer falls behind, the queue overflows, and each end notices later. A scene
says which device is watched by a local program, opens direct sessions, approves an enrollment or is
revoked, or that the server shuts down; the scenes do not touch each other's state, which keeps the
instance small.

`rendezvous_presence` has 2 devices and 3 connections, so that a device reconnects while the server
still holds its old connection, with queues of 2. `ViewsTrue`: the hub has an entry exactly for the
connections it serves; what an agent sees, with the events under way, is who is online, unless the
connection is ending; so for a watching program and its agent, with a gap in the place of lost
events. `SessionsWithPeers`: no direct session outlives the presence of its peer or its connection.
`OutcomesTrue`: an approval reported as refused or unsent was not carried out. What an agent will
believe of a device when it has read everything queued for it (`Foreseen`) is what the last event
that mentions the device says; the same for a watching program (`Expected`).

### Proofs: `RendezvousProofs`

`Views`, `SessionPeers` and `Outcomes` prove the three invariants of the run for any devices, scenes,
connections and capacities, from `RendezvousConstants` alone. `Inv` has four parts. `Types` says what
may be in a queue: a reply only when its request was handled, with the outcome that the database has,
which is why a late reply is still true. `Bounds` says that queues, streams and session tables keep
their capacities. `EndsInv` relates the two ends of a connection to the hub's map and to the worker
of the agent. `PresenceInv` is `ViewsTrue`'s statement about presence made inductive: between
`register` and the authenticated message the peers of the moment of registration travel in the
connection's own state, so the list is right only while no event has overtaken it (`ListIsTrue`), an
agent that waits has something to read unless its connection is ending (`WaitsForSomething`), and
nothing is sent before authentication (`NotYetTold`). The hard step is `enqueue` to every other
connection at once: each either gets the event, and its `Foreseen` changes for that device alone, or
its queue is full and the connection ends.

## 9. Enrollment adapters: `AdapterFeed`

The adapter replays the fact log by pages from a cursor on its disk, takes a snapshot when its cursor
was pruned, listens to a doorbell that says no more than "replay", and approves with numbered
commands whose receipts the server keeps for a while. The adapter is the repository's own fixture
(`testscript/adapterfixture`). It may be killed at any step; the server restarts.

`adapter_follow` runs three scenes: listening while the credential is rotated and the adapter
deactivated, approving, replaying. `ViewTrue`: the view on disk is what was pending at the cursor.
`BellSound`: no fact goes unheard on an open stream, and no marker is written for a credential that
is no longer valid. `CommandsAgreed`: the adapter's record of each finished command is what the
server did. Time is not modelled: an expiry before a snapshot is `Expire` just before it. An
adapter's administration happens in the doorbell scene only.

### Proofs: `AdapterFeedProofs`

`ViewIsTrue`, `BellIsSound` and `CommandsAreAgreed` prove the three properties of the run for any
devices, scenes, page sizes, capacities of the log and numbers of commands. `FeedInvariant` proves the
inductive invariant `FeedInv`: `Types` and three parts that hardly touch each other.

* `ViewInv`: the log holds each fact once, and a settlement after the admission it settles; the
  adapter has applied no fact beyond its cursor; the pending rows are what the whole log leaves
  pending. `Replayed` is a recursive function over the facts of a page; that it keeps the view true
  is shown from the least number of facts at which it would not.
* `BellInv`: the stream the server serves is the one of the subscriber or is closed, and a fact the
  adapter has not looked at is in the broker's channel, in the subscriber's, or on the wire.
* `CommandInv`: a receipt tells the outcome of its command; at most one call is under way that the
  adapter has not given up; every command it is done with is at or below the adapter's last one on
  record and has an outcome that cannot change.

## 10. A context and its calls: `ContextManager`

`row`, `placed`, `staged` and `evidence` are durable (the row, the key files under their own and their
`.removing-` names, the unresolved transfer rows); `worker`, `entry`, `control`, `op` and `active` are
the goroutines and the manager's maps; `call` is the one lifecycle call under way, which gives up the
mutex while it talks to the server, waits for the worker or removes transfer state. A worker is
canceled under the lock that changes the row, and a statement with a canceled context writes nothing.

`contexts_lifecycle` runs six stories (join and remove; update and join under operations; disable and
enable; remove and update; remove with a stop or a crash) of up to 3 calls, 2 workers and 2
operations. `StoppedIsQuiet`: one worker at a time; a disabled context is never recorded as connected
and nothing runs in it, but for a removal that the start of the agent overtakes (`overtaken`, section
13); no operation outlives a removal. `AuthorityKept`: a root keeps its revision
under an operation and under an unresolved row. `KeysOutliveRow`, `RefusedIsUnredeemed` (an invite
reported as unusable was not used by a lost attempt), `TerminalStays` (an ended membership stays ended).

The run has outcomes that no property forbids: a removal canceled while it waits leaves its context
enabled without a worker, one that fails later leaves it disabled, and a crash between the renaming of
the keys and the deletion of the row leaves keys nobody finds again (section 13): `KeysOutliveRow` says
that the keys are on disk until the row is gone, not that the context can use them.
`ResolveTransferAcceptCurrent` may begin while a removal waits. Left out: aliases, the default context
and the repair of rows of old versions.

### Proofs: `ContextManagerProofs`

`Quiet`, `Authority`, `Keys` and `Refusals` prove the four invariants of the run, and `Endings` the
action property `TerminalStays`, for any devices, workers, operations, calls and stories, from
`ContextAssumption` (there is a device; model values are distinct; the operations are finite in
number, since the counters of `activeOperations` count them). The invariant that carries them:

* `CallInv`: what the call under way has found stays true until it ends, although it gives up the
  mutex. A join's keys are those of its row; a removal that stops the worker has disabled the row
  first; from `drain` on no operation runs but a resolution, and nobody starts a worker.
* `WorkerInv`: at most one worker is not canceled and it is the one in the map (`OneWorker`); the
  worker of a row that is disabled or ended is canceled or is about to find out (`HaltedWorkers`),
  but for the one of an overtaken removal, which is what makes `DisabledNeverConnected` inductive.
* `OpInv`: the counters are the numbers of operations behind them (`ActiveCounts`), so the guards
  that `Update`, `Join` and `Remove` put on a counter are guards on operations; an operation that may
  leave a row behind runs on the row there is (`OpsOnRow`).
* `RowInv`: a row's device is known to the server, as is a redeemed invite's.

Each action first gets a lemma that says what it does field by field (`...Effect`), then one that
says that it keeps `Inv`.

## 11. Operations: `AgentOperations`

Every request of the local API and every session a peer opens is a goroutine that takes resources on
its way (a slot of the API, the lease of a transfer, a place in `activeOperations`, a name in
`transferOps`, a waiter and a session of the control connection, a slot for incoming transfers) and
gives them back where it returns: `Undo` says what, and in which order, at each place. The steps are
shared by the kinds (`Claim`, `Begin`, `Lookup`, `Ask`, `Open`, `Check`, `Connect…`, `Store`,
`Finish`), each of which can fail; cancel and delete are calls of their own in two steps; `MoveInbox`
adds the lock of the entry, the copy, the publication, the claim and the removal.

`operations_share` runs groups of 2 or 3 operations that compete for the same resource, with limits of
1 or 2, in which clients go away, the connection is lost, the label is taken by another device and
files are replaced. `EverythingReturned`: limits hold, an operation that ended holds nothing, a client
that waits is answered once. `RightPeer`: a retry only runs with the device of its transfer; an
exchange of observations ends with the presence of the peer. `TransfersFound`: an operation that runs
can be canceled by its identifier, and none runs on a transfer that was abandoned or deleted.
`FilesMoveOnce`: a moved file is never lost, and delivered twice only with an answer that says so.

Worth knowing: the waiters of a connection are shared by all requests of its context, member lookups
included. A cancel of a put retry that is still looking for its peer answers that the transfer is
active, as `docs/reference/agent-ipc.md` says. An incoming send or put whose root cannot be prepared
leaves its session registered until the connection ends (`manager.go` 2951, 3002, 3028), which
`NothingLeft` excepts. A file that was replaced during a move may stay in a hidden claim directory;
the answer is then "uncertain". Incoming probes are left out.

## 12. Installing and starting the agent: `AgentStartup`

A command is a process: `px startup X` runs the commands of the service manager for X
(`CommandsFor`, per system); any other command that finds no agent asks the user and installs or
starts it; `px onboard` does so and then joins a context. They hold the startup lock while they
change the definition, and not while they ask. `host` is the definition on disk, the one loaded, and
the process of the service manager, which is external: `After` and `Works` say what its commands do.
A plan is an executable with a PX home; the scenes have two executables of one home with different
IPC versions, and a second home.

`startup_recovery` (627 thousand states) lets 2 commands run on each system, with failing commands,
kills at any step, logins, agents run by hand and contexts that change while the user is asked.
`SuccessIsTrue`: a recovery starts the definition it inspected, an uninstallation that succeeded
leaves nothing that starts the agent, an upgrade replaces the process. `ApprovalIsRespected`: a
recovery installs only where nothing is and the user agreed to that, onboarding never changes or
brings back a context. `LockIsFreed`, under weak fairness of each command's own steps: the programs a
command calls return, and its timers fire; users and the service manager owe nothing.

Not covered by the properties, and so in the code: on Linux, `install` over a running agent of another
executable does not restart it; `status` on Linux does not look at whose definition is active; on
macOS `uninstall` fails and leaves the file if the definition is not loaded; on Windows `upgrade`
ignores a failure to end the old task, which `UpgradeReplacesProcess` excepts. An unreadable,
insecure or disabled definition is one case of `Inspect`.

## 13. Where code and documents disagree

Met while modelling. Each behaviour is in the model; the properties above do not forbid it or except
it by name.

* **Duplicate offer** (`transfer/resume.go:701`). When two sessions offer one transfer at once,
  `acquire` returns a nil context with its error, and the refusal is sent with that context;
  `direct.Session.Send` evaluates `ctx.Done()` in a goroutine without recover, so the receiving agent
  stops. `resume_test.go:836` ("duplicate active transfer succeeded") tests only `acquire`.
* **Stuck cleanup** (`transfer/resume.go:2145`). An intent recorded for a row whose partial never
  existed, followed by one fault, is owned with neither name on disk; `recoverCleanup` fails on it in
  every later GC, and with it transfers and the start of the agent. `docs/guides/transfer-recovery.md`:
  "Recovery restores owner-bound data or completes cleanup".
* **Forgotten spool** (`transfer/resume.go:2190`). A new submission of the same manifest makes
  recovery take the older intent for invalid and delete it, with its staged spool on disk. Same
  guide: "startup or later GC drains it".
* **Put rejected for good** (`put/protocol.go:387` and `:405`). `Receive` compares the revision of the
  put root and opens the directory before it reads the record; if the root was changed or the
  directory is away, the put is rejected and the sender forgets it, published or not. The change of
  the root is not blocked by a committed row (`contexts/manager.go:1209`), so a put that was published
  and whose result was lost, retried after the change, is reported as failed. `docs/adr/0019`:
  "Receiver errors report a terminal clean rejection only after owned cleanup and parent sync are
  proven"; "A put-authority change is rejected while this state is active or unresolved".
* **Intent forgotten unread** (`transfer/resume.go:2118`). If recovery cannot look at one of the two
  names of an intent, or finds something else than a regular file there, it deletes the intent: the
  staged file of a row that still exists stays under its staged name, or a partial without a row stays,
  and nothing knows of it. Same guide as above: "Recovery restores owner-bound data or completes
  cleanup".
* **Put answered too early** (`put/protocol.go:268`). The retry of a put that stopped between
  publication and commit is answered `committed` after `start`, where `Send` expects `ready`: it
  reports an error and keeps its row; a further retry settles it. `docs/guides/filesystem-access.md`:
  "For every terminal result, the sender persists the matching committed, rejected, or retryable state
  before acknowledging it".
* **Approved, told expired** (`membership/store.go:292`). `EnrollmentStatus` reads members and pending
  enrollments in two queries; an approval in between makes the answer "expired", which the agent
  stores as final. `docs/architecture/agent-lifecycle.md:100`: "Pending --> Expired: approval window
  ends".
* **Revoked, still online** (`rendezvousapi/handler.go:351`). A revocation pushed between
  `authenticate` and `register` finds no client to close; the connection then registers and lasts
  until it ends by itself. `docs/adr/0010:29`: "pushed revocation closes the revoked member's
  connection".
* **Removal overtaken by the start** (`contexts/manager.go:1422`). IPC is served before `Activate` runs.
  A `Remove` that comes first finds no worker and gives up the mutex; `Activate` starts one, which reads
  the enabled row; `Remove` disables the row without canceling it, and the worker writes `connected`
  on it (`:4891`). `DisabledNeverConnected` fails there, and excepts it by name (`overtaken`).
* **Keys out of reach** (`contexts/manager.go:1459`). A crash between the renaming of the keys and the
  deletion of the row leaves a context whose keys lie under `.removing-` names. No code looks for those
  names again, so the context cannot load its key; a later removal succeeds and leaves them on disk.
* **Enabled without a worker** (`contexts/manager.go:1429`). `Remove` cancels the worker before it
  waits; if the call is canceled in that wait, the row stays enabled, and connected, with no worker
  until the next start. `docs/architecture/agent-lifecycle.md`: "The agent keeps one WebSocket open
  per connected context".

## 14. What is proved, what is checked, what is left out

Proved for every value of the constants: sections 3 to 10, that is every safety property of
`resume_rivals`, `cleanup_recovery`, `put_retry` and `put_rivals`, the refinement of `Publication`, and
every property of `get_reap`, `membership_enroll`, `rendezvous_presence`, `adapter_follow` and
`contexts_lifecycle`. Each inductive invariant was first checked with TLC on the instance of the run.

Only model-checked, on the instances above: `AgentOperations` and `AgentStartup` (no proof has been
attempted yet), and every liveness property. Liveness under fairness and `ENABLED` are outside what
TLAPS can do here, as is induction over data; the modules avoid recursion, so that nothing stands in
the way of proofs about them.

An invariant that names several parts is their conjunction; the parts are definitions of their own,
with the code they are about. Every property has a mutant in `PROJECT.json`, a plausible bug of the
code under which TLC finds it violated. The deadlock check is off where behaviours end by design: all
calls, sessions or connections of an instance are used up.

Not modelled: the Windows build of put (its backups); the bytes, framing and validation of messages;
WebRTC; SQL as such (a statement or transaction is atomic and may fail); the retry clock of
`ReapParent` (any eligible record may be left out); byte quotas of put and get (row quotas stand for
them); the bytes of fast send and download; listing below the offered root; argument parsing,
prompts and rendering of the command line; HTTP routing; SQLite migrations; key files and
permissions; the STUN server; diagnostics and release.

Smaller branches that the modules leave out or merge, with the reason:

* `ResumeTransfer.OfferRefused` refuses for a token or for lack of room. An invalid manifest, a changed
  offered root (only committed rows of public sends can meet it, the others block the change) and a
  stored row with an impossible offset, which no write of the code makes, are left out; a refusal for
  any of them would be the same answer.
* `GetTransfer.SelectResidue` has no `LIMIT 8`: a reaper may take more rows, in any order.
* `Rendezvous.HandleApproval`: a member's queue that is full when its answer is put there ends the
  connection, as `Enqueue` does; that the approval has committed by then is the same as a lost answer.
* `AdapterFeed.ExecuteCommand` rejects the one command it executes. The code rejects every admitted
  command of the enrollment (`adapters.go:550`), which is `RejectAdmitted` in `Membership`; the fixture
  has one command at a time.
* `ContextManager.RemoveStage`: the errors between the wait and the renaming of the keys are one
  failure, which leaves the row disabled. `Update` has no `legacyAuthorityRepair`.
* `AgentOperations.Rename`: a claim or rename that fails with the entry in place is a refusal of the
  move. A send with a transfer ID given by the caller behaves like a retry and is left to it.

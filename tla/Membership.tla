------------------------------ MODULE Membership ------------------------------
(***************************************************************************)
(* The membership database of the rendezvous server                        *)
(* (internal/membership): pending enrollments, members, enrollment         *)
(* invites, the enrollment facts adapters replay, and the receipts of      *)
(* adapter approval commands.                                              *)
(*                                                                         *)
(* One SQLite transaction is one step.  RequestEnrollment, Approve,        *)
(* ApproveAdapterCommand and EnrollmentStatus first settle what expired in *)
(* a transaction of its own and then do their work, with the time read     *)
(* when they were called: they are calls in flight (calls) of two steps or *)
(* more, and everything else may happen in between.  Invites are handled   *)
(* in one transaction.  A call that is refused, or whose client goes away  *)
(* between two transactions, a crash of the server included, returns       *)
(* without a further change (DropCall).                                    *)
(*                                                                         *)
(* A tick of the clock is one minute.  Enrollment and invite identifiers   *)
(* and approval codes are random: here they are numbers never used before, *)
(* and an approval code is the number of its enrollment.  The identifiers  *)
(* of adapter commands are UUIDv7 values compared as strings: here they    *)
(* are numbers, all issued within the accepted 30 days.                    *)
(***************************************************************************)
EXTENDS Naturals, Sequences, FiniteSets

CONSTANTS
    Scenes,             \* bound of the model: the channels in use, the member limit
    Devices,            \* device keys
    Labels,             \* peer labels as written
    LabelKey,           \* a label in lower case
    Adapters,           \* provisioned enrollment adapters
    Commands,           \* the command identifiers an adapter may submit
    Callers,            \* requests the server handles at the same time
    PendingLifetime,    \* minutes a pending enrollment lives
    InviteLifetimes,    \* minutes an invite may be created for
    MaxPending,         \* capacity of pending_enrollments
    MaxActiveInvites,   \* capacity of enrollment_invites
    MaxMemberInvites,   \* invites one member may have
    MaxMemberCreates,   \* invites one member may create in a minute
    MaxFactRows,        \* capacity of enrollment_facts with its reserve
    MaxReceipts,        \* capacity of enrollment_command_receipts
    MaxAdmitted,        \* receipts that may await execution
    MaxClock,           \* bound of the model: minutes
    MaxEnrollments,     \* bound of the model: enrollments ever created
    MaxInvites          \* bound of the model: invites ever created

ASSUME MembershipConstants ==
    /\ Scenes \subseteq [uses : SUBSET {"invites", "members", "adapter"},
                         maxMembers : Nat \ {0}]
    /\ LabelKey \in [Labels -> Labels]
    /\ Commands \subseteq Nat \ {0}
    /\ InviteLifetimes \subseteq Nat \ {0}
    /\ \A n \in {PendingLifetime, MaxPending, MaxActiveInvites, MaxMemberInvites,
                 MaxMemberCreates, MaxFactRows, MaxReceipts,
                 MaxAdmitted} : n \in Nat \ {0}
    /\ \A n \in {MaxClock, MaxEnrollments, MaxInvites} : n \in Nat

VARIABLES
    scene,      \* the member of Scenes this behaviour follows
    clock,      \* minutes since the database was opened
    members,    \* members: the row of each device, or NoMember
    pending,    \* pending_enrollments
    invites,    \* enrollment_invites
    facts,      \* every fact ever appended; seq is the index
    floor,      \* replay_floor: the facts up to it have been pruned
    creates,    \* invite.created audit rows of each device this minute
    receipts,   \* enrollment_command_receipts
    last,       \* last_command_id of each adapter
    admittedEver, \* history: the commands that ever got a receipt
    calls,      \* the request each caller is in the middle of
    told,       \* what each device's agent last learned of its enrollment
    enrolled,   \* enrollment identifiers used
    invited     \* invite identifiers used

tables == <<members, pending, invites, facts, floor, receipts>>
vars == <<scene, clock, members, pending, invites, facts, floor, creates, receipts,
          last, admittedEver, calls, told, enrolled, invited>>

NoMember == [enrollment |-> 0]

\* The capacity of active members.
MaxMembers == scene.maxMembers

Idle == [op |-> "idle"]
Local == "local"
Actors == Devices \cup {Local}

Member(e, l, by) ==
    [enrollment |-> e, label |-> l, revision |-> 1, revoked |-> FALSE, by |-> by]

IsMember(d) == members[d] # NoMember
Active(d) == IsMember(d) /\ ~members[d].revoked
ActiveMembers == {d \in Devices : Active(d)}

\* The operator may always act, a device while it is an active member.
Authorized(by) == by \in ActiveMembers \cup {Local}

(***************************************************************************)
(* Who holds a label, in each of the three tables.                         *)
(***************************************************************************)
MemberKeys == {LabelKey[members[d].label] : d \in {d \in Devices : IsMember(d)}}
PendingKeys == {LabelKey[p.label] : p \in pending}
InviteKeys(S) == {LabelKey[i.label] : i \in S}

Init ==
    /\ scene \in Scenes
    /\ clock = 0
    /\ members = [d \in Devices |-> NoMember]
    /\ pending = {}
    /\ invites = {}
    /\ facts = <<>>
    /\ floor = 0
    /\ creates = [d \in Devices |-> 0]
    /\ receipts = {}
    /\ last = [a \in Adapters |-> 0]
    /\ admittedEver = {}
    /\ calls = [c \in Callers |-> Idle]
    /\ told = [d \in Devices |-> "none"]
    /\ enrolled = 0
    /\ invited = 0

-----------------------------------------------------------------------------
(***************************************************************************)
(* Enrollment facts.                                                       *)
(***************************************************************************)
Retained == floor + 1 .. Len(facts)
Count(kind, e) == Cardinality({i \in Retained : facts[i] = <<kind, e>>})

\* A fact may be appended after the retained facts of its enrollment.
ValidFactOrder(kind, e) ==
    LET n == [k \in {"admitted", "expired", "approved", "revoked"} |-> Count(k, e)]
    IN  \/ kind = "admitted" /\ n["admitted"] + n["expired"] + n["approved"] + n["revoked"] = 0
        \/ kind \in {"expired", "approved"} /\ n["admitted"] = 1
             /\ n["expired"] + n["approved"] + n["revoked"] = 0
        \/ kind = "revoked" /\ n["revoked"] = 0 /\ n["expired"] = 0
             /\ (n["approved"] = 1 \/ n["admitted"] = 0)

\* The rows facts occupy once everything up to f is pruned, with the two facts
\* every pending enrollment and the one every active member may still cause.
Occupancy(f) == Len(facts) - f + 2 * Cardinality(pending) + Cardinality(ActiveMembers)

\* Mutant: a fact is pruned whatever it is about.
PrunableAll == floor .. Len(facts)

\* How far the oldest facts can be pruned: up to the admission of an
\* enrollment that is still pending.
Prunable ==
    {f \in floor .. Len(facts) :
        \A i \in floor + 1 .. f :
            ~\E p \in pending : facts[i] = <<"admitted", p.enrollment>>}

Least(S) == CHOOSE f \in S : \A g \in S : f <= g
Greatest(S) == CHOOSE f \in S : \A g \in S : g <= f

\* The floors at which need more rows fit.
Roomy(need) == {f \in Prunable : Occupancy(f) + need <= MaxFactRows}

-----------------------------------------------------------------------------
(***************************************************************************)
(* Settlement of what has expired at t.                                    *)
(***************************************************************************)
Live(S, t) == {x \in S : x.expires > t}

Settled(r, code) == [r EXCEPT !.state = "rejected", !.code = code]

\* Mutant: commands admitted for the settled enrollments stay admitted.
KeepAdmitted(E, code, exceptKey) == receipts

\* The receipts with the admitted commands for the enrollments E rejected, but
\* for the command being executed.
RejectAdmitted(E, code, exceptKey) ==
    {IF r.enrollment \in E /\ r.state = "admitted" /\ <<r.adapter, r.command>> # exceptKey
     THEN Settled(r, code) ELSE r : r \in receipts}

\* The orders in which the rows S can be settled.
Orders(S) ==
    {s \in [1 .. Cardinality(S) -> S] :
        \A i, j \in DOMAIN s : i < j => s[i] # s[j] /\ s[i].expires <= s[j].expires}

SettleExpired(t) ==
    LET lapsed == pending \ Live(pending, t)
        ids == {p.enrollment : p \in lapsed}
    IN  /\ \A e \in ids : ValidFactOrder("expired", e)
        /\ \E s \in Orders(lapsed) :
              facts' = facts \o [i \in DOMAIN s |-> <<"expired", s[i].enrollment>>]
        /\ receipts' = RejectAdmitted(ids, "enrollment_expired", <<>>)
        /\ pending' = Live(pending, t)
        /\ invites' = Live(invites, t)
        /\ UNCHANGED <<members, floor>>

\* A request that settles first begins.  What it asks for plays no part in the
\* settlement: the step that follows chooses it.
Begin(c) ==
    /\ calls[c] = Idle
    /\ SettleExpired(clock)
    /\ calls' = [calls EXCEPT ![c] = [op |-> "settled", now |-> clock]]
    /\ UNCHANGED <<scene, clock, creates, last, admittedEver, told, enrolled, invited>>

Return(c) == calls' = [calls EXCEPT ![c] = Idle]

DropCall(c) ==
    /\ calls[c] # Idle
    /\ Return(c)
    /\ UNCHANGED <<scene, tables, clock, creates, last, admittedEver, told, enrolled, invited>>

Tick ==
    /\ clock < MaxClock
    /\ clock' = clock + 1
    /\ creates' = [d \in Devices |-> 0]
    /\ UNCHANGED <<scene, tables, last, admittedEver, calls, told, enrolled, invited>>

-----------------------------------------------------------------------------
(***************************************************************************)
(* Enrollment.                                                             *)
(***************************************************************************)
\* The device is a member: its own label returns its credential again.
AnswerMember(d, l) ==
    /\ IsMember(d)
    /\ told' = IF Active(d) /\ LabelKey[members[d].label] = LabelKey[l]
               THEN [told EXCEPT ![d] = "enrolled"] ELSE told
    /\ UNCHANGED <<tables, enrolled>>

\* The device has a pending enrollment: its own label returns it again.
AnswerPending(d, l) ==
    /\ ~IsMember(d)
    /\ LabelKey[l] \notin MemberKeys
    /\ \E p \in pending :
          /\ p.device = d
          /\ told' = IF LabelKey[p.label] = LabelKey[l]
                     THEN [told EXCEPT ![d] = "pending"] ELSE told
    /\ UNCHANGED <<tables, enrolled>>

\* Mutant: a label an invite reserves is taken.
FreeOfRows(d, l) ==
    /\ ~IsMember(d)
    /\ LabelKey[l] \notin MemberKeys \cup PendingKeys
    /\ \A p \in pending : p.device # d
    /\ Cardinality(pending) < MaxPending

\* The device and its label are on no row of any table.
Free(d, l) ==
    /\ ~IsMember(d)
    /\ LabelKey[l] \notin MemberKeys \cup PendingKeys \cup InviteKeys(invites)
    /\ \A p \in pending : p.device # d
    /\ Cardinality(pending) < MaxPending

\* A new pending enrollment, with its fact.
Admit(d, l, t) ==
    /\ Free(d, l)
    /\ Roomy(3) # {}
    /\ enrolled < MaxEnrollments
    /\ enrolled' = enrolled + 1
    /\ floor' = Least(Roomy(3))
    /\ pending' = pending \cup {[enrollment |-> enrolled', device |-> d, label |-> l,
                                 expires |-> t + PendingLifetime]}
    /\ facts' = Append(facts, <<"admitted", enrolled'>>)
    /\ told' = [told EXCEPT ![d] = "pending"]
    /\ UNCHANGED <<members, invites, receipts>>

RequestEnrollment(c, d, l) ==
    /\ calls[c].op = "settled"
    /\ \/ AnswerMember(d, l)
       \/ AnswerPending(d, l)
       \/ Admit(d, l, calls[c].now)
    /\ Return(c)
    /\ UNCHANGED <<scene, clock, creates, last, admittedEver, invited>>

(***************************************************************************)
(* The agent of a device with a pending enrollment polls its status.  The  *)
(* two tables are read by two queries outside of any transaction.          *)
(***************************************************************************)
Learn(d, state) == told' = [told EXCEPT ![d] = state]

StatusOfMember(c, d) ==
    /\ calls[c].op = "settled"
    /\ told[d] = "pending"
    /\ \/ /\ IsMember(d)
          /\ Learn(d, IF Active(d) THEN "enrolled" ELSE "revoked")
          /\ Return(c)
       \/ /\ ~IsMember(d)
          /\ calls' = [calls EXCEPT ![c] = [op |-> "status", now |-> @.now, device |-> d]]
          /\ UNCHANGED told
    /\ UNCHANGED <<scene, tables, clock, creates, last, admittedEver, enrolled, invited>>

StatusOfPending(c) ==
    /\ calls[c].op = "status"
    /\ LET d == calls[c].device IN
          IF \E p \in pending : p.device = d /\ p.expires > calls[c].now
          THEN UNCHANGED told
          ELSE Learn(d, "expired")
    /\ Return(c)
    /\ UNCHANGED <<scene, tables, clock, creates, last, admittedEver, enrolled, invited>>

(***************************************************************************)
(* Approval, by the server's operator or by an active member.              *)
(***************************************************************************)
\* The pending enrollment p becomes a member; the tables a new member touches.
MakeMember(p, by, exceptKey, own) ==
    /\ ValidFactOrder("approved", p.enrollment)
    /\ members' = [members EXCEPT ![p.device] = Member(p.enrollment, p.label, by)]
    /\ pending' = pending \ {p}
    /\ facts' = Append(facts, <<"approved", p.enrollment>>)
    /\ receipts' = {IF <<r.adapter, r.command>> = own
                    THEN [r EXCEPT !.state = "committed"] ELSE r :
                    r \in RejectAdmitted({p.enrollment}, "settled_elsewhere", exceptKey)}
    /\ UNCHANGED <<invites, floor>>

\* A refused approval changes nothing (DropCall).
Approve(c, by, code) ==
    /\ calls[c].op = "settled"
    /\ Authorized(by)
    /\ Cardinality(ActiveMembers) < MaxMembers
    /\ \E p \in pending : p.enrollment = code /\ MakeMember(p, <<by>>, <<>>, <<>>)
    /\ Return(c)
    /\ UNCHANGED <<scene, clock, creates, last, admittedEver, told, enrolled, invited>>

-----------------------------------------------------------------------------
(***************************************************************************)
(* Adapter commands.                                                       *)
(***************************************************************************)
Receipt(a, m, e) ==
    [adapter |-> a, command |-> m, enrollment |-> e, state |-> "admitted",
     code |-> "none", since |-> Len(facts)]

Keys(S) == {<<r.adapter, r.command>> : r \in S}
Admitted(S) == {r \in S : r.state = "admitted"}

\* An identifier is new when it has no receipt and is above last_command_id.
FreshCommand(a, m) == <<a, m>> \notin Keys(receipts) /\ m > last[a]

\* Mutant: the admission does not move last_command_id.
AdvancedNot(a, m) == last

\* last_command_id of each adapter when m of adapter a is admitted.
Advanced(a, m) == [last EXCEPT ![a] = m]

\* Capacity evicts the oldest settled receipt (receipts are admitted in the
\* order of since, and of the identifier for one adapter).
Oldest(S) ==
    {r \in S : r.state # "admitted" /\
        \A q \in S : q.state # "admitted" => r.since <= q.since}

\* The submission of a new command gets a receipt; an exact duplicate finds the
\* one there is.  Both then execute the command while it is admitted: a call
\* begins (Begin) and goes on with ApproveAdapterCommand.
Submit(a, m, e) ==
    /\ FreshCommand(a, m)
    /\ Cardinality(Admitted(receipts)) < MaxAdmitted
    /\ \/ Cardinality(receipts) < MaxReceipts
          /\ receipts' = receipts \cup {Receipt(a, m, e)}
       \/ Cardinality(receipts) >= MaxReceipts
          /\ \E r \in Oldest(receipts) :
                receipts' = (receipts \ {r}) \cup {Receipt(a, m, e)}
    /\ last' = Advanced(a, m)
    /\ admittedEver' = admittedEver \cup {<<a, m>>}
    /\ UNCHANGED <<scene, clock, members, pending, invites, facts, floor, creates, calls,
                   told, enrolled, invited>>

\* Why an enrollment that is not pending is refused, from the retained facts.
MissingPendingRejection(e) ==
    LET settling == {i \in Retained : facts[i] \in {<<"approved", e>>, <<"expired", e>>}}
    IN  IF settling = {} THEN "not_pending"
        ELSE IF facts[Greatest(settling)] = <<"expired", e>> THEN "enrollment_expired"
        ELSE "settled_elsewhere"

ApproveAdapterCommand(c, a, m) ==
    /\ calls[c].op = "settled"
    /\ \E r \in Admitted(receipts) :
          /\ <<r.adapter, r.command>> = <<a, m>>
          /\ \/ /\ \A p \in pending : p.enrollment # r.enrollment
                /\ receipts' = RejectAdmitted({r.enrollment},
                                  MissingPendingRejection(r.enrollment), <<>>)
                /\ UNCHANGED <<members, pending, invites, facts, floor>>
             \/ \E p \in pending :
                  /\ p.enrollment = r.enrollment
                  /\ \/ /\ Cardinality(ActiveMembers) >= MaxMembers
                        /\ receipts' = (receipts \ {r}) \cup {Settled(r, "member_capacity")}
                        /\ UNCHANGED <<members, pending, invites, facts, floor>>
                     \/ /\ Cardinality(ActiveMembers) < MaxMembers
                        /\ MakeMember(p, <<a, m>>, <<a, m>>, <<a, m>>)
    /\ Return(c)
    /\ UNCHANGED <<scene, clock, creates, last, admittedEver, told, enrolled, invited>>

-----------------------------------------------------------------------------
(***************************************************************************)
(* Invites.  Every operation deletes the expired ones first; an operation  *)
(* that is refused rolls that back, except a refused redemption, which     *)
(* commits it.                                                             *)
(***************************************************************************)
CreateInvite(by, l, life) ==
    LET live == Live(invites, clock)
        own == {i \in live : i.issuer = by}
    IN  /\ Authorized(by)
        /\ LabelKey[l] \notin MemberKeys \cup PendingKeys \cup InviteKeys(live)
        /\ Cardinality(live) < MaxActiveInvites
        /\ by # Local => Cardinality(own) < MaxMemberInvites /\ creates[by] < MaxMemberCreates
        /\ invited < MaxInvites
        /\ invited' = invited + 1
        /\ invites' = live \cup {[id |-> invited', label |-> l, issuer |-> by,
                                  expires |-> clock + life]}
        /\ creates' = IF by = Local THEN creates ELSE [creates EXCEPT ![by] = @ + 1]
        /\ UNCHANGED <<scene, clock, members, pending, facts, floor, receipts, last, admittedEver, calls,
                       told, enrolled>>

ListInvites(by) ==
    /\ Authorized(by)
    /\ invites' = Live(invites, clock)
    /\ UNCHANGED <<scene, clock, members, pending, facts, floor, creates, receipts, last, admittedEver,
                   calls, told, enrolled, invited>>

RevokeInvite(by, id) ==
    /\ Authorized(by)
    /\ \E i \in Live(invites, clock) :
          i.id = id /\ invites' = Live(invites, clock) \ {i}
    /\ UNCHANGED <<scene, clock, members, pending, facts, floor, creates, receipts, last, admittedEver,
                   calls, told, enrolled, invited>>

\* An invite names the label it admits, exactly as written.
Redeems(i, d, l) ==
    /\ i.label = l
    /\ ~IsMember(d)
    /\ LabelKey[l] \notin MemberKeys \cup PendingKeys
    /\ \A p \in pending : p.device # d
    /\ Cardinality(ActiveMembers) < MaxMembers

\* The device d redeems the invite id with the label l.
RedeemInvite(d, id, l) ==
    LET live == Live(invites, clock)
        mine == {i \in live : i.id = id /\ Redeems(i, d, l)}
    IN  /\ \/ \E i \in mine :
                /\ Roomy(1) # {}
                /\ enrolled < MaxEnrollments
                /\ enrolled' = enrolled + 1
                /\ floor' = Least(Roomy(1))
                /\ members' = [members EXCEPT ![d] = Member(enrolled', l, <<"invite">>)]
                /\ invites' = live \ {i}
                /\ told' = [told EXCEPT ![d] = "enrolled"]
           \/ /\ mine = {} \/ Roomy(1) = {}
              /\ invites' = live
              /\ floor' = IF mine = {} THEN floor ELSE Greatest(Prunable)
              /\ UNCHANGED <<members, told, enrolled>>
        /\ UNCHANGED <<scene, clock, pending, facts, creates, receipts, last, admittedEver, calls, invited>>

-----------------------------------------------------------------------------
(***************************************************************************)
(* Revocation.                                                             *)
(***************************************************************************)

Revoke(d, expected) ==
    /\ Active(d)
    /\ members[d].revision = expected
    /\ ValidFactOrder("revoked", members[d].enrollment)
    /\ members' = [members EXCEPT ![d].revision = @ + 1, ![d].revoked = TRUE]
    /\ facts' = Append(facts, <<"revoked", members[d].enrollment>>)
    /\ invites' = {i \in Live(invites, clock) : i.issuer # d}
    /\ UNCHANGED <<scene, clock, pending, floor, creates, receipts, last, admittedEver, calls, told,
                   enrolled, invited>>

-----------------------------------------------------------------------------
(***************************************************************************)
(* Who calls what: a device over HTTP, a member over its control           *)
(* connection, the operator over the administration socket, an adapter.    *)
(***************************************************************************)
Enroll(c, d) ==
    \/ \E l \in Labels : RequestEnrollment(c, d, l)
    \/ StatusOfMember(c, d)

Redeem(d) ==
    /\ "invites" \in scene.uses
    /\ \E id \in 1 .. invited, l \in Labels : RedeemInvite(d, id, l)

MemberApproves(c) ==
    /\ "members" \in scene.uses
    /\ \E by \in Devices, code \in 1 .. enrolled : Approve(c, by, code)

Invitations(by) ==
    \/ \E l \in Labels, life \in InviteLifetimes : CreateInvite(by, l, life)
    \/ ListInvites(by)
    \/ \E i \in invites : RevokeInvite(by, i.id)

MemberInvitations ==
    /\ {"invites", "members"} \subseteq scene.uses
    /\ \E by \in Devices : Invitations(by)

OperatorInvitations == "invites" \in scene.uses /\ Invitations(Local)

OperatorApproves(c) == \E code \in 1 .. enrolled : Approve(c, Local, code)

OperatorRevokes == \E d \in Devices, expected \in 1 .. 2 : Revoke(d, expected)

AdapterCommands ==
    /\ "adapter" \in scene.uses
    /\ \E a \in Adapters, m \in Commands :
        \/ \E e \in 1 .. enrolled : Submit(a, m, e)
        \/ \E c \in Callers : ApproveAdapterCommand(c, a, m)

Next ==
    \/ \E c \in Callers :
          \/ Begin(c)
          \/ \E d \in Devices : Enroll(c, d)
          \/ StatusOfPending(c)
          \/ MemberApproves(c)
          \/ OperatorApproves(c)
          \/ DropCall(c)
    \/ \E d \in Devices : Redeem(d)
    \/ MemberInvitations
    \/ OperatorInvitations
    \/ OperatorRevokes
    \/ AdapterCommands
    \/ Tick

Spec == Init /\ [][Next]_vars

-----------------------------------------------------------------------------
(***************************************************************************)
(* Properties.                                                             *)
(***************************************************************************)

TypeOK ==
    /\ clock \in 0 .. MaxClock
    /\ \A d \in Devices :
          \/ members[d] = NoMember
          \/ /\ members[d].enrollment \in 1 .. enrolled
             /\ members[d].label \in Labels
             /\ members[d].revision = IF members[d].revoked THEN 2 ELSE 1
    /\ \A p \in pending : p.enrollment \in 1 .. enrolled /\ p.device \in Devices /\ p.label \in Labels
    /\ \A i \in invites : i.id \in 1 .. invited /\ i.issuer \in Actors /\ i.label \in Labels
    /\ facts \in Seq({"admitted", "expired", "approved", "revoked"} \X (1 .. MaxEnrollments))
    /\ floor \in 0 .. Len(facts)
    /\ \A r \in receipts :
          /\ r.adapter \in Adapters /\ r.command \in Commands
          /\ r.state \in {"admitted", "committed", "rejected"}
    /\ Cardinality(Keys(receipts)) = Cardinality(receipts)
    /\ told \in [Devices -> {"none", "pending", "enrolled", "revoked", "expired"}]

\* A label names one device at most, whatever its spelling: no two rows of the
\* members, pending and invite tables share a lower-case label, and a device
\* is on one row of members and pending_enrollments at most.  Approval and
\* redemption insert a member without looking at every table again
\* (store.go Approve, invites.go RedeemInvite).
LabelsExclusive ==
    /\ \A d, e \in Devices : IsMember(d) /\ IsMember(e) /\ d # e
          => LabelKey[members[d].label] # LabelKey[members[e].label]
    /\ \A p, q \in pending : p # q => p.device # q.device /\ LabelKey[p.label] # LabelKey[q.label]
    /\ \A i, j \in invites : i # j => LabelKey[i.label] # LabelKey[j.label]
    /\ MemberKeys \cap PendingKeys = {}
    /\ MemberKeys \cap InviteKeys(invites) = {}
    /\ PendingKeys \cap InviteKeys(invites) = {}
    /\ \A p \in pending : ~IsMember(p.device)

\* The reserve of facts.go is never overdrawn: the facts that pending
\* enrollments and active members may still cause always fit in the table, so
\* neither an approval, an expiry nor a revocation runs out of rows.
FactsFit == Occupancy(floor) <= MaxFactRows

\* No settlement is ever refused by the order of facts, whatever was pruned in
\* the meantime: a pending enrollment can expire or be approved, an active
\* member can be revoked (facts.go validateFactOrder after pruneOneFactPrefix).
SettlementsPossible ==
    /\ \A p \in pending : ValidFactOrder("expired", p.enrollment) /\ ValidFactOrder("approved", p.enrollment)
    /\ \A d \in ActiveMembers : ValidFactOrder("revoked", members[d].enrollment)

\* A receipt tells the adapter what became of its command: committed when, and
\* only when, the member was admitted by it, expired or settled elsewhere only
\* when the history says so (adapters.go ApproveAdapterCommand, Approve,
\* deleteExpired).
ReceiptsTrue ==
    \A r \in receipts :
        LET key == <<r.adapter, r.command>>
            done == {facts[i] : i \in DOMAIN facts}
        IN  /\ r.state = "committed" <=>
                  \E d \in Devices : IsMember(d) /\ members[d].enrollment = r.enrollment /\ members[d].by = key
            /\ r.code = "enrollment_expired" => <<"expired", r.enrollment>> \in done
            /\ r.code = "settled_elsewhere" => <<"approved", r.enrollment>> \in done

\* A command that still awaits its execution has seen no settlement of its
\* enrollment since it was admitted: every settlement rejects the admitted
\* commands of the enrollment in its own transaction.
AdmittedIsOpen ==
    \A r \in Admitted(receipts) :
        \A i \in r.since + 1 .. Len(facts) :
            facts[i] \notin {<<"approved", r.enrollment>>, <<"expired", r.enrollment>>}

\* An invite in force was issued by the operator or by a member who still is
\* one: revocation takes the invites of the member with it.
InvitesHaveIssuers == \A i \in invites : i.issuer = Local \/ Active(i.issuer)

\* A command is admitted once: a receipt that capacity evicted never comes back
\* for an identifier that ever had one, although the server remembers only the
\* last identifier of each adapter.
AdmittedOnce ==
    [][\A a \in Adapters, m \in Commands :
          <<a, m>> \in Keys(receipts') \ Keys(receipts) => <<a, m>> \notin admittedEver]_vars

\* The tables fit together, after whatever mix of requests, approvals,
\* redemptions, expiries and revocations.
TablesAgree == TypeOK /\ LabelsExclusive /\ InvitesHaveIssuers

\* The fact log has room for every settlement to come, and the facts that
\* settlement is checked against.
FactLogSound == FactsFit /\ SettlementsPossible

\* Receipts tell the truth, before and after their commands were executed.
ReceiptsSound == ReceiptsTrue /\ AdmittedIsOpen

=============================================================================

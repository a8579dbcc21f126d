-------------------------- MODULE MembershipProofs --------------------------
(***************************************************************************)
(* Proofs about Membership: the tables agree, the fact log has room for    *)
(* and admits every settlement to come, receipts are true, and a command   *)
(* is admitted once.                                                       *)
(*                                                                         *)
(* The inductive invariant Inv is a conjunction of four parts: Types,      *)
(* TableInv, FactInv and ReceiptInv.  Every action has one of ten effects  *)
(* on the tables (QuietDoes ... RejectDoes), which say row by row what     *)
(* changed; each effect is shown to preserve each part, and each action to *)
(* have its effect.                                                        *)
(***************************************************************************)
EXTENDS Membership, FiniteSetTheorems, SequenceTheorems, WellFoundedInduction, TLAPS

Kinds == {"admitted", "expired", "approved", "revoked"}

Facts == Kinds \X (1 .. MaxEnrollments)

Codes == {"none", "enrollment_expired", "settled_elsewhere", "not_pending", "member_capacity"}

\* Who may have admitted a member: an actor, an invite, an adapter's command.
Admitters == {<<x>> : x \in Actors \cup {"invite"}} \cup (Adapters \X Commands)

MemberRows ==
    [enrollment : 1 .. MaxEnrollments, label : Labels, revision : {1, 2}, revoked : BOOLEAN,
     by : Admitters]

PendingRows == [enrollment : 1 .. MaxEnrollments, device : Devices, label : Labels, expires : Nat]

InviteRows == [id : 1 .. MaxInvites, label : Labels, issuer : Actors, expires : Nat]

ReceiptRows ==
    [adapter : Adapters, command : Commands, enrollment : Nat,
     state : {"admitted", "committed", "rejected"}, code : Codes, since : Nat]

Requests ==
    {Idle} \cup [op : {"settled"}, now : Nat] \cup [op : {"status"}, now : Nat, device : Devices]

CountersType ==
    /\ scene \in Scenes
    /\ clock \in 0 .. MaxClock
    /\ enrolled \in 0 .. MaxEnrollments
    /\ invited \in 0 .. MaxInvites

MembersType == members \in [Devices -> MemberRows \cup {NoMember}]

PendingType == pending \subseteq PendingRows

InvitesType == invites \subseteq InviteRows

FactsType == facts \in Seq(Facts) /\ floor \in 0 .. Len(facts)

ReceiptsType == receipts \subseteq ReceiptRows

LastType == last \in [Adapters -> Nat]

CallsType == calls \in [Callers -> Requests]

Answers == {"none", "pending", "enrolled", "revoked", "expired"}

ToldType == told \in [Devices -> Answers]

Types ==
    /\ CountersType
    /\ MembersType
    /\ PendingType
    /\ InvitesType
    /\ FactsType
    /\ ReceiptsType
    /\ LastType
    /\ CallsType
    /\ ToldType

\* The tables are finite.
Finite == IsFiniteSet(pending) /\ IsFiniteSet(ActiveMembers) /\ IsFiniteSet(receipts)

\* No identifier is on record before it was given out.
IdsUsed ==
    /\ \A d \in Devices : members[d].enrollment <= enrolled
    /\ \A p \in pending : p.enrollment <= enrolled
    /\ \A i \in invites : i.id <= invited
    /\ \A j \in DOMAIN facts : facts[j][2] <= enrolled

\* A member is revoked once.
Revisions ==
    \A d \in Devices : IsMember(d) => members[d].revision = IF members[d].revoked THEN 2 ELSE 1

\* An enrollment is on one row of members and pending_enrollments at most.
EnrollmentsExclusive ==
    /\ \A p, q \in pending : p # q => p.enrollment # q.enrollment
    /\ \A p \in pending, d \in Devices : members[d].enrollment # p.enrollment
    /\ \A d, e \in Devices : IsMember(d) /\ d # e => members[d].enrollment # members[e].enrollment

TableInv ==
    /\ Finite
    /\ IdsUsed
    /\ Revisions
    /\ EnrollmentsExclusive
    /\ LabelsExclusive
    /\ InvitesHaveIssuers

\* No fact is recorded twice.
FactsOnce == \A i, j \in DOMAIN facts : facts[i] = facts[j] => i = j

\* What the log says of a pending enrollment: that it was admitted, which is
\* not pruned, and nothing else.
PendingFacts ==
    \A p \in pending :
        /\ \E i \in floor + 1 .. Len(facts) : facts[i] = <<"admitted", p.enrollment>>
        /\ \A j \in DOMAIN facts : facts[j][2] = p.enrollment => facts[j][1] = "admitted"

\* What the log says of an active member: no expiry and no revocation, and its
\* admission before its approval.
MemberFacts ==
    \A d \in ActiveMembers :
        /\ \A j \in DOMAIN facts :
              facts[j][2] = members[d].enrollment => facts[j][1] \in {"admitted", "approved"}
        /\ \A i \in DOMAIN facts : facts[i] = <<"admitted", members[d].enrollment>> =>
              \E j \in i + 1 .. Len(facts) : facts[j] = <<"approved", members[d].enrollment>>

FactInv == FactsOnce /\ PendingFacts /\ MemberFacts /\ FactsFit

\* A command has one receipt at most.
KeysUnique ==
    \A r, q \in receipts : r.adapter = q.adapter /\ r.command = q.command => r = q

\* The settlement a receipt waits for is looked for in the log as it is now.
SinceInLog == \A r \in receipts : r.since <= Len(facts)

\* No adapter has a receipt for a command above the last one it was given.
LastKnown == \A r \in receipts : r.command <= last[r.adapter]

\* A command that admitted a member is not new to its adapter.
AdmittersKnown ==
    \A d \in Devices, a \in Adapters, m \in Commands :
        IsMember(d) /\ members[d].by = <<a, m>> => m <= last[a]

ReceiptInv ==
    KeysUnique /\ SinceInLog /\ LastKnown /\ AdmittersKnown /\ ReceiptsTrue /\ AdmittedIsOpen

Inv == Types /\ TableInv /\ FactInv /\ ReceiptInv

(***************************************************************************)
(* Tuples and bounded sets of numbers.                                     *)
(***************************************************************************)
\* A pair is neither the empty tuple nor a tuple of one.
LEMMA TupleLengths ==
    ASSUME NEW a, NEW b, NEW x
    PROVE  <<a, b>> # <<>> /\ <<a, b>> # <<x>>
  <1>1. Len(<<a, b>>) = 2 /\ Len(<<x>>) = 1 /\ Len(<<>>) = 0
    OBVIOUS
  <1> QED
    BY <1>1

\* A set of naturals that is not empty has a least element.
LEMMA LeastNatural ==
    ASSUME NEW T, T \subseteq Nat, T # {}
    PROVE  \E x \in T : \A y \in T : x <= y
  <1> DEFINE R == OpToRel(<, Nat)
  <1>1. IsWellFoundedOn(R, Nat)
    BY NatLessThanWellFounded
  <1>2. \A x, y \in Nat : y < x => <<y, x>> \in R
    BY DEF OpToRel
  <1> HIDE DEF R
  <1>3. PICK x \in T : \A y \in T : ~(<<y, x>> \in R)
    BY <1>1, WFMin
  <1>4. \A y \in T : ~(y < x)
    BY <1>2, <1>3
  <1> QED
    BY <1>4

\* Least is one of the numbers it is taken from.
LEMMA LeastIn ==
    ASSUME NEW S, S \subseteq Nat, S # {}
    PROVE  Least(S) \in S
  BY LeastNatural DEF Least

\* A set of naturals below a bound that is not empty has a greatest element.
LEMMA GreatestIn ==
    ASSUME NEW n \in Nat, NEW S, S \subseteq 0 .. n, S # {}
    PROVE  Greatest(S) \in S /\ \A x \in S : x <= Greatest(S)
  <1> DEFINE T == {n - x : x \in S}
  <1>1. \A x \in S : x \in Int /\ 0 <= x /\ x <= n /\ n - x \in Nat
    OBVIOUS
  <1>2. \A x \in S : n - x \in T
    OBVIOUS
  <1>3. \A u \in T : \E x \in S : u = n - x
    OBVIOUS
  <1> HIDE DEF T
  <1>4. T \subseteq Nat /\ T # {}
    BY <1>1, <1>2, <1>3
  <1>5. PICK t \in T : \A u \in T : t <= u
    BY <1>4, LeastNatural
  <1>6. PICK y \in S : t = n - y
    BY <1>3
  <1>7. ASSUME NEW x \in S
        PROVE  x <= y
    <2>1. n - y <= n - x
      BY <1>2, <1>5, <1>6
    <2>2. x \in Nat /\ y \in Nat
      OBVIOUS
    <2> QED
      BY <2>1, <2>2
  <1>8. \E f \in S : \A g \in S : g <= f
    BY <1>7
  <1> QED
    BY <1>8 DEF Greatest

(***************************************************************************)
(* What the invariant says of single rows and of the sizes of the tables.  *)
(***************************************************************************)
\* The constants the proofs use.
LEMMA Limits ==
    /\ MaxClock \in Nat /\ MaxEnrollments \in Nat /\ MaxInvites \in Nat
    /\ MaxFactRows \in Nat /\ PendingLifetime \in Nat
    /\ LabelKey \in [Labels -> Labels]
    /\ Commands \subseteq Nat
  BY MembershipConstants

\* Identifiers, the floor and the sizes of the tables are naturals.
LEMMA Sizes ==
    ASSUME Inv
    PROVE  /\ enrolled \in Nat /\ invited \in Nat /\ floor \in Nat /\ Len(facts) \in Nat
           /\ floor <= Len(facts)
           /\ DOMAIN facts = 1 .. Len(facts)
           /\ Cardinality(pending) \in Nat /\ Cardinality(ActiveMembers) \in Nat
  BY FS_CardinalityType DEF Inv, Types, CountersType, FactsType, TableInv, Finite

\* A fact is a kind and the number of an enrollment.
LEMMA FactFields ==
    ASSUME Inv
    PROVE  \A i \in 1 .. Len(facts) :
              /\ facts[i] \in Facts
              /\ facts[i][1] \in Kinds
              /\ facts[i][2] \in Nat
              /\ facts[i] = <<facts[i][1], facts[i][2]>>
  <1>1. \A i \in 1 .. Len(facts) : facts[i] \in Facts
    BY DEF Inv, Types, FactsType
  <1> QED
    BY <1>1 DEF Facts

\* The row of a device tells whether it is a member.
LEMMA MemberFields ==
    ASSUME Inv, NEW d \in Devices
    PROVE  /\ members[d].enrollment \in Nat
           /\ IsMember(d) <=> members[d].enrollment # 0
           /\ IsMember(d) => members[d] \in MemberRows
           /\ ~IsMember(d) => members[d] = NoMember
  BY DEF Inv, Types, MembersType, MemberRows, NoMember, IsMember

\* Pruning stops before the admission of an enrollment that is still pending.
LEMMA PrunableKeeps ==
    ASSUME Inv, NEW f \in Prunable
    PROVE  /\ f \in Nat /\ floor <= f /\ f <= Len(facts)
           /\ \A p \in pending :
                \E i \in f + 1 .. Len(facts) : facts[i] = <<"admitted", p.enrollment>>
  <1>1. f \in floor .. Len(facts)
    BY DEF Prunable
  <1>2. ASSUME NEW p \in pending
        PROVE  \E i \in f + 1 .. Len(facts) : facts[i] = <<"admitted", p.enrollment>>
    <2>1. PICK i \in floor + 1 .. Len(facts) : facts[i] = <<"admitted", p.enrollment>>
      BY DEF Inv, FactInv, PendingFacts
    <2>2. i \notin floor + 1 .. f
      BY <2>1 DEF Prunable
    <2>3. i \in f + 1 .. Len(facts)
      BY <1>1, <2>2, Sizes
    <2> QED
      BY <2>1, <2>3
  <1>3. f \in Nat /\ floor <= f /\ f <= Len(facts)
    BY <1>1, Sizes
  <1> QED
    BY <1>2, <1>3

\* LabelsExclusive, row by row.
Apart ==
    /\ \A d, e \in Devices : IsMember(d) /\ IsMember(e) /\ d # e
          => LabelKey[members[d].label] # LabelKey[members[e].label]
    /\ \A p, q \in pending : p # q => p.device # q.device /\ LabelKey[p.label] # LabelKey[q.label]
    /\ \A i, j \in invites : i # j => LabelKey[i.label] # LabelKey[j.label]
    /\ \A d \in Devices, p \in pending : IsMember(d)
         => LabelKey[members[d].label] # LabelKey[p.label]
    /\ \A d \in Devices, i \in invites : IsMember(d)
         => LabelKey[members[d].label] # LabelKey[i.label]
    /\ \A p \in pending, i \in invites : LabelKey[p.label] # LabelKey[i.label]
    /\ \A p \in pending : ~IsMember(p.device)

\* The invariant keeps the rows apart.
LEMMA InvApart ==
    ASSUME Inv
    PROVE  Apart
  <1> USE DEF Inv, TableInv, LabelsExclusive
  <1>1. \A d \in Devices, p \in pending : IsMember(d)
          => LabelKey[members[d].label] # LabelKey[p.label]
    BY DEF MemberKeys, PendingKeys
  <1>2. \A d \in Devices, i \in invites : IsMember(d)
          => LabelKey[members[d].label] # LabelKey[i.label]
    BY DEF MemberKeys, InviteKeys
  <1>3. \A p \in pending, i \in invites : LabelKey[p.label] # LabelKey[i.label]
    BY DEF PendingKeys, InviteKeys
  <1> QED
    BY <1>1, <1>2, <1>3 DEF Apart

\* Expiries take no more rows than their pending enrollments had reserved.
LEMMA RoomAfterExpiry ==
    ASSUME NEW n \in Nat, NEW m \in Nat, NEW f \in Nat, NEW k \in Nat, NEW j \in Nat,
           NEW a \in Nat, NEW rows \in Nat,
           j + m = k + n, j <= k, n - f + 2 * k + a <= rows
    PROVE  m - f + 2 * j + a <= rows
  OBVIOUS

\* So does an approval, with the row its new member reserves.
LEMMA RoomAfterApproval ==
    ASSUME NEW n \in Nat, NEW f \in Nat, NEW k \in Nat, NEW a \in Nat, NEW rows \in Nat,
           n - f + 2 * k + a <= rows
    PROVE  (n + 1) - f + 2 * (k - 1) + (a + 1) <= rows
  OBVIOUS

\* The reserve of three rows for an admission is enough.
LEMMA RoomForAdmission ==
    ASSUME NEW n \in Nat, NEW f \in Nat, NEW k \in Nat, NEW j \in Nat, NEW a \in Nat,
             NEW m \in Nat,
           j <= k + 1, n - f + 2 * k + a + 3 <= m
    PROVE  (n + 1) - f + 2 * j + a <= m
  OBVIOUS

(***************************************************************************)
(* What the steps do to the tables, row by row.                            *)
(***************************************************************************)
\* The log keeps what it has.
Extends ==
    /\ facts' \in Seq(Facts)
    /\ Len(facts') >= Len(facts)
    /\ \A i \in 1 .. Len(facts) : facts'[i] = facts[i]

Appends(f) == Extends /\ Len(facts') = Len(facts) + 1 /\ facts'[Len(facts) + 1] = f

\* The receipts R of commands that await their execution are rejected.
Rejects(R, code) ==
    /\ R \subseteq Admitted(receipts)
    /\ \A q : q \in receipts' <=>
          \E r \in receipts : q = IF r \in R THEN Settled(r, code) ELSE r

\* A receipt after the approval of p, by the command own or otherwise.
Marked(r, p, own) ==
    IF <<r.adapter, r.command>> = own THEN [r EXCEPT !.state = "committed"]
    ELSE IF r.enrollment = p.enrollment /\ r.state = "admitted"
    THEN Settled(r, "settled_elsewhere") ELSE r

\* A command of its own approves p, or somebody else does.
Approver(p, by, own) ==
    \/ own = <<>> /\ \E x \in Actors : by = <<x>>
    \/ /\ by = own
       /\ \E r \in Admitted(receipts) :
             <<r.adapter, r.command>> = own /\ r.enrollment = p.enrollment

\* No table changes.
QuietDoes ==
    /\ UNCHANGED <<scene, members, pending, invites, facts, floor, receipts, last, admittedEver, enrolled,
                   invited>>
    /\ clock' \in 0 .. MaxClock
    /\ CallsType'
    /\ ToldType'

\* The numbers of the facts just appended.
Added == Len(facts) + 1 .. Len(facts')

Lapsed == pending \ pending'

\* The commands whose enrollments lapse.
Doomed == {r \in Admitted(receipts) : \E p \in Lapsed : r.enrollment = p.enrollment}

SettleDoes ==
    /\ UNCHANGED <<scene, clock, members, floor, last, admittedEver, told, enrolled, invited>>
    /\ CallsType'
    /\ pending' \subseteq pending
    /\ Cardinality(pending') + Len(facts') = Cardinality(pending) + Len(facts)
    /\ invites' \subseteq invites
    /\ Extends
    /\ \A j \in Added : \E p \in Lapsed : facts'[j] = <<"expired", p.enrollment>>
    /\ \A p \in Lapsed : \E j \in Added : facts'[j] = <<"expired", p.enrollment>>
    /\ \A i, j \in Added : facts'[i] = facts'[j] => i = j
    /\ Rejects(Doomed, "enrollment_expired")

AdmitDoes(x) ==
    /\ UNCHANGED <<scene, clock, members, invites, receipts, last, admittedEver, invited>>
    /\ CallsType'
    /\ ToldType'
    /\ x \in PendingRows
    /\ x.enrollment = enrolled + 1
    /\ Free(x.device, x.label)
    /\ enrolled' = enrolled + 1
    /\ floor' \in Prunable
    /\ Occupancy(floor') + 3 <= MaxFactRows
    /\ pending' = pending \cup {x}
    /\ Appends(<<"admitted", x.enrollment>>)

MemberDoes(p, by, own) ==
    /\ UNCHANGED <<scene, clock, invites, floor, last, admittedEver, told, enrolled, invited>>
    /\ CallsType'
    /\ p \in pending
    /\ by \in Admitters
    /\ Approver(p, by, own)
    /\ MembersType'
    /\ members'[p.device] = Member(p.enrollment, p.label, by)
    /\ \A d \in Devices \ {p.device} : members'[d] = members[d]
    /\ pending' = pending \ {p}
    /\ Appends(<<"approved", p.enrollment>>)
    /\ \A q : q \in receipts' <=> \E r \in receipts : q = Marked(r, p, own)

RedeemDoes(d, l, i, e) ==
    /\ UNCHANGED <<scene, clock, pending, facts, receipts, last, admittedEver, calls, invited>>
    /\ ToldType'
    /\ d \in Devices
    /\ i \in invites
    /\ Redeems(i, d, l)
    /\ e = enrolled + 1
    /\ enrolled' = e
    /\ enrolled < MaxEnrollments
    /\ floor' \in Prunable
    /\ Occupancy(floor') + 1 <= MaxFactRows
    /\ MembersType'
    /\ members'[d] = Member(e, l, <<"invite">>)
    /\ \A y \in Devices \ {d} : members'[y] = members[y]
    /\ invites' \subseteq invites \ {i}

\* Invites go, and old facts.
PruneDoes ==
    /\ UNCHANGED <<scene, clock, members, pending, facts, receipts, last, admittedEver, calls, told, enrolled,
                   invited>>
    /\ invites' \subseteq invites
    /\ floor' \in Prunable

InviteDoes(x) ==
    /\ UNCHANGED <<scene, clock, members, pending, facts, floor, receipts, last, admittedEver, calls, told,
                   enrolled>>
    /\ invited < MaxInvites
    /\ invited' = invited + 1
    /\ x \in InviteRows
    /\ x.id = invited + 1
    /\ x.issuer = Local \/ Active(x.issuer)
    /\ LabelKey[x.label] \notin MemberKeys
    /\ LabelKey[x.label] \notin PendingKeys
    /\ \E live \in SUBSET invites :
          LabelKey[x.label] \notin InviteKeys(live) /\ invites' = live \cup {x}

RevokeDoes(d) ==
    /\ UNCHANGED <<scene, clock, pending, floor, receipts, last, admittedEver, calls, told, enrolled, invited>>
    /\ d \in Devices
    /\ Active(d)
    /\ MembersType'
    /\ members'[d] = [members[d] EXCEPT !.revision = 2, !.revoked = TRUE]
    /\ \A e \in Devices \ {d} : members'[e] = members[e]
    /\ Appends(<<"revoked", members[d].enrollment>>)
    /\ invites' \subseteq {i \in invites : i.issuer # d}

SubmitDoes(a, m, x) ==
    /\ UNCHANGED <<scene, clock, members, pending, invites, facts, floor, calls, told, enrolled,
                   invited>>
    /\ x \in ReceiptRows
    /\ x.adapter = a /\ x.command = m
    /\ x.state = "admitted" /\ x.code = "none" /\ x.since = Len(facts)
    /\ FreshCommand(a, m)
    /\ LastType'
    /\ last'[a] = m
    /\ admittedEver' = admittedEver \cup {<<a, m>>}
    /\ \A b \in Adapters \ {a} : last'[b] = last[b]
    /\ \E kept \in SUBSET receipts : receipts' = kept \cup {x}

RejectDoes(R, code) ==
    /\ UNCHANGED <<scene, clock, members, pending, invites, facts, floor, last, admittedEver, told, enrolled,
                   invited>>
    /\ CallsType'
    /\ code \in Codes
    /\ Rejects(R, code)
    /\ code = "enrollment_expired" =>
          \A r \in R : \E i \in DOMAIN facts : facts[i] = <<"expired", r.enrollment>>
    /\ code = "settled_elsewhere" =>
          \A r \in R : \E i \in DOMAIN facts : facts[i] = <<"approved", r.enrollment>>

\* ReceiptsTrue, row by row.
Admits(d, r) ==
    /\ IsMember(d)
    /\ members[d].enrollment = r.enrollment
    /\ members[d].by = <<r.adapter, r.command>>

Recorded(k, e) == \E i \in 1 .. Len(facts) : facts[i] = <<k, e>>

Truths ==
    \A r \in receipts :
        /\ r.state = "committed" <=> \E d \in Devices : Admits(d, r)
        /\ r.code = "enrollment_expired" => Recorded("expired", r.enrollment)
        /\ r.code = "settled_elsewhere" => Recorded("approved", r.enrollment)

\* The invariant says so of every receipt.
LEMMA InvTruths ==
    ASSUME Inv
    PROVE  Truths
  <1>1. DOMAIN facts = 1 .. Len(facts)
    BY Sizes
  <1> QED
    BY <1>1 DEF Inv, ReceiptInv, ReceiptsTrue, Truths, Admits, Recorded

\* The log after a step that extends it.
LEMMA ExtendedLog ==
    ASSUME Inv, Extends
    PROVE  /\ Len(facts') \in Nat
           /\ DOMAIN facts' = 1 .. Len(facts')
           /\ \A i \in 1 .. Len(facts) : i \in 1 .. Len(facts')
           /\ \A k, e : Recorded(k, e) => Recorded(k, e)'
  <1>1. Len(facts') \in Nat /\ DOMAIN facts' = 1 .. Len(facts')
    BY DEF Extends
  <1>2. \A i \in 1 .. Len(facts) : i \in 1 .. Len(facts')
    BY <1>1, Sizes DEF Extends
  <1>3. \A k, e : Recorded(k, e) => Recorded(k, e)'
    BY <1>2 DEF Recorded, Extends
  <1> QED
    BY <1>1, <1>2, <1>3

\* The log after one more fact.
LEMMA AppendedLog ==
    ASSUME Inv, NEW f, Appends(f)
    PROVE  /\ Len(facts') = Len(facts) + 1
           /\ DOMAIN facts' = 1 .. Len(facts) + 1
           /\ \A i \in 1 .. Len(facts) : facts'[i] = facts[i]
           /\ facts'[Len(facts) + 1] = f
           /\ \A i \in 1 .. Len(facts) + 1 : i \in 1 .. Len(facts) \/ i = Len(facts) + 1
           /\ f \in Facts
  <1>1. /\ Len(facts') = Len(facts) + 1
        /\ \A i \in 1 .. Len(facts) : facts'[i] = facts[i]
        /\ facts'[Len(facts) + 1] = f
    BY DEF Appends, Extends
  <1>2. DOMAIN facts' = 1 .. Len(facts) + 1
    BY <1>1, ExtendedLog DEF Appends
  <1>3. f \in Facts
    BY <1>1, <1>2, Sizes DEF Appends, Extends
  <1> QED
    BY <1>1, <1>2, <1>3, Sizes

\* A fact that is new to the log keeps every fact unique.
LEMMA AppendKeepsOnce ==
    ASSUME Inv, NEW f, Appends(f), \A i \in 1 .. Len(facts) : facts[i] # f
    PROVE  FactsOnce'
  <1>1. \A i, j \in 1 .. Len(facts) : facts[i] = facts[j] => i = j
    BY Sizes DEF Inv, FactInv, FactsOnce
  <1>2. ASSUME NEW i \in 1 .. Len(facts) + 1, NEW j \in 1 .. Len(facts) + 1, facts'[i] = facts'[j]
        PROVE  i = j
    BY <1>1, <1>2, AppendedLog
  <1> QED
    BY <1>2, AppendedLog DEF FactsOnce

\* A pending enrollment keeps its facts when one of another enrollment is appended.
LEMMA AppendKeepsPending ==
    ASSUME Inv, NEW f, Appends(f), NEW p \in pending, f[2] # p.enrollment, floor' = floor
    PROVE  /\ \E i \in floor' + 1 .. Len(facts') : facts'[i] = <<"admitted", p.enrollment>>
           /\ \A j \in DOMAIN facts' : facts'[j][2] = p.enrollment => facts'[j][1] = "admitted"
  <1>1. PICK i \in floor + 1 .. Len(facts) : facts[i] = <<"admitted", p.enrollment>>
    BY DEF Inv, FactInv, PendingFacts
  <1>2. i \in 1 .. Len(facts) /\ i \in floor' + 1 .. Len(facts')
    BY Sizes, AppendedLog
  <1>3. facts'[i] = <<"admitted", p.enrollment>>
    BY <1>1, <1>2, AppendedLog
  <1>4. ASSUME NEW j \in DOMAIN facts', facts'[j][2] = p.enrollment
        PROVE  facts'[j][1] = "admitted"
    <2>1. j \in 1 .. Len(facts) /\ facts'[j] = facts[j]
      BY <1>4, AppendedLog
    <2> QED
      BY <1>4, <2>1, Sizes DEF Inv, FactInv, PendingFacts
  <1> QED
    BY <1>2, <1>3, <1>4

\* So does an active member.
LEMMA AppendKeepsMember ==
    ASSUME Inv, NEW f, Appends(f), NEW d \in ActiveMembers, f[2] # members[d].enrollment
    PROVE  /\ \A j \in DOMAIN facts' :
                 facts'[j][2] = members[d].enrollment => facts'[j][1] \in {"admitted", "approved"}
           /\ \A i \in DOMAIN facts' : facts'[i] = <<"admitted", members[d].enrollment>> =>
                 \E j \in i + 1 .. Len(facts') : facts'[j] = <<"approved", members[d].enrollment>>
  <1>1. ASSUME NEW j \in DOMAIN facts', facts'[j][2] = members[d].enrollment
        PROVE  j \in 1 .. Len(facts) /\ facts'[j] = facts[j]
    BY <1>1, AppendedLog
  <1>2. ASSUME NEW i \in DOMAIN facts', facts'[i] = <<"admitted", members[d].enrollment>>
        PROVE  \E j \in i + 1 .. Len(facts') : facts'[j] = <<"approved", members[d].enrollment>>
    <2>1. facts'[i][2] = members[d].enrollment
      BY <1>2
    <2>2. i \in DOMAIN facts /\ facts[i] = <<"admitted", members[d].enrollment>>
      BY <1>1, <1>2, <2>1, Sizes
    <2>3. PICK j \in i + 1 .. Len(facts) : facts[j] = <<"approved", members[d].enrollment>>
      BY <2>2 DEF Inv, FactInv, MemberFacts
    <2>4. j \in 1 .. Len(facts) /\ j \in i + 1 .. Len(facts')
      BY <2>2, Sizes, AppendedLog
    <2> QED
      BY <2>3, <2>4, AppendedLog
  <1> QED
    BY <1>1, <1>2, Sizes DEF Inv, FactInv, MemberFacts

\* Append appends.
LEMMA AppendFact ==
    ASSUME Inv, NEW f \in Facts, facts' = Append(facts, f)
    PROVE  Appends(f)
  <1>1. facts \in Seq(Facts)
    BY DEF Inv, Types, FactsType
  <1> QED
    BY <1>1, AppendProperties, Sizes DEF Appends, Extends

(***************************************************************************)
(* A member is revoked.                                                    *)
(***************************************************************************)
\* What is left of the row of a revoked member.
LEMMA RevokedMember ==
    ASSUME Inv, NEW d, RevokeDoes(d)
    PROVE  /\ d \in ActiveMembers
           /\ ActiveMembers' = ActiveMembers \ {d}
           /\ members'[d].revision = 2 /\ members'[d].revoked
           /\ \A e \in Devices :
                /\ members'[e].enrollment = members[e].enrollment
                /\ IsMember(e)' <=> IsMember(e)
                /\ IsMember(e) => members'[e].label = members[e].label
                     /\ members'[e].by = members[e].by
                /\ e # d => members'[e] = members[e]
  <1>1. d \in Devices /\ Active(d) /\ members[d] \in MemberRows
    BY MemberFields DEF RevokeDoes, Active
  <1>2. members'[d] = [members[d] EXCEPT !.revision = 2, !.revoked = TRUE]
    BY DEF RevokeDoes
  <1>3. /\ members'[d].enrollment = members[d].enrollment
        /\ members'[d].label = members[d].label
        /\ members'[d].by = members[d].by
        /\ members'[d].revision = 2 /\ members'[d].revoked
        /\ members[d].enrollment # 0
    BY <1>1, <1>2 DEF MemberRows
  <1>4. members'[d] # NoMember /\ IsMember(d)
    BY <1>1, <1>3 DEF NoMember, Active
  <1>5. \A e \in Devices : e # d => members'[e] = members[e]
    BY DEF RevokeDoes
  <1>6. \A e \in Devices : Active(e)' <=> Active(e) /\ e # d
    BY <1>3, <1>5 DEF Active, IsMember
  <1> QED
    BY <1>1, <1>3, <1>4, <1>5, <1>6 DEF ActiveMembers, IsMember

\* The revocation is not in the log yet.
LEMMA RevokedOnce ==
    ASSUME Inv, NEW d \in ActiveMembers
    PROVE  \A i \in 1 .. Len(facts) : facts[i] # <<"revoked", members[d].enrollment>>
  <1>1. ASSUME NEW i \in 1 .. Len(facts), facts[i] = <<"revoked", members[d].enrollment>>
        PROVE  FALSE
    <2>1. facts[i][1] = "revoked" /\ facts[i][2] = members[d].enrollment
      BY <1>1
    <2> QED
      BY <2>1, Sizes DEF Inv, FactInv, MemberFacts
  <1> QED
    BY <1>1

(***************************************************************************)
(* A device becomes a member.                                              *)
(***************************************************************************)
NewMember(d, e, l, by) ==
    /\ d \in Devices
    /\ ~IsMember(d)
    /\ e \in Nat \ {0}
    /\ members'[d] = Member(e, l, by)
    /\ \A x \in Devices \ {d} : members'[x] = members[x]

\* The row of a new member.
LEMMA NewMemberRow ==
    ASSUME Inv, NEW d, NEW e, NEW l, NEW by, NewMember(d, e, l, by)
    PROVE  /\ IsFiniteSet(ActiveMembers')
           /\ ActiveMembers' = ActiveMembers \cup {d}
           /\ Cardinality(ActiveMembers') = Cardinality(ActiveMembers) + 1
           /\ members'[d].enrollment = e /\ members'[d].label = l /\ members'[d].by = by
           /\ members'[d].revision = 1 /\ ~members'[d].revoked
           /\ \A x \in Devices : /\ IsMember(x)' <=> IsMember(x) \/ x = d
                                 /\ x # d => members'[x] = members[x]
  <1>1. /\ members'[d].enrollment = e /\ members'[d].label = l /\ members'[d].by = by
        /\ members'[d].revision = 1 /\ ~members'[d].revoked
    BY DEF NewMember, Member
  <1>2. members'[d] # NoMember
    BY <1>1 DEF NewMember, NoMember
  <1>3. \A x \in Devices : x # d => members'[x] = members[x]
    BY DEF NewMember
  <1>4. \A x \in Devices : IsMember(x)' <=> IsMember(x) \/ x = d
    BY <1>2, <1>3 DEF IsMember
  <1>5. \A x \in Devices : Active(x)' <=> Active(x) \/ x = d
    BY <1>1, <1>3, <1>4 DEF Active
  <1>6. ActiveMembers' = ActiveMembers \cup {d} /\ d \notin ActiveMembers
    BY <1>5 DEF ActiveMembers, NewMember, Active
  <1>7. IsFiniteSet(ActiveMembers)
    BY DEF Inv, TableInv, Finite
  <1> QED
    BY <1>1, <1>3, <1>4, <1>6, <1>7, FS_AddElement

(***************************************************************************)
(* Receipts.                                                               *)
(***************************************************************************)
\* What the receipts are after a rejection.
LEMMA RejectedReceipts ==
    ASSUME Inv, NEW R, NEW code \in Codes, Rejects(R, code)
    PROVE  /\ ReceiptsType'
           /\ KeysUnique'
           /\ IsFiniteSet(receipts')
           /\ \A q \in receipts' : \E r \in receipts :
                /\ q.adapter = r.adapter /\ q.command = r.command
                /\ q.enrollment = r.enrollment /\ q.since = r.since
                /\ \/ r \notin R /\ q = r
                   \/ r \in R /\ r.state = "admitted" /\ q.state = "rejected" /\ q.code = code
  <1> DEFINE F(r) == IF r \in R THEN Settled(r, code) ELSE r
             f == [r \in receipts |-> F(r)]
  <1>1. \A q : q \in receipts' <=> \E r \in receipts : q = F(r)
    BY DEF Rejects
  <1>2. ASSUME NEW r \in receipts
        PROVE  /\ F(r) \in ReceiptRows
               /\ F(r).adapter = r.adapter /\ F(r).command = r.command
               /\ F(r).enrollment = r.enrollment /\ F(r).since = r.since
               /\ \/ r \notin R /\ F(r) = r
                  \/ r \in R /\ r.state = "admitted" /\ F(r).state = "rejected"
                       /\ F(r).code = code
    <2>1. r \in ReceiptRows
      BY DEF Inv, Types, ReceiptsType
    <2>2. CASE r \notin R
      BY <2>1, <2>2
    <2>3. CASE r \in R
      BY <2>1, <2>3 DEF ReceiptRows, Settled, Rejects, Admitted
    <2> QED
      BY <2>2, <2>3
  <1> HIDE DEF F
  <1>3. ReceiptsType'
    BY <1>1, <1>2 DEF ReceiptsType
  <1>4. KeysUnique'
    BY <1>1, <1>2 DEF Inv, ReceiptInv, KeysUnique
  <1>5. IsFiniteSet(receipts')
    <2>1. f \in Surjection(receipts, receipts')
      BY <1>1 DEF Surjection
    <2> HIDE DEF f
    <2> QED
      BY <2>1, FS_Surjection DEF Inv, TableInv, Finite
  <1> QED
    BY <1>1, <1>2, <1>3, <1>4, <1>5

\* What the receipts are after an approval.
LEMMA MarkedReceipts ==
    ASSUME Inv, NEW p, NEW by, NEW own, Approver(p, by, own),
           \A q : q \in receipts' <=> \E r \in receipts : q = Marked(r, p, own)
    PROVE  /\ ReceiptsType'
           /\ KeysUnique'
           /\ IsFiniteSet(receipts')
           /\ \A q \in receipts' : \E r \in receipts :
                /\ q.adapter = r.adapter /\ q.command = r.command
                /\ q.enrollment = r.enrollment /\ q.since = r.since
                /\ \/ /\ <<r.adapter, r.command>> = own
                      /\ by = own /\ r.enrollment = p.enrollment /\ r.state = "admitted"
                      /\ q.state = "committed" /\ q.code = r.code
                   \/ /\ <<r.adapter, r.command>> # own
                      /\ r.enrollment = p.enrollment /\ r.state = "admitted"
                      /\ q.state = "rejected" /\ q.code = "settled_elsewhere"
                   \/ /\ <<r.adapter, r.command>> # own
                      /\ r.enrollment # p.enrollment \/ r.state # "admitted"
                      /\ q = r
  <1> DEFINE f == [r \in receipts |-> Marked(r, p, own)]
  <1>1. ASSUME NEW r \in receipts, <<r.adapter, r.command>> = own
        PROVE  by = own /\ r.enrollment = p.enrollment /\ r.state = "admitted"
    <2>1. own # <<>>
      BY <1>1, TupleLengths
    <2>2. PICK s \in Admitted(receipts) : <<s.adapter, s.command>> = own
            /\ s.enrollment = p.enrollment
      BY <2>1 DEF Approver
    <2>3. s = r
      BY <1>1, <2>2 DEF Inv, ReceiptInv, KeysUnique, Admitted
    <2> QED
      BY <2>1, <2>2, <2>3 DEF Approver, Admitted
  <1>2. ASSUME NEW r \in receipts
        PROVE  LET q == Marked(r, p, own) IN
               /\ q \in ReceiptRows
               /\ q.adapter = r.adapter /\ q.command = r.command
               /\ q.enrollment = r.enrollment /\ q.since = r.since
               /\ \/ /\ <<r.adapter, r.command>> = own
                     /\ by = own /\ r.enrollment = p.enrollment /\ r.state = "admitted"
                     /\ q.state = "committed" /\ q.code = r.code
                  \/ /\ <<r.adapter, r.command>> # own
                     /\ r.enrollment = p.enrollment /\ r.state = "admitted"
                     /\ q.state = "rejected" /\ q.code = "settled_elsewhere"
                  \/ /\ <<r.adapter, r.command>> # own
                     /\ r.enrollment # p.enrollment \/ r.state # "admitted"
                     /\ q = r
    <2>1. r \in ReceiptRows
      BY DEF Inv, Types, ReceiptsType
    <2>2. CASE <<r.adapter, r.command>> = own
      BY <1>1, <2>1, <2>2 DEF ReceiptRows, Marked
    <2>3. CASE <<r.adapter, r.command>> # own /\ r.enrollment = p.enrollment
            /\ r.state = "admitted"
      BY <2>1, <2>3 DEF ReceiptRows, Marked, Settled, Codes
    <2>4. CASE <<r.adapter, r.command>> # own
            /\ (r.enrollment # p.enrollment \/ r.state # "admitted")
      BY <2>1, <2>4 DEF Marked
    <2> QED
      BY <2>2, <2>3, <2>4
  <1>3. ReceiptsType'
    BY <1>2 DEF ReceiptsType
  <1>4. KeysUnique'
    BY <1>2 DEF Inv, ReceiptInv, KeysUnique
  <1>5. IsFiniteSet(receipts')
    <2>1. f \in Surjection(receipts, receipts')
      BY DEF Surjection
    <2> HIDE DEF f
    <2> QED
      BY <2>1, FS_Surjection DEF Inv, TableInv, Finite
  <1> QED
    BY <1>2, <1>3, <1>4, <1>5

\* The redeemed invite makes a member under an enrollment of its own.
LEMMA RedeemedMember ==
    ASSUME Inv, NEW d, NEW l, NEW i, NEW e, RedeemDoes(d, l, i, e)
    PROVE  NewMember(d, e, l, <<"invite">>)
  BY Sizes DEF RedeemDoes, Redeems, NewMember

\* The approved enrollment makes a member under its own identifier.
LEMMA ApprovedMember ==
    ASSUME Inv, NEW p, NEW by, NEW own, MemberDoes(p, by, own)
    PROVE  /\ p \in PendingRows
           /\ NewMember(p.device, p.enrollment, p.label, by)
  <1>1. p \in pending /\ p \in PendingRows
    BY DEF MemberDoes, Inv, Types, PendingType
  <1>2. ~IsMember(p.device)
    BY <1>1, InvApart DEF Apart
  <1>3. p.device \in Devices /\ p.enrollment \in Nat \ {0}
    BY <1>1, Limits DEF PendingRows
  <1> QED
    BY <1>1, <1>2, <1>3 DEF MemberDoes, NewMember

(***************************************************************************)
(* Each effect preserves each part of the invariant.                       *)
(***************************************************************************)
\* A step that leaves the tables alone changes the clock, calls and answers.
LEMMA QuietKeepsTypes ==
    ASSUME Inv, QuietDoes
    PROVE  Types'
  <1>1. CountersType'
    BY DEF QuietDoes, CountersType, Inv, Types
  <1>2. MembersType'
    BY DEF QuietDoes, MembersType, Inv, Types
  <1>3. PendingType'
    BY DEF QuietDoes, PendingType, Inv, Types
  <1>4. InvitesType'
    BY DEF QuietDoes, InvitesType, Inv, Types
  <1>5. FactsType'
    BY DEF QuietDoes, FactsType, Inv, Types
  <1>6. ReceiptsType'
    BY DEF QuietDoes, ReceiptsType, Inv, Types
  <1>7. LastType'
    BY DEF QuietDoes, LastType, Inv, Types
  <1>8. CallsType'
    BY DEF QuietDoes, CallsType, Inv, Types
  <1>9. ToldType'
    BY DEF QuietDoes, ToldType, Inv, Types
  <1> QED
    BY <1>1, <1>2, <1>3, <1>4, <1>5, <1>6, <1>7, <1>8, <1>9 DEF Types

\* The tables are the same.
LEMMA QuietKeepsTableInv ==
    ASSUME Inv, QuietDoes
    PROVE  TableInv'
  <1>1. Finite'
    BY DEF QuietDoes, Finite, ActiveMembers, Active, IsMember, Inv, TableInv
  <1>2. IdsUsed'
    BY DEF QuietDoes, IdsUsed, Inv, TableInv
  <1>3. Revisions'
    BY DEF QuietDoes, Revisions, IsMember, Inv, TableInv
  <1>4. EnrollmentsExclusive'
    BY DEF QuietDoes, EnrollmentsExclusive, IsMember, Inv, TableInv
  <1>5. LabelsExclusive'
    BY DEF QuietDoes, LabelsExclusive, IsMember, MemberKeys, PendingKeys, InviteKeys, Inv,
      TableInv
  <1>6. InvitesHaveIssuers'
    BY DEF QuietDoes, InvitesHaveIssuers, Active, IsMember, Inv, TableInv
  <1> QED
    BY <1>1, <1>2, <1>3, <1>4, <1>5, <1>6 DEF TableInv

\* So is the log.
LEMMA QuietKeepsFactInv ==
    ASSUME Inv, QuietDoes
    PROVE  FactInv'
  <1>1. FactsOnce'
    BY DEF QuietDoes, FactsOnce, FactInv, Inv
  <1>2. PendingFacts'
    BY DEF QuietDoes, PendingFacts, FactInv, Inv
  <1>3. MemberFacts'
    BY DEF QuietDoes, MemberFacts, ActiveMembers, Active, IsMember, FactInv, Inv
  <1>4. FactsFit'
    BY DEF QuietDoes, FactsFit, Occupancy, ActiveMembers, Active, IsMember, FactInv, Inv
  <1> QED
    BY <1>1, <1>2, <1>3, <1>4 DEF FactInv

\* So are the receipts.
LEMMA QuietKeepsReceiptInv ==
    ASSUME Inv, QuietDoes
    PROVE  ReceiptInv'
  <1>1. KeysUnique'
    BY DEF QuietDoes, KeysUnique, Inv, ReceiptInv
  <1>2. SinceInLog'
    BY DEF QuietDoes, SinceInLog, Inv, ReceiptInv
  <1>3. LastKnown'
    BY DEF QuietDoes, LastKnown, Inv, ReceiptInv
  <1>4. AdmittersKnown'
    BY DEF QuietDoes, AdmittersKnown, IsMember, Inv, ReceiptInv
  <1>5. ReceiptsTrue'
    BY DEF QuietDoes, ReceiptsTrue, IsMember, Inv, ReceiptInv
  <1>6. AdmittedIsOpen'
    BY DEF QuietDoes, AdmittedIsOpen, Admitted, Inv, ReceiptInv
  <1> QED
    BY <1>1, <1>2, <1>3, <1>4, <1>5, <1>6 DEF ReceiptInv

\* The invariant survives a step that leaves the tables alone.
LEMMA QuietKeepsInv ==
    ASSUME Inv, QuietDoes
    PROVE  Inv'
  BY QuietKeepsTypes, QuietKeepsTableInv, QuietKeepsFactInv, QuietKeepsReceiptInv DEF Inv

\* A settlement takes rows out and appends facts about enrollments that exist.
LEMMA SettleKeepsTypes ==
    ASSUME Inv, SettleDoes
    PROVE  Types'
  <1>1. CountersType'
    BY DEF SettleDoes, CountersType, Inv, Types
  <1>2. MembersType'
    BY DEF SettleDoes, MembersType, Inv, Types
  <1>3. PendingType'
    BY DEF SettleDoes, PendingType, Inv, Types
  <1>4. InvitesType'
    BY DEF SettleDoes, InvitesType, Inv, Types
  <1>5. FactsType'
    BY Sizes, ExtendedLog DEF SettleDoes, FactsType, Extends, Inv, Types
  <1>6. ReceiptsType'
    BY RejectedReceipts DEF SettleDoes, Codes
  <1>7. LastType'
    BY DEF SettleDoes, LastType, Inv, Types
  <1>8. CallsType'
    BY DEF SettleDoes, CallsType, Inv, Types
  <1>9. ToldType'
    BY DEF SettleDoes, ToldType, Inv, Types
  <1> QED
    BY <1>1, <1>2, <1>3, <1>4, <1>5, <1>6, <1>7, <1>8, <1>9 DEF Types

\* What is left of the tables was exclusive before.
LEMMA SettleKeepsTableInv ==
    ASSUME Inv, SettleDoes
    PROVE  TableInv'
  <1>1. Finite'
    <2>1. ActiveMembers' = ActiveMembers
      BY DEF SettleDoes, ActiveMembers, Active, IsMember
    <2>2. IsFiniteSet(receipts')
      BY RejectedReceipts DEF SettleDoes, Codes
    <2>3. pending' \in SUBSET pending
      BY DEF SettleDoes
    <2>4. IsFiniteSet(pending')
      BY <2>3, FS_Subset DEF Finite, Inv, TableInv
    <2> QED
      BY <2>1, <2>2, <2>4 DEF Finite, Inv, TableInv
  <1>2. IdsUsed'
    <2>1. /\ pending' \subseteq pending /\ invites' \subseteq invites /\ Extends
          /\ UNCHANGED <<members, floor, last, admittedEver, enrolled, invited>>
      BY DEF SettleDoes
    <2>2. /\ Len(facts') \in Nat /\ DOMAIN facts' = 1 .. Len(facts')
          /\ \A j \in 1 .. Len(facts) : j \in 1 .. Len(facts') /\ facts'[j] = facts[j]
          /\ \A j \in 1 .. Len(facts') : j \in 1 .. Len(facts) \/ j \in Added
          /\ Len(facts) <= Len(facts')
      BY <2>1, Sizes, ExtendedLog DEF Extends, Added
    <2>3. \A j \in Added : \E p \in pending \ pending' : facts'[j] = <<"expired", p.enrollment>>
      BY DEF SettleDoes, Lapsed
    <2>4. ASSUME NEW j \in DOMAIN facts'
          PROVE  facts'[j][2] <= enrolled
      <3>1. CASE j \in 1 .. Len(facts)
        BY <2>2, <3>1, Sizes DEF IdsUsed, Inv, TableInv
      <3>2. CASE j \in Added
        BY <2>3, <3>2 DEF IdsUsed, Inv, TableInv
      <3> QED
        BY <2>2, <3>1, <3>2
    <2> QED
      BY <2>1, <2>4 DEF IdsUsed, Inv, TableInv
  <1>3. Revisions'
    BY DEF SettleDoes, Revisions, IsMember, Inv, TableInv
  <1>4. EnrollmentsExclusive'
    BY DEF SettleDoes, EnrollmentsExclusive, IsMember, Inv, TableInv
  <1>5. LabelsExclusive'
    <2>1. /\ pending' \subseteq pending /\ invites' \subseteq invites /\ Extends
          /\ UNCHANGED <<members, floor, last, admittedEver, enrolled, invited>>
      BY DEF SettleDoes
    <2>2. /\ Len(facts') \in Nat /\ DOMAIN facts' = 1 .. Len(facts')
          /\ \A j \in 1 .. Len(facts) : j \in 1 .. Len(facts') /\ facts'[j] = facts[j]
          /\ \A j \in 1 .. Len(facts') : j \in 1 .. Len(facts) \/ j \in Added
          /\ Len(facts) <= Len(facts')
      BY <2>1, Sizes, ExtendedLog DEF Extends, Added
    <2>3. \A j \in Added : \E p \in pending \ pending' : facts'[j] = <<"expired", p.enrollment>>
      BY DEF SettleDoes, Lapsed
    <2>4. Apart'
      BY <2>1, InvApart DEF Apart, IsMember
    <2> QED
      BY <2>4 DEF Apart, LabelsExclusive, MemberKeys, PendingKeys, InviteKeys
  <1>6. InvitesHaveIssuers'
    BY DEF SettleDoes, InvitesHaveIssuers, Active, IsMember, Inv, TableInv
  <1> QED
    BY <1>1, <1>2, <1>3, <1>4, <1>5, <1>6 DEF TableInv

\* An expiry is recorded once, since nothing but an admission was; it takes the
\* row the pending enrollment had reserved.
LEMMA SettleKeepsFactInv ==
    ASSUME Inv, SettleDoes
    PROVE  FactInv'
  <1>1. FactsOnce'
    <2>1. /\ pending' \subseteq pending /\ invites' \subseteq invites /\ Extends
          /\ UNCHANGED <<members, floor, last, admittedEver, enrolled, invited>>
      BY DEF SettleDoes
    <2>2. /\ Len(facts') \in Nat /\ DOMAIN facts' = 1 .. Len(facts')
          /\ \A j \in 1 .. Len(facts) : j \in 1 .. Len(facts') /\ facts'[j] = facts[j]
          /\ \A j \in 1 .. Len(facts') : j \in 1 .. Len(facts) \/ j \in Added
          /\ Len(facts) <= Len(facts')
      BY <2>1, Sizes, ExtendedLog DEF Extends, Added
    <2>3. \A j \in Added : \E p \in pending \ pending' : facts'[j] = <<"expired", p.enrollment>>
      BY DEF SettleDoes, Lapsed
    <2>4. \A i \in 1 .. Len(facts), j \in Added : facts[i] # facts'[j]
      <3>1. ASSUME NEW i \in 1 .. Len(facts), NEW j \in Added, facts[i] = facts'[j]
            PROVE  FALSE
        <4>1. PICK p \in pending : facts[i] = <<"expired", p.enrollment>>
          BY <2>3, <3>1
        <4>2. facts[i][1] = "expired" /\ facts[i][2] = p.enrollment
          BY <4>1
        <4> QED
          BY <4>2, Sizes DEF PendingFacts, Inv, FactInv
      <3> QED
        BY <3>1
    <2>5. \A i, j \in Added : facts'[i] = facts'[j] => i = j
      BY DEF SettleDoes
    <2>6. \A i, j \in 1 .. Len(facts) : facts[i] = facts[j] => i = j
      BY Sizes DEF FactsOnce, Inv, FactInv
    <2>7. ASSUME NEW i \in 1 .. Len(facts'), NEW j \in 1 .. Len(facts'), facts'[i] = facts'[j]
          PROVE  i = j
      BY <2>2, <2>4, <2>5, <2>6, <2>7
    <2> QED
      BY <2>2, <2>7 DEF FactsOnce
  <1>2. PendingFacts'
    <2>1. /\ pending' \subseteq pending /\ invites' \subseteq invites /\ Extends
          /\ UNCHANGED <<members, floor, last, admittedEver, enrolled, invited>>
      BY DEF SettleDoes
    <2>2. /\ Len(facts') \in Nat /\ DOMAIN facts' = 1 .. Len(facts')
          /\ \A j \in 1 .. Len(facts) : j \in 1 .. Len(facts') /\ facts'[j] = facts[j]
          /\ \A j \in 1 .. Len(facts') : j \in 1 .. Len(facts) \/ j \in Added
          /\ Len(facts) <= Len(facts')
      BY <2>1, Sizes, ExtendedLog DEF Extends, Added
    <2>3. \A j \in Added : \E p \in pending \ pending' : facts'[j] = <<"expired", p.enrollment>>
      BY DEF SettleDoes, Lapsed
    <2>4. ASSUME NEW p \in pending'
          PROVE  /\ \E i \in floor' + 1 .. Len(facts') : facts'[i] = <<"admitted", p.enrollment>>
                 /\ \A j \in DOMAIN facts' : facts'[j][2] = p.enrollment
                      => facts'[j][1] = "admitted"
      <3>1. PICK i \in floor + 1 .. Len(facts) : facts[i] = <<"admitted", p.enrollment>>
        BY <2>1 DEF PendingFacts, Inv, FactInv
      <3>2. i \in 1 .. Len(facts) /\ i \in floor' + 1 .. Len(facts')
        BY <2>1, <2>2, Sizes
      <3>3. ASSUME NEW j \in DOMAIN facts', facts'[j][2] = p.enrollment
            PROVE  facts'[j][1] = "admitted"
        <4>1. j \notin Added
          <5>1. ASSUME NEW q \in pending \ pending', facts'[j] = <<"expired", q.enrollment>>
                PROVE  FALSE
            <6>1. q.enrollment = p.enrollment /\ q \in pending /\ p \in pending /\ p # q
              BY <2>1, <3>3, <5>1
            <6> QED
              BY <6>1 DEF EnrollmentsExclusive, Inv, TableInv
          <5> QED
            BY <2>3, <5>1
        <4>2. j \in DOMAIN facts /\ facts'[j] = facts[j]
          BY <2>2, <4>1, Sizes
        <4> QED
          BY <2>1, <3>3, <4>2 DEF PendingFacts, Inv, FactInv
      <3> QED
        BY <2>2, <3>1, <3>2, <3>3
    <2> QED
      BY <2>4 DEF PendingFacts
  <1>3. MemberFacts'
    <2>1. /\ pending' \subseteq pending /\ invites' \subseteq invites /\ Extends
          /\ UNCHANGED <<members, floor, last, admittedEver, enrolled, invited>>
      BY DEF SettleDoes
    <2>2. /\ Len(facts') \in Nat /\ DOMAIN facts' = 1 .. Len(facts')
          /\ \A j \in 1 .. Len(facts) : j \in 1 .. Len(facts') /\ facts'[j] = facts[j]
          /\ \A j \in 1 .. Len(facts') : j \in 1 .. Len(facts) \/ j \in Added
          /\ Len(facts) <= Len(facts')
      BY <2>1, Sizes, ExtendedLog DEF Extends, Added
    <2>3. \A j \in Added : \E p \in pending \ pending' : facts'[j] = <<"expired", p.enrollment>>
      BY DEF SettleDoes, Lapsed
    <2>4. ActiveMembers' = ActiveMembers
      BY <2>1 DEF ActiveMembers, Active, IsMember
    <2>5. ASSUME NEW d \in ActiveMembers, NEW j \in DOMAIN facts',
                   facts'[j][2] = members[d].enrollment
          PROVE  j \in DOMAIN facts /\ facts'[j] = facts[j]
      <3>1. j \notin Added
        <4>1. ASSUME NEW q \in pending, facts'[j] = <<"expired", q.enrollment>>
              PROVE  FALSE
          <5>1. q.enrollment = members[d].enrollment /\ d \in Devices
            BY <2>5, <4>1 DEF ActiveMembers
          <5> QED
            BY <5>1 DEF EnrollmentsExclusive, Inv, TableInv
        <4> QED
          BY <2>3, <4>1
      <3> QED
        BY <2>2, <3>1, Sizes
    <2>6. ASSUME NEW d \in ActiveMembers, NEW i \in DOMAIN facts',
                 facts'[i] = <<"admitted", members[d].enrollment>>
          PROVE  \E j \in i + 1 .. Len(facts') : facts'[j] = <<"approved", members[d].enrollment>>
      <3>1. facts'[i][2] = members[d].enrollment
        BY <2>6
      <3>2. i \in DOMAIN facts /\ facts[i] = <<"admitted", members[d].enrollment>>
        BY <2>5, <2>6, <3>1
      <3>3. PICK j \in i + 1 .. Len(facts) : facts[j] = <<"approved", members[d].enrollment>>
        BY <3>2 DEF MemberFacts, Inv, FactInv
      <3>4. j \in 1 .. Len(facts) /\ j \in i + 1 .. Len(facts')
        BY <2>2, <3>2, Sizes
      <3> QED
        BY <2>2, <3>3, <3>4
    <2>7. \A d \in ActiveMembers, j \in DOMAIN facts' :
             facts'[j][2] = members[d].enrollment => facts'[j][1] \in {"admitted", "approved"}
      BY <2>5 DEF MemberFacts, Inv, FactInv
    <2> QED
      BY <2>1, <2>4, <2>6, <2>7 DEF MemberFacts
  <1>4. FactsFit'
    <2>1. /\ pending' \subseteq pending /\ invites' \subseteq invites /\ Extends
          /\ UNCHANGED <<members, floor, last, admittedEver, enrolled, invited>>
      BY DEF SettleDoes
    <2>2. /\ Len(facts') \in Nat /\ DOMAIN facts' = 1 .. Len(facts')
          /\ \A j \in 1 .. Len(facts) : j \in 1 .. Len(facts') /\ facts'[j] = facts[j]
          /\ \A j \in 1 .. Len(facts') : j \in 1 .. Len(facts) \/ j \in Added
          /\ Len(facts) <= Len(facts')
      BY <2>1, Sizes, ExtendedLog DEF Extends, Added
    <2>3. \A j \in Added : \E p \in pending \ pending' : facts'[j] = <<"expired", p.enrollment>>
      BY DEF SettleDoes, Lapsed
    <2>4. ActiveMembers' = ActiveMembers
      BY <2>1 DEF ActiveMembers, Active, IsMember
    <2>5. Cardinality(pending') \in Nat
      <3>1. pending' \in SUBSET pending
        BY <2>1
      <3>2. IsFiniteSet(pending')
        BY <3>1, FS_Subset DEF Finite, Inv, TableInv
      <3> QED
        BY <3>2, FS_CardinalityType
    <2>6. Cardinality(pending') + Len(facts') = Cardinality(pending) + Len(facts)
      BY DEF SettleDoes
    <2>7. Len(facts) - floor + 2 * Cardinality(pending) + Cardinality(ActiveMembers) <= MaxFactRows
      BY DEF FactsFit, Occupancy, Inv, FactInv
    <2>8. Cardinality(pending') <= Cardinality(pending)
      BY <2>2, <2>5, <2>6, Sizes
    <2>9. Len(facts') - floor + 2 * Cardinality(pending') + Cardinality(ActiveMembers) <= MaxFactRows
      BY <2>2, <2>5, <2>6, <2>7, <2>8, Sizes, Limits, RoomAfterExpiry
    <2> QED
      BY <2>1, <2>4, <2>9 DEF FactsFit, Occupancy
  <1> QED
    BY <1>1, <1>2, <1>3, <1>4 DEF FactInv

\* The commands for the lapsed enrollments are rejected with the expiry that
\* the log now has; those for other enrollments have seen no settlement.
LEMMA SettleKeepsReceiptInv ==
    ASSUME Inv, SettleDoes
    PROVE  ReceiptInv'
  <1>1. KeysUnique'
    BY RejectedReceipts DEF SettleDoes, Codes
  <1>2. SinceInLog'
    <2>1. /\ pending' \subseteq pending /\ invites' \subseteq invites /\ Extends
          /\ UNCHANGED <<members, floor, last, admittedEver, enrolled, invited>>
      BY DEF SettleDoes
    <2>2. /\ Len(facts') \in Nat /\ DOMAIN facts' = 1 .. Len(facts')
          /\ \A j \in 1 .. Len(facts) : j \in 1 .. Len(facts') /\ facts'[j] = facts[j]
          /\ \A j \in 1 .. Len(facts') : j \in 1 .. Len(facts) \/ j \in Added
          /\ Len(facts) <= Len(facts')
      BY <2>1, Sizes, ExtendedLog DEF Extends, Added
    <2>3. \A j \in Added : \E p \in pending \ pending' : facts'[j] = <<"expired", p.enrollment>>
      BY DEF SettleDoes, Lapsed
    <2>4. \A q \in receipts' : \E r \in receipts :
             /\ q.adapter = r.adapter /\ q.command = r.command
             /\ q.enrollment = r.enrollment /\ q.since = r.since
             /\ \/ r \notin Doomed /\ q = r
                \/ /\ r \in Doomed /\ r.state = "admitted" /\ q.state = "rejected"
                   /\ q.code = "enrollment_expired"
      BY RejectedReceipts DEF SettleDoes, Codes
    <2>5. \A r \in receipts : r.since \in Nat /\ r.since <= Len(facts)
      BY DEF SinceInLog, ReceiptsType, ReceiptRows, Inv, ReceiptInv, Types
    <2> QED
      BY <2>2, <2>5, <2>4, Sizes DEF SinceInLog
  <1>3. LastKnown'
    <2>1. \A q \in receipts' : \E r \in receipts :
             /\ q.adapter = r.adapter /\ q.command = r.command
             /\ q.enrollment = r.enrollment /\ q.since = r.since
             /\ \/ r \notin Doomed /\ q = r
                \/ /\ r \in Doomed /\ r.state = "admitted" /\ q.state = "rejected"
                   /\ q.code = "enrollment_expired"
      BY RejectedReceipts DEF SettleDoes, Codes
    <2> QED
      BY <2>1 DEF SettleDoes, LastKnown, Inv, ReceiptInv
  <1>4. AdmittersKnown'
    BY DEF SettleDoes, AdmittersKnown, IsMember, Inv, ReceiptInv
  <1>5. ReceiptsTrue'
    <2>1. /\ pending' \subseteq pending /\ invites' \subseteq invites /\ Extends
          /\ UNCHANGED <<members, floor, last, admittedEver, enrolled, invited>>
      BY DEF SettleDoes
    <2>2. /\ Len(facts') \in Nat /\ DOMAIN facts' = 1 .. Len(facts')
          /\ \A j \in 1 .. Len(facts) : j \in 1 .. Len(facts') /\ facts'[j] = facts[j]
          /\ \A j \in 1 .. Len(facts') : j \in 1 .. Len(facts) \/ j \in Added
          /\ Len(facts) <= Len(facts')
      BY <2>1, Sizes, ExtendedLog DEF Extends, Added
    <2>3. \A j \in Added : \E p \in pending \ pending' : facts'[j] = <<"expired", p.enrollment>>
      BY DEF SettleDoes, Lapsed
    <2>4. \A q \in receipts' : \E r \in receipts :
             /\ q.adapter = r.adapter /\ q.command = r.command
             /\ q.enrollment = r.enrollment /\ q.since = r.since
             /\ \/ r \notin Doomed /\ q = r
                \/ /\ r \in Doomed /\ r.state = "admitted" /\ q.state = "rejected"
                   /\ q.code = "enrollment_expired"
      BY RejectedReceipts DEF SettleDoes, Codes
    <2>5. \A r \in Doomed : Recorded("expired", r.enrollment)'
      BY <2>2 DEF SettleDoes, Doomed, Recorded, Lapsed, Added
    <2>6. \A q \in receipts', r \in receipts, d \in Devices :
             q.adapter = r.adapter /\ q.command = r.command /\ q.enrollment = r.enrollment
             => (Admits(d, q)' <=> Admits(d, r))
      BY <2>1 DEF Admits, IsMember
    <2>7. \A k, e : Recorded(k, e) => Recorded(k, e)'
      BY <2>1, ExtendedLog
    <2>8. ASSUME NEW q \in receipts'
          PROVE  /\ q.state = "committed" <=> \E d \in Devices : Admits(d, q)'
                 /\ q.code = "enrollment_expired" => Recorded("expired", q.enrollment)'
                 /\ q.code = "settled_elsewhere" => Recorded("approved", q.enrollment)'
      BY <2>5, <2>6, <2>7, <2>4, InvTruths DEF Truths
    <2> QED
      BY <2>2, <2>8 DEF ReceiptsTrue, Admits, Recorded
  <1>6. AdmittedIsOpen'
    <2>1. /\ pending' \subseteq pending /\ invites' \subseteq invites /\ Extends
          /\ UNCHANGED <<members, floor, last, admittedEver, enrolled, invited>>
      BY DEF SettleDoes
    <2>2. /\ Len(facts') \in Nat /\ DOMAIN facts' = 1 .. Len(facts')
          /\ \A j \in 1 .. Len(facts) : j \in 1 .. Len(facts') /\ facts'[j] = facts[j]
          /\ \A j \in 1 .. Len(facts') : j \in 1 .. Len(facts) \/ j \in Added
          /\ Len(facts) <= Len(facts')
      BY <2>1, Sizes, ExtendedLog DEF Extends, Added
    <2>3. \A j \in Added : \E p \in pending \ pending' : facts'[j] = <<"expired", p.enrollment>>
      BY DEF SettleDoes, Lapsed
    <2>4. \A q \in receipts' : \E r \in receipts :
             /\ q.adapter = r.adapter /\ q.command = r.command
             /\ q.enrollment = r.enrollment /\ q.since = r.since
             /\ \/ r \notin Doomed /\ q = r
                \/ /\ r \in Doomed /\ r.state = "admitted" /\ q.state = "rejected"
                   /\ q.code = "enrollment_expired"
      BY RejectedReceipts DEF SettleDoes, Codes
    <2>5. ASSUME NEW q \in Admitted(receipts'), NEW i \in q.since + 1 .. Len(facts')
          PROVE  facts'[i] \notin {<<"approved", q.enrollment>>, <<"expired", q.enrollment>>}
      <3>1. q \in Admitted(receipts) /\ q \notin Doomed /\ q.since \in Nat
        BY <2>4 DEF Admitted, ReceiptsType, ReceiptRows, Inv, Types
      <3>2. CASE i \in Added
        <4>1. PICK p \in pending \ pending' : facts'[i] = <<"expired", p.enrollment>>
          BY <2>3, <3>2
        <4>2. p.enrollment # q.enrollment
          BY <3>1 DEF Doomed, Lapsed
        <4> QED
          BY <4>1, <4>2
      <3>3. CASE i \in 1 .. Len(facts)
        <4>1. i \in q.since + 1 .. Len(facts)
          BY <3>1, <3>3, Sizes
        <4> QED
          BY <2>2, <3>1, <3>3, <4>1 DEF AdmittedIsOpen, Inv, ReceiptInv
      <3>4. i \in 1 .. Len(facts')
        BY <2>2, <3>1
      <3> QED
        BY <2>2, <3>2, <3>3, <3>4
    <2> QED
      BY <2>5 DEF AdmittedIsOpen, Admitted
  <1> QED
    BY <1>1, <1>2, <1>3, <1>4, <1>5, <1>6 DEF ReceiptInv

\* The invariant survives a settlement.
LEMMA SettleKeepsInv ==
    ASSUME Inv, SettleDoes
    PROVE  Inv'
  BY SettleKeepsTypes, SettleKeepsTableInv, SettleKeepsFactInv, SettleKeepsReceiptInv DEF Inv

\* A new pending enrollment has an identifier within the bound.
LEMMA AdmitKeepsTypes ==
    ASSUME Inv, NEW x, AdmitDoes(x)
    PROVE  Types'
  <1>1. CountersType'
    BY Limits, Sizes DEF AdmitDoes, CountersType, PendingRows, Inv, Types
  <1>2. MembersType'
    BY DEF AdmitDoes, MembersType, Inv, Types
  <1>3. PendingType'
    BY DEF AdmitDoes, PendingType, Inv, Types
  <1>4. InvitesType'
    BY DEF AdmitDoes, InvitesType, Inv, Types
  <1>5. FactsType'
    BY PrunableKeeps, Sizes, AppendedLog DEF AdmitDoes, FactsType, Appends, Extends, Inv, Types
  <1>6. ReceiptsType'
    BY DEF AdmitDoes, ReceiptsType, Inv, Types
  <1>7. LastType'
    BY DEF AdmitDoes, LastType, Inv, Types
  <1>8. CallsType'
    BY DEF AdmitDoes, CallsType, Inv, Types
  <1>9. ToldType'
    BY DEF AdmitDoes, ToldType, Inv, Types
  <1> QED
    BY <1>1, <1>2, <1>3, <1>4, <1>5, <1>6, <1>7, <1>8, <1>9 DEF Types

\* Its device and its label are free, and its identifier was not given out.
LEMMA AdmitKeepsTableInv ==
    ASSUME Inv, NEW x, AdmitDoes(x)
    PROVE  TableInv'
  <1>1. Finite'
    <2>1. /\ x \in PendingRows /\ x.enrollment = enrolled + 1 /\ enrolled' = x.enrollment
          /\ pending' = pending \cup {x} /\ floor' \in Prunable
          /\ Appends(<<"admitted", x.enrollment>>)
          /\ UNCHANGED <<members, invites, receipts, invited>>
      BY DEF AdmitDoes
    <2>2. ActiveMembers' = ActiveMembers
      BY <2>1 DEF ActiveMembers, Active, IsMember
    <2>3. IsFiniteSet(pending')
      BY <2>1, FS_AddElement DEF Finite, Inv, TableInv
    <2> QED
      BY <2>1, <2>2, <2>3 DEF Finite, Inv, TableInv
  <1>2. IdsUsed'
    <2>1. /\ x \in PendingRows /\ x.enrollment = enrolled + 1 /\ enrolled' = x.enrollment
          /\ pending' = pending \cup {x} /\ floor' \in Prunable
          /\ Appends(<<"admitted", x.enrollment>>)
          /\ UNCHANGED <<members, invites, receipts, invited>>
      BY DEF AdmitDoes
    <2>2. \A d \in Devices : members[d].enrollment <= x.enrollment
      BY <2>1, MemberFields, Sizes DEF IdsUsed, Inv, TableInv
    <2>3. \A p \in pending' : p.enrollment <= x.enrollment
      BY <2>1, Sizes, Limits DEF IdsUsed, PendingType, PendingRows, Inv, TableInv, Types
    <2>4. ASSUME NEW j \in DOMAIN facts'
          PROVE  facts'[j][2] <= x.enrollment
      <3>1. CASE j \in 1 .. Len(facts)
        BY <2>1, <3>1, AppendedLog, Sizes, FactFields DEF IdsUsed, Inv, TableInv
      <3>2. CASE j = Len(facts) + 1
        BY <2>1, <3>2, AppendedLog, Sizes
      <3> QED
        BY <2>1, <3>1, <3>2, AppendedLog
    <2> QED
      BY <2>1, <2>2, <2>3, <2>4 DEF IdsUsed, Inv, TableInv
  <1>3. Revisions'
    BY DEF AdmitDoes, Revisions, IsMember, Inv, TableInv
  <1>4. EnrollmentsExclusive'
    <2>1. /\ x \in PendingRows /\ x.enrollment = enrolled + 1 /\ enrolled' = x.enrollment
          /\ pending' = pending \cup {x} /\ floor' \in Prunable
          /\ Appends(<<"admitted", x.enrollment>>)
          /\ UNCHANGED <<members, invites, receipts, invited>>
      BY DEF AdmitDoes
    <2>2. \A d \in Devices : members[d].enrollment # x.enrollment
      BY <2>1, MemberFields, Sizes DEF IdsUsed, Inv, TableInv
    <2>3. \A p \in pending : p.enrollment # x.enrollment
      BY <2>1, Sizes, Limits DEF IdsUsed, PendingType, PendingRows, Inv, TableInv, Types
    <2> QED
      BY <2>1, <2>2, <2>3 DEF EnrollmentsExclusive, IsMember, Inv, TableInv
  <1>5. LabelsExclusive'
    <2>1. /\ x \in PendingRows /\ x.enrollment = enrolled + 1 /\ enrolled' = x.enrollment
          /\ pending' = pending \cup {x} /\ floor' \in Prunable
          /\ Appends(<<"admitted", x.enrollment>>)
          /\ UNCHANGED <<members, invites, receipts, invited>>
      BY DEF AdmitDoes
    <2>2. /\ \A d \in Devices : IsMember(d) => LabelKey[members[d].label] # LabelKey[x.label]
          /\ \A p \in pending : LabelKey[p.label] # LabelKey[x.label] /\ p.device # x.device
          /\ \A i \in invites : LabelKey[i.label] # LabelKey[x.label]
          /\ ~IsMember(x.device)
      BY DEF AdmitDoes, Free, MemberKeys, PendingKeys, InviteKeys
    <2>3. Apart'
      BY <2>1, <2>2, InvApart DEF Apart, IsMember
    <2> QED
      BY <2>3 DEF Apart, LabelsExclusive, MemberKeys, PendingKeys, InviteKeys
  <1>6. InvitesHaveIssuers'
    BY DEF AdmitDoes, InvitesHaveIssuers, Active, IsMember, Inv, TableInv
  <1> QED
    BY <1>1, <1>2, <1>3, <1>4, <1>5, <1>6 DEF TableInv

\* Its admission is the first fact about it, not pruned; the three rows it may
\* need fit.
LEMMA AdmitKeepsFactInv ==
    ASSUME Inv, NEW x, AdmitDoes(x)
    PROVE  FactInv'
  <1>1. FactsOnce'
    <2>1. /\ x \in PendingRows /\ x.enrollment = enrolled + 1 /\ enrolled' = x.enrollment
          /\ pending' = pending \cup {x} /\ floor' \in Prunable
          /\ Appends(<<"admitted", x.enrollment>>)
          /\ UNCHANGED <<members, invites, receipts, invited>>
      BY DEF AdmitDoes
    <2>2. \A j \in 1 .. Len(facts) : facts[j][2] # x.enrollment
      BY <2>1, Sizes, FactFields DEF IdsUsed, Inv, TableInv
    <2>3. \A j \in 1 .. Len(facts) : facts[j] # <<"admitted", x.enrollment>>
      BY <2>2
    <2> QED
      BY <2>1, <2>3, AppendKeepsOnce
  <1>2. PendingFacts'
    <2>1. /\ x \in PendingRows /\ x.enrollment = enrolled + 1 /\ enrolled' = x.enrollment
          /\ pending' = pending \cup {x} /\ floor' \in Prunable
          /\ Appends(<<"admitted", x.enrollment>>)
          /\ UNCHANGED <<members, invites, receipts, invited>>
      BY DEF AdmitDoes
    <2>2. \A j \in 1 .. Len(facts) : facts[j][2] # x.enrollment
      BY <2>1, Sizes, FactFields DEF IdsUsed, Inv, TableInv
    <2>3. /\ facts'[Len(facts) + 1] = <<"admitted", x.enrollment>>
          /\ Len(facts') = Len(facts) + 1
          /\ \A j \in 1 .. Len(facts) : facts'[j] = facts[j]
          /\ \A j \in DOMAIN facts' : j \in 1 .. Len(facts) \/ j = Len(facts) + 1
      BY <2>1, AppendedLog
    <2>4. /\ Len(facts) + 1 \in floor' + 1 .. Len(facts')
          /\ \A j \in floor' + 1 .. Len(facts) : j \in 1 .. Len(facts)
               /\ j \in floor' + 1 .. Len(facts')
      BY <2>1, <2>3, PrunableKeeps, Sizes
    <2>5. ASSUME NEW p \in pending
          PROVE  /\ p.enrollment # x.enrollment
                 /\ \E j \in floor' + 1 .. Len(facts') : facts'[j] = <<"admitted", p.enrollment>>
                 /\ \A j \in 1 .. Len(facts) : facts[j][2] = p.enrollment
                      => facts[j][1] = "admitted"
      <3>1. PICK j \in floor' + 1 .. Len(facts) : facts[j] = <<"admitted", p.enrollment>>
        BY <2>1, PrunableKeeps
      <3>2. facts'[j] = facts[j] /\ j \in floor' + 1 .. Len(facts')
        BY <2>3, <2>4
      <3>3. facts[j][2] # x.enrollment /\ facts[j][2] = p.enrollment
        BY <2>2, <2>4, <3>1
      <3>4. \A k \in 1 .. Len(facts) : facts[k][2] = p.enrollment => facts[k][1] = "admitted"
        BY Sizes DEF PendingFacts, Inv, FactInv
      <3> QED
        BY <3>1, <3>2, <3>3, <3>4
    <2>6. ASSUME NEW p \in pending', NEW j \in DOMAIN facts', facts'[j][2] = p.enrollment
          PROVE  facts'[j][1] = "admitted"
      <3>1. CASE j = Len(facts) + 1
        BY <2>3, <3>1
      <3>2. CASE j \in 1 .. Len(facts)
        BY <2>1, <2>2, <2>3, <2>5, <2>6, <3>2
      <3> QED
        BY <2>3, <3>1, <3>2
    <2> QED
      BY <2>1, <2>3, <2>4, <2>5, <2>6 DEF PendingFacts
  <1>3. MemberFacts'
    <2>1. /\ x \in PendingRows /\ x.enrollment = enrolled + 1 /\ enrolled' = x.enrollment
          /\ pending' = pending \cup {x} /\ floor' \in Prunable
          /\ Appends(<<"admitted", x.enrollment>>)
          /\ UNCHANGED <<members, invites, receipts, invited>>
      BY DEF AdmitDoes
    <2>2. ActiveMembers' = ActiveMembers
      BY <2>1 DEF ActiveMembers, Active, IsMember
    <2>3. \A d \in ActiveMembers : x.enrollment # members[d].enrollment
      BY <2>1, MemberFields, Sizes DEF IdsUsed, ActiveMembers, Inv, TableInv
    <2>4. <<"admitted", x.enrollment>>[2] = x.enrollment
      OBVIOUS
    <2>5. ASSUME NEW d \in ActiveMembers'
          PROVE  /\ \A j \in DOMAIN facts' :
                       facts'[j][2] = members'[d].enrollment
                         => facts'[j][1] \in {"admitted", "approved"}
                 /\ \A j \in DOMAIN facts' : facts'[j] = <<"admitted", members'[d].enrollment>> =>
                       \E k \in j + 1 .. Len(facts') :
                          facts'[k] = <<"approved", members'[d].enrollment>>
      <3>1. d \in ActiveMembers /\ members'[d] = members[d] /\ x.enrollment # members[d].enrollment
        BY <2>1, <2>2, <2>3
      <3>2. /\ \A j \in DOMAIN facts' :
                  facts'[j][2] = members[d].enrollment
                    => facts'[j][1] \in {"admitted", "approved"}
            /\ \A j \in DOMAIN facts' : facts'[j] = <<"admitted", members[d].enrollment>> =>
                  \E k \in j + 1 .. Len(facts') :
                     facts'[k] = <<"approved", members[d].enrollment>>
        BY <2>1, <2>4, <3>1, AppendKeepsMember
      <3> QED
        BY <3>1, <3>2
    <2> QED
      BY <2>5 DEF MemberFacts
  <1>4. FactsFit'
    <2>1. /\ x \in PendingRows /\ x.enrollment = enrolled + 1 /\ enrolled' = x.enrollment
          /\ pending' = pending \cup {x} /\ floor' \in Prunable
          /\ Appends(<<"admitted", x.enrollment>>)
          /\ UNCHANGED <<members, invites, receipts, invited>>
      BY DEF AdmitDoes
    <2>2. ActiveMembers' = ActiveMembers
      BY <2>1 DEF ActiveMembers, Active, IsMember
    <2>3. IsFiniteSet(pending) /\ Cardinality(pending) \in Nat
      BY Sizes DEF Finite, Inv, TableInv
    <2>4. Cardinality(pending') = IF x \in pending THEN Cardinality(pending)
            ELSE Cardinality(pending) + 1
      BY <2>1, <2>3, FS_AddElement
    <2>5. Len(facts') = Len(facts) + 1 /\ Occupancy(floor') + 3 <= MaxFactRows
      BY DEF AdmitDoes, Appends
    <2>6. floor' \in Nat
      BY <2>1, PrunableKeeps
    <2>7. Len(facts) - floor' + 2 * Cardinality(pending) + Cardinality(ActiveMembers) + 3 <= MaxFactRows
      BY <2>5 DEF Occupancy
    <2>8. Cardinality(pending') \in Nat /\ Cardinality(pending') <= Cardinality(pending) + 1
      BY <2>3, <2>4
    <2>9. /\ Len(facts') = Len(facts) + 1 /\ Len(facts) \in Nat
          /\ Cardinality(ActiveMembers) \in Nat /\ MaxFactRows \in Nat
      BY <2>5, Sizes, Limits
    <2>10. Len(facts') - floor' + 2 * Cardinality(pending') + Cardinality(ActiveMembers) <= MaxFactRows
      BY <2>3, <2>6, <2>7, <2>8, <2>9, RoomForAdmission
    <2> QED
      BY <2>2, <2>10 DEF FactsFit, Occupancy
  <1> QED
    BY <1>1, <1>2, <1>3, <1>4 DEF FactInv

\* Receipts stay, and an admission settles nothing.
LEMMA AdmitKeepsReceiptInv ==
    ASSUME Inv, NEW x, AdmitDoes(x)
    PROVE  ReceiptInv'
  <1>1. KeysUnique'
    BY DEF AdmitDoes, KeysUnique, Inv, ReceiptInv
  <1>2. SinceInLog'
    BY Sizes DEF AdmitDoes, SinceInLog, ReceiptsType, ReceiptRows, Appends, Inv, ReceiptInv,
      Types
  <1>3. LastKnown'
    BY DEF AdmitDoes, LastKnown, Inv, ReceiptInv
  <1>4. AdmittersKnown'
    BY DEF AdmitDoes, AdmittersKnown, IsMember, Inv, ReceiptInv
  <1>5. ReceiptsTrue'
    <2>1. /\ x \in PendingRows /\ x.enrollment = enrolled + 1 /\ enrolled' = x.enrollment
          /\ pending' = pending \cup {x} /\ floor' \in Prunable
          /\ Appends(<<"admitted", x.enrollment>>)
          /\ UNCHANGED <<members, invites, receipts, invited>>
      BY DEF AdmitDoes
    <2>2. Extends
      BY <2>1 DEF Appends
    <2>3. \A r \in receipts, d \in Devices : Admits(d, r)' <=> Admits(d, r)
      BY <2>1 DEF Admits, IsMember
    <2>4. Truths'
      BY <2>1, <2>2, <2>3, InvTruths, ExtendedLog DEF Truths
    <2>5. DOMAIN facts' = 1 .. Len(facts')
      BY <2>2, ExtendedLog
    <2> QED
      BY <2>4, <2>5 DEF Truths, ReceiptsTrue, Admits, Recorded
  <1>6. AdmittedIsOpen'
    <2>1. /\ x \in PendingRows /\ x.enrollment = enrolled + 1 /\ enrolled' = x.enrollment
          /\ pending' = pending \cup {x} /\ floor' \in Prunable
          /\ Appends(<<"admitted", x.enrollment>>)
          /\ UNCHANGED <<members, invites, receipts, invited>>
      BY DEF AdmitDoes
    <2>2. \A r \in receipts : r.since \in Nat
      BY DEF ReceiptsType, ReceiptRows, Inv, Types
    <2>3. ASSUME NEW r \in Admitted(receipts), NEW i \in r.since + 1 .. Len(facts')
          PROVE  facts'[i] \notin {<<"approved", r.enrollment>>, <<"expired", r.enrollment>>}
      <3>1. CASE i = Len(facts) + 1
        BY <2>1, <3>1, AppendedLog
      <3>2. CASE i \in r.since + 1 .. Len(facts)
        <4>1. i \in 1 .. Len(facts)
          BY <2>2, <3>2, Sizes DEF Admitted
        <4> QED
          BY <2>1, <3>2, <4>1, AppendedLog DEF AdmittedIsOpen, Inv, ReceiptInv
      <3>3. Len(facts') = Len(facts) + 1 /\ r.since \in Nat
        BY <2>1, <2>2, AppendedLog DEF Admitted
      <3> QED
        BY <3>1, <3>2, <3>3, Sizes
    <2> QED
      BY <2>1, <2>3 DEF AdmittedIsOpen, Admitted
  <1> QED
    BY <1>1, <1>2, <1>3, <1>4, <1>5, <1>6 DEF ReceiptInv

\* The invariant survives an admission.
LEMMA AdmitKeepsInv ==
    ASSUME Inv, NEW x, AdmitDoes(x)
    PROVE  Inv'
  BY AdmitKeepsTypes, AdmitKeepsTableInv, AdmitKeepsFactInv, AdmitKeepsReceiptInv DEF Inv

\* An approved enrollment becomes a row of members.
LEMMA MemberKeepsTypes ==
    ASSUME Inv, NEW p, NEW by, NEW own, MemberDoes(p, by, own)
    PROVE  Types'
  <1>1. CountersType'
    BY DEF MemberDoes, CountersType, Inv, Types
  <1>2. MembersType'
    BY DEF MemberDoes
  <1>3. PendingType'
    BY DEF MemberDoes, PendingType, Inv, Types
  <1>4. InvitesType'
    BY DEF MemberDoes, InvitesType, Inv, Types
  <1>5. FactsType'
    BY Sizes, AppendedLog DEF MemberDoes, FactsType, Appends, Extends, Inv, Types
  <1>6. ReceiptsType'
    BY MarkedReceipts DEF MemberDoes
  <1>7. LastType'
    BY DEF MemberDoes, LastType, Inv, Types
  <1>8. CallsType'
    BY DEF MemberDoes, CallsType, Inv, Types
  <1>9. ToldType'
    BY DEF MemberDoes, ToldType, Inv, Types
  <1> QED
    BY <1>1, <1>2, <1>3, <1>4, <1>5, <1>6, <1>7, <1>8, <1>9 DEF Types

\* The label and the enrollment move from one table to the other.
LEMMA MemberKeepsTableInv ==
    ASSUME Inv, NEW p, NEW by, NEW own, MemberDoes(p, by, own)
    PROVE  TableInv'
  <1>1. Finite'
    <2>1. NewMember(p.device, p.enrollment, p.label, by) /\ p.device \in Devices
      BY ApprovedMember DEF NewMember
    <2>2. /\ IsFiniteSet(ActiveMembers') /\ ActiveMembers' = ActiveMembers \cup {p.device}
          /\ Cardinality(ActiveMembers') = Cardinality(ActiveMembers) + 1
          /\ members'[p.device].enrollment = p.enrollment /\ members'[p.device].label = p.label
          /\ members'[p.device].by = by
          /\ members'[p.device].revision = 1 /\ ~members'[p.device].revoked
          /\ \A x \in Devices : /\ IsMember(x)' <=> IsMember(x) \/ x = p.device
                                /\ x # p.device => members'[x] = members[x]
      BY <2>1, NewMemberRow
    <2>3. IsFiniteSet(receipts')
      BY MarkedReceipts DEF MemberDoes
    <2>4. pending' = pending \ {p}
      BY DEF MemberDoes
    <2>5. IsFiniteSet(pending')
      BY <2>4, FS_RemoveElement DEF Finite, Inv, TableInv
    <2> QED
      BY <2>3, <2>5, <2>2 DEF Finite, Inv, TableInv
  <1>2. IdsUsed'
    <2>1. NewMember(p.device, p.enrollment, p.label, by) /\ p.device \in Devices
      BY ApprovedMember DEF NewMember
    <2>2. /\ IsFiniteSet(ActiveMembers') /\ ActiveMembers' = ActiveMembers \cup {p.device}
          /\ Cardinality(ActiveMembers') = Cardinality(ActiveMembers) + 1
          /\ members'[p.device].enrollment = p.enrollment /\ members'[p.device].label = p.label
          /\ members'[p.device].by = by
          /\ members'[p.device].revision = 1 /\ ~members'[p.device].revoked
          /\ \A x \in Devices : /\ IsMember(x)' <=> IsMember(x) \/ x = p.device
                                /\ x # p.device => members'[x] = members[x]
      BY <2>1, NewMemberRow
    <2>3. Appends(<<"approved", p.enrollment>>) /\ floor' = floor /\ p \in pending
          /\ pending' = pending \ {p}
      BY DEF MemberDoes
    <2>4. UNCHANGED <<enrolled, invites, invited>>
      BY DEF MemberDoes
    <2>5. p.enrollment <= enrolled
      BY <2>3 DEF IdsUsed, Inv, TableInv
    <2>6. \A e \in Devices : members'[e].enrollment <= enrolled
      BY <2>5, <2>2 DEF IdsUsed, Inv, TableInv
    <2>7. ASSUME NEW j \in DOMAIN facts'
          PROVE  facts'[j][2] <= enrolled
      <3>1. CASE j \in 1 .. Len(facts)
        BY <2>3, <3>1, AppendedLog, Sizes DEF IdsUsed, Inv, TableInv
      <3>2. CASE j = Len(facts) + 1
        BY <2>3, <2>5, <3>2, AppendedLog
      <3> QED
        BY <2>3, <3>1, <3>2, AppendedLog
    <2> QED
      BY <2>3, <2>4, <2>6, <2>7 DEF IdsUsed, Inv, TableInv
  <1>3. Revisions'
    <2>1. NewMember(p.device, p.enrollment, p.label, by) /\ p.device \in Devices
      BY ApprovedMember DEF NewMember
    <2>2. /\ IsFiniteSet(ActiveMembers') /\ ActiveMembers' = ActiveMembers \cup {p.device}
          /\ Cardinality(ActiveMembers') = Cardinality(ActiveMembers) + 1
          /\ members'[p.device].enrollment = p.enrollment /\ members'[p.device].label = p.label
          /\ members'[p.device].by = by
          /\ members'[p.device].revision = 1 /\ ~members'[p.device].revoked
          /\ \A x \in Devices : /\ IsMember(x)' <=> IsMember(x) \/ x = p.device
                                /\ x # p.device => members'[x] = members[x]
      BY <2>1, NewMemberRow
    <2> QED
      BY <2>2 DEF Revisions, Inv, TableInv
  <1>4. EnrollmentsExclusive'
    <2>1. NewMember(p.device, p.enrollment, p.label, by) /\ p.device \in Devices
      BY ApprovedMember DEF NewMember
    <2>2. /\ IsFiniteSet(ActiveMembers') /\ ActiveMembers' = ActiveMembers \cup {p.device}
          /\ Cardinality(ActiveMembers') = Cardinality(ActiveMembers) + 1
          /\ members'[p.device].enrollment = p.enrollment /\ members'[p.device].label = p.label
          /\ members'[p.device].by = by
          /\ members'[p.device].revision = 1 /\ ~members'[p.device].revoked
          /\ \A x \in Devices : /\ IsMember(x)' <=> IsMember(x) \/ x = p.device
                                /\ x # p.device => members'[x] = members[x]
      BY <2>1, NewMemberRow
    <2>3. Appends(<<"approved", p.enrollment>>) /\ floor' = floor /\ p \in pending
          /\ pending' = pending \ {p}
      BY DEF MemberDoes
    <2>4. \A q \in pending' : q \in pending /\ q.enrollment # p.enrollment
      BY <2>3 DEF EnrollmentsExclusive, Inv, TableInv
    <2>5. \A e \in Devices : members[e].enrollment # p.enrollment
      BY <2>3 DEF EnrollmentsExclusive, Inv, TableInv
    <2>6. \A q \in pending', e \in Devices : members'[e].enrollment # q.enrollment
      BY <2>4, <2>2 DEF EnrollmentsExclusive, Inv, TableInv
    <2>7. \A e, f \in Devices : IsMember(e)' /\ e # f
            => members'[e].enrollment # members'[f].enrollment
      BY <2>5, <2>2 DEF EnrollmentsExclusive, Inv, TableInv
    <2> QED
      BY <2>4, <2>6, <2>7 DEF EnrollmentsExclusive, Inv, TableInv
  <1>5. LabelsExclusive'
    <2>1. NewMember(p.device, p.enrollment, p.label, by) /\ p.device \in Devices
      BY ApprovedMember DEF NewMember
    <2>2. /\ IsFiniteSet(ActiveMembers') /\ ActiveMembers' = ActiveMembers \cup {p.device}
          /\ Cardinality(ActiveMembers') = Cardinality(ActiveMembers) + 1
          /\ members'[p.device].enrollment = p.enrollment /\ members'[p.device].label = p.label
          /\ members'[p.device].by = by
          /\ members'[p.device].revision = 1 /\ ~members'[p.device].revoked
          /\ \A x \in Devices : /\ IsMember(x)' <=> IsMember(x) \/ x = p.device
                                /\ x # p.device => members'[x] = members[x]
      BY <2>1, NewMemberRow
    <2>3. Appends(<<"approved", p.enrollment>>) /\ floor' = floor /\ p \in pending
          /\ pending' = pending \ {p}
      BY DEF MemberDoes
    <2>4. invites' = invites /\ Apart
      BY InvApart DEF MemberDoes
    <2>5. \A q \in pending : q.device \in Devices
      BY DEF PendingType, PendingRows, Inv, Types
    <2>6. \A e, f \in Devices : IsMember(e)' /\ IsMember(f)' /\ e # f
             => LabelKey[members'[e].label] # LabelKey[members'[f].label]
      BY <2>3, <2>4, <2>2 DEF Apart
    <2>7. \A e \in Devices, q \in pending' : IsMember(e)'
            => LabelKey[members'[e].label] # LabelKey[q.label]
      BY <2>3, <2>4, <2>2 DEF Apart
    <2>8. \A e \in Devices, i \in invites : IsMember(e)'
            => LabelKey[members'[e].label] # LabelKey[i.label]
      BY <2>3, <2>4, <2>2 DEF Apart
    <2>9. \A q \in pending' : ~IsMember(q.device)'
      BY <2>3, <2>4, <2>5, <2>2 DEF Apart
    <2>10. Apart'
      BY <2>3, <2>4, <2>6, <2>7, <2>8, <2>9 DEF Apart
    <2> QED
      BY <2>10 DEF Apart, LabelsExclusive, MemberKeys, PendingKeys, InviteKeys
  <1>6. InvitesHaveIssuers'
    <2>1. NewMember(p.device, p.enrollment, p.label, by) /\ p.device \in Devices
      BY ApprovedMember DEF NewMember
    <2>2. /\ IsFiniteSet(ActiveMembers') /\ ActiveMembers' = ActiveMembers \cup {p.device}
          /\ Cardinality(ActiveMembers') = Cardinality(ActiveMembers) + 1
          /\ members'[p.device].enrollment = p.enrollment /\ members'[p.device].label = p.label
          /\ members'[p.device].by = by
          /\ members'[p.device].revision = 1 /\ ~members'[p.device].revoked
          /\ \A x \in Devices : /\ IsMember(x)' <=> IsMember(x) \/ x = p.device
                                /\ x # p.device => members'[x] = members[x]
      BY <2>1, NewMemberRow
    <2>3. invites' = invites
      BY DEF MemberDoes
    <2>4. ASSUME NEW j \in invites, j.issuer # Local
          PROVE  Active(j.issuer)'
      <3>1. j.issuer \in Devices /\ Active(j.issuer)
        BY <2>4 DEF InvitesHaveIssuers, InvitesType, InviteRows, Actors, Inv, TableInv, Types
      <3> QED
        BY <2>1, <3>1, <2>2 DEF ActiveMembers
    <2> QED
      BY <2>3, <2>4 DEF InvitesHaveIssuers
  <1> QED
    BY <1>1, <1>2, <1>3, <1>4, <1>5, <1>6 DEF TableInv

\* The approval comes after the admission; the new member needs one row less
\* than the pending enrollment did.
LEMMA MemberKeepsFactInv ==
    ASSUME Inv, NEW p, NEW by, NEW own, MemberDoes(p, by, own)
    PROVE  FactInv'
  <1>1. FactsOnce'
    <2>1. Appends(<<"approved", p.enrollment>>) /\ floor' = floor /\ p \in pending
          /\ pending' = pending \ {p}
      BY DEF MemberDoes
    <2>2. \A j \in 1 .. Len(facts) : facts[j] # <<"approved", p.enrollment>>
      <3>1. ASSUME NEW j \in 1 .. Len(facts), facts[j] = <<"approved", p.enrollment>>
            PROVE  FALSE
        <4>1. facts[j][1] = "approved" /\ facts[j][2] = p.enrollment
          BY <3>1
        <4> QED
          BY <2>1, <4>1, Sizes DEF PendingFacts, Inv, FactInv
      <3> QED
        BY <3>1
    <2> QED
      BY <2>1, <2>2, AppendKeepsOnce
  <1>2. PendingFacts'
    <2>1. Appends(<<"approved", p.enrollment>>) /\ floor' = floor /\ p \in pending
          /\ pending' = pending \ {p}
      BY DEF MemberDoes
    <2>2. \A q \in pending' : q \in pending /\ p.enrollment # q.enrollment
      BY <2>1 DEF EnrollmentsExclusive, Inv, TableInv
    <2>3. <<"approved", p.enrollment>>[2] = p.enrollment
      OBVIOUS
    <2> QED
      BY <2>1, <2>2, <2>3, AppendKeepsPending DEF PendingFacts
  <1>3. MemberFacts'
    <2>1. NewMember(p.device, p.enrollment, p.label, by) /\ p.device \in Devices
      BY ApprovedMember DEF NewMember
    <2>2. /\ IsFiniteSet(ActiveMembers') /\ ActiveMembers' = ActiveMembers \cup {p.device}
          /\ Cardinality(ActiveMembers') = Cardinality(ActiveMembers) + 1
          /\ members'[p.device].enrollment = p.enrollment /\ members'[p.device].label = p.label
          /\ members'[p.device].by = by
          /\ members'[p.device].revision = 1 /\ ~members'[p.device].revoked
          /\ \A x \in Devices : /\ IsMember(x)' <=> IsMember(x) \/ x = p.device
                                /\ x # p.device => members'[x] = members[x]
      BY <2>1, NewMemberRow
    <2>3. Appends(<<"approved", p.enrollment>>) /\ floor' = floor /\ p \in pending
          /\ pending' = pending \ {p}
      BY DEF MemberDoes
    <2>4. ASSUME NEW e \in ActiveMembers', e # p.device
          PROVE  /\ e \in ActiveMembers /\ members'[e] = members[e]
                 /\ p.enrollment # members[e].enrollment
      BY <2>3, <2>4, <2>2 DEF ActiveMembers, EnrollmentsExclusive, Inv, TableInv
    <2>5. <<"approved", p.enrollment>>[2] = p.enrollment
      OBVIOUS
    <2>6. ASSUME NEW e \in ActiveMembers', e # p.device
          PROVE  /\ \A j \in DOMAIN facts' :
                       facts'[j][2] = members'[e].enrollment
                         => facts'[j][1] \in {"admitted", "approved"}
                 /\ \A j \in DOMAIN facts' : facts'[j] = <<"admitted", members'[e].enrollment>> =>
                       \E k \in j + 1 .. Len(facts') : facts'[k] = <<"approved",
                         members'[e].enrollment>>
      <3>1. e \in ActiveMembers /\ members'[e] = members[e] /\ p.enrollment # members[e].enrollment
        BY <2>4, <2>6
      <3>2. /\ \A j \in DOMAIN facts' :
                  facts'[j][2] = members[e].enrollment
                    => facts'[j][1] \in {"admitted", "approved"}
            /\ \A j \in DOMAIN facts' : facts'[j] = <<"admitted", members[e].enrollment>> =>
                  \E k \in j + 1 .. Len(facts') :
                     facts'[k] = <<"approved", members[e].enrollment>>
        BY <2>3, <2>5, <3>1, AppendKeepsMember
      <3> QED
        BY <3>1, <3>2
    <2>7. ASSUME NEW j \in DOMAIN facts', facts'[j][2] = p.enrollment
          PROVE  facts'[j][1] \in {"admitted", "approved"}
      <3>1. CASE j \in 1 .. Len(facts)
        <4>1. j \in DOMAIN facts /\ facts'[j] = facts[j]
          BY <2>3, <3>1, AppendedLog, Sizes
        <4> QED
          BY <2>3, <2>7, <4>1 DEF PendingFacts, Inv, FactInv
      <3>2. CASE j = Len(facts) + 1
        BY <2>3, <3>2, AppendedLog
      <3> QED
        BY <2>3, <3>1, <3>2, AppendedLog
    <2>8. ASSUME NEW j \in DOMAIN facts', facts'[j] = <<"admitted", p.enrollment>>
          PROVE  \E k \in j + 1 .. Len(facts') : facts'[k] = <<"approved", p.enrollment>>
      <3>1. facts'[Len(facts) + 1] = <<"approved", p.enrollment>> /\ Len(facts') = Len(facts) + 1
        BY <2>3, AppendedLog
      <3>2. j \in 1 .. Len(facts)
        <4>1. "admitted" # "approved"
          OBVIOUS
        <4> QED
          BY <2>3, <2>8, <3>1, <4>1, AppendedLog
      <3>3. Len(facts) + 1 \in j + 1 .. Len(facts')
        BY <3>1, <3>2, Sizes
      <3> QED
        BY <3>1, <3>3
    <2>9. ASSUME NEW e \in ActiveMembers'
          PROVE  /\ \A j \in DOMAIN facts' :
                       facts'[j][2] = members'[e].enrollment
                         => facts'[j][1] \in {"admitted", "approved"}
                 /\ \A j \in DOMAIN facts' : facts'[j] = <<"admitted", members'[e].enrollment>> =>
                       \E k \in j + 1 .. Len(facts') :
                          facts'[k] = <<"approved", members'[e].enrollment>>
      <3>1. CASE e = p.device
        <4>1. members'[e].enrollment = p.enrollment
          BY <2>2, <3>1
        <4> QED
          BY <2>7, <2>8, <4>1
      <3> QED
        BY <2>6, <3>1
    <2> QED
      BY <2>9 DEF MemberFacts
  <1>4. FactsFit'
    <2>1. NewMember(p.device, p.enrollment, p.label, by) /\ p.device \in Devices
      BY ApprovedMember DEF NewMember
    <2>2. /\ IsFiniteSet(ActiveMembers') /\ ActiveMembers' = ActiveMembers \cup {p.device}
          /\ Cardinality(ActiveMembers') = Cardinality(ActiveMembers) + 1
          /\ members'[p.device].enrollment = p.enrollment /\ members'[p.device].label = p.label
          /\ members'[p.device].by = by
          /\ members'[p.device].revision = 1 /\ ~members'[p.device].revoked
          /\ \A x \in Devices : /\ IsMember(x)' <=> IsMember(x) \/ x = p.device
                                /\ x # p.device => members'[x] = members[x]
      BY <2>1, NewMemberRow
    <2>3. Appends(<<"approved", p.enrollment>>) /\ floor' = floor /\ p \in pending
          /\ pending' = pending \ {p}
      BY DEF MemberDoes
    <2>4. Cardinality(pending') = Cardinality(pending) - 1
      BY <2>3, FS_RemoveElement DEF Finite, Inv, TableInv
    <2>5. Len(facts') = Len(facts) + 1
      BY <2>3, AppendedLog
    <2>6. Len(facts) - floor + 2 * Cardinality(pending) + Cardinality(ActiveMembers) <= MaxFactRows
      BY DEF FactsFit, Occupancy, Inv, FactInv
    <2>7. (Len(facts) + 1) - floor + 2 * (Cardinality(pending) - 1) + (Cardinality(ActiveMembers) + 1)
            <= MaxFactRows
      BY <2>6, Sizes, Limits, RoomAfterApproval
    <2> QED
      BY <2>2, <2>3, <2>4, <2>5, <2>7 DEF FactsFit, Occupancy
  <1> QED
    BY <1>1, <1>2, <1>3, <1>4 DEF FactInv

\* The command that approved is committed and no other: those for the same
\* enrollment are rejected, and the log has the approval.
LEMMA MemberKeepsReceiptInv ==
    ASSUME Inv, NEW p, NEW by, NEW own, MemberDoes(p, by, own)
    PROVE  ReceiptInv'
  <1>1. KeysUnique'
    BY MarkedReceipts DEF MemberDoes
  <1>2. SinceInLog'
    <2>1. Appends(<<"approved", p.enrollment>>) /\ floor' = floor /\ p \in pending
          /\ pending' = pending \ {p}
      BY DEF MemberDoes
    <2>2. \A q \in receipts' : \E r \in receipts :
             /\ q.adapter = r.adapter /\ q.command = r.command
             /\ q.enrollment = r.enrollment /\ q.since = r.since
             /\ \/ /\ <<r.adapter, r.command>> = own
                   /\ by = own /\ r.enrollment = p.enrollment /\ r.state = "admitted"
                   /\ q.state = "committed" /\ q.code = r.code
                \/ /\ <<r.adapter, r.command>> # own
                   /\ r.enrollment = p.enrollment /\ r.state = "admitted"
                   /\ q.state = "rejected" /\ q.code = "settled_elsewhere"
                \/ /\ <<r.adapter, r.command>> # own
                   /\ r.enrollment # p.enrollment \/ r.state # "admitted"
                   /\ q = r
      BY MarkedReceipts DEF MemberDoes
    <2>3. \A r \in receipts : r.since \in Nat /\ r.since <= Len(facts)
      BY DEF SinceInLog, ReceiptsType, ReceiptRows, Inv, ReceiptInv, Types
    <2>4. Len(facts') = Len(facts) + 1
      BY <2>1, AppendedLog
    <2> QED
      BY <2>3, <2>4, <2>2, Sizes DEF SinceInLog
  <1>3. LastKnown'
    <2>1. \A q \in receipts' : \E r \in receipts :
             /\ q.adapter = r.adapter /\ q.command = r.command
             /\ q.enrollment = r.enrollment /\ q.since = r.since
             /\ \/ /\ <<r.adapter, r.command>> = own
                   /\ by = own /\ r.enrollment = p.enrollment /\ r.state = "admitted"
                   /\ q.state = "committed" /\ q.code = r.code
                \/ /\ <<r.adapter, r.command>> # own
                   /\ r.enrollment = p.enrollment /\ r.state = "admitted"
                   /\ q.state = "rejected" /\ q.code = "settled_elsewhere"
                \/ /\ <<r.adapter, r.command>> # own
                   /\ r.enrollment # p.enrollment \/ r.state # "admitted"
                   /\ q = r
      BY MarkedReceipts DEF MemberDoes
    <2> QED
      BY <2>1 DEF MemberDoes, LastKnown, Inv, ReceiptInv
  <1>4. AdmittersKnown'
    <2>1. NewMember(p.device, p.enrollment, p.label, by) /\ p.device \in Devices
      BY ApprovedMember DEF NewMember
    <2>2. /\ IsFiniteSet(ActiveMembers') /\ ActiveMembers' = ActiveMembers \cup {p.device}
          /\ Cardinality(ActiveMembers') = Cardinality(ActiveMembers) + 1
          /\ members'[p.device].enrollment = p.enrollment /\ members'[p.device].label = p.label
          /\ members'[p.device].by = by
          /\ members'[p.device].revision = 1 /\ ~members'[p.device].revoked
          /\ \A x \in Devices : /\ IsMember(x)' <=> IsMember(x) \/ x = p.device
                                /\ x # p.device => members'[x] = members[x]
      BY <2>1, NewMemberRow
    <2>3. last' = last
      BY DEF MemberDoes
    <2>4. ASSUME NEW a \in Adapters, NEW m \in Commands, by = <<a, m>>
          PROVE  m <= last[a]
      <3>1. PICK r \in receipts : r.adapter = a /\ r.command = m
        <4>1. ASSUME NEW x, by = <<x>>
              PROVE  FALSE
          BY <2>4, <4>1, TupleLengths
        <4>2. PICK r \in Admitted(receipts) : <<r.adapter, r.command>> = by
          BY <4>1 DEF MemberDoes, Approver
        <4> QED
          BY <2>4, <4>2 DEF Admitted
      <3> QED
        BY <3>1 DEF LastKnown, Inv, ReceiptInv
    <2> QED
      BY <2>3, <2>4, <2>2 DEF AdmittersKnown, Inv, ReceiptInv
  <1>5. ReceiptsTrue'
    <2>1. NewMember(p.device, p.enrollment, p.label, by) /\ p.device \in Devices
      BY ApprovedMember DEF NewMember
    <2>2. /\ IsFiniteSet(ActiveMembers') /\ ActiveMembers' = ActiveMembers \cup {p.device}
          /\ Cardinality(ActiveMembers') = Cardinality(ActiveMembers) + 1
          /\ members'[p.device].enrollment = p.enrollment /\ members'[p.device].label = p.label
          /\ members'[p.device].by = by
          /\ members'[p.device].revision = 1 /\ ~members'[p.device].revoked
          /\ \A x \in Devices : /\ IsMember(x)' <=> IsMember(x) \/ x = p.device
                                /\ x # p.device => members'[x] = members[x]
      BY <2>1, NewMemberRow
    <2>3. Appends(<<"approved", p.enrollment>>) /\ floor' = floor /\ p \in pending
          /\ pending' = pending \ {p}
      BY DEF MemberDoes
    <2>4. \A q \in receipts' : \E r \in receipts :
             /\ q.adapter = r.adapter /\ q.command = r.command
             /\ q.enrollment = r.enrollment /\ q.since = r.since
             /\ \/ /\ <<r.adapter, r.command>> = own
                   /\ by = own /\ r.enrollment = p.enrollment /\ r.state = "admitted"
                   /\ q.state = "committed" /\ q.code = r.code
                \/ /\ <<r.adapter, r.command>> # own
                   /\ r.enrollment = p.enrollment /\ r.state = "admitted"
                   /\ q.state = "rejected" /\ q.code = "settled_elsewhere"
                \/ /\ <<r.adapter, r.command>> # own
                   /\ r.enrollment # p.enrollment \/ r.state # "admitted"
                   /\ q = r
      BY MarkedReceipts DEF MemberDoes
    <2>5. Extends /\ Recorded("approved", p.enrollment)'
      <3>1. Extends /\ Len(facts') = Len(facts) + 1 /\ facts'[Len(facts) + 1] = <<"approved",
              p.enrollment>>
        BY <2>3 DEF Appends
      <3>2. Len(facts) + 1 \in 1 .. Len(facts')
        BY <3>1, Sizes
      <3> QED
        BY <3>1, <3>2 DEF Recorded
    <2>6. ~IsMember(p.device) /\ \A e \in Devices : members[e].enrollment # p.enrollment
      BY <2>3, InvApart DEF Apart, EnrollmentsExclusive, Inv, TableInv
    <2>7. ASSUME NEW q \in receipts', NEW r \in receipts, NEW e \in Devices,
                 q.adapter = r.adapter, q.command = r.command, q.enrollment = r.enrollment
          PROVE  Admits(e, q)' <=>
                   Admits(e, r) \/ (/\ e = p.device /\ r.enrollment = p.enrollment
                                    /\ by = <<r.adapter, r.command>>)
      <3>1. CASE e = p.device
        BY <2>6, <2>7, <2>2, <3>1 DEF Admits
      <3>2. CASE e # p.device
        BY <2>7, <2>2, <3>2 DEF Admits
      <3> QED
        BY <3>1, <3>2
    <2>8. \A e \in Devices, r \in receipts : r.enrollment = p.enrollment => ~Admits(e, r)
      BY <2>6 DEF Admits
    <2>9. \A r \in receipts : by = <<r.adapter, r.command>> => own = <<r.adapter, r.command>>
      BY TupleLengths DEF MemberDoes, Approver
    <2>10. \A k, e : Recorded(k, e) => Recorded(k, e)'
      BY <2>5, ExtendedLog
    <2>11. ASSUME NEW q \in receipts'
           PROVE  /\ q.state = "committed" <=> \E d \in Devices : Admits(d, q)'
                  /\ q.code = "enrollment_expired" => Recorded("expired", q.enrollment)'
                  /\ q.code = "settled_elsewhere" => Recorded("approved", q.enrollment)'
      <3>1. PICK r \in receipts :
               /\ q.adapter = r.adapter /\ q.command = r.command
               /\ q.enrollment = r.enrollment /\ q.since = r.since
               /\ \/ /\ <<r.adapter, r.command>> = own
                     /\ by = own /\ r.enrollment = p.enrollment /\ r.state = "admitted"
                     /\ q.state = "committed" /\ q.code = r.code
                  \/ /\ <<r.adapter, r.command>> # own
                     /\ r.enrollment = p.enrollment /\ r.state = "admitted"
                     /\ q.state = "rejected" /\ q.code = "settled_elsewhere"
                  \/ /\ <<r.adapter, r.command>> # own
                     /\ r.enrollment # p.enrollment \/ r.state # "admitted"
                     /\ q = r
        BY <2>4
      <3>2. /\ r.state = "committed" <=> \E d \in Devices : Admits(d, r)
            /\ r.code = "enrollment_expired" => Recorded("expired", r.enrollment)
            /\ r.code = "settled_elsewhere" => Recorded("approved", r.enrollment)
        BY InvTruths DEF Truths
      <3>3. CASE <<r.adapter, r.command>> = own
        BY <2>1, <2>7, <2>10, <3>1, <3>2, <3>3
      <3>4. CASE <<r.adapter, r.command>> # own
        <4>1. \A e \in Devices : Admits(e, q)' <=> Admits(e, r)
          BY <2>7, <2>9, <3>1, <3>4
        <4> QED
          BY <2>5, <2>8, <2>10, <3>1, <3>2, <3>4, <4>1
      <3> QED
        BY <3>3, <3>4
    <2>12. DOMAIN facts' = 1 .. Len(facts')
      BY <2>5, ExtendedLog
    <2> QED
      BY <2>11, <2>12 DEF ReceiptsTrue, Admits, Recorded
  <1>6. AdmittedIsOpen'
    <2>1. Appends(<<"approved", p.enrollment>>) /\ floor' = floor /\ p \in pending
          /\ pending' = pending \ {p}
      BY DEF MemberDoes
    <2>2. \A q \in receipts' : \E r \in receipts :
             /\ q.adapter = r.adapter /\ q.command = r.command
             /\ q.enrollment = r.enrollment /\ q.since = r.since
             /\ \/ /\ <<r.adapter, r.command>> = own
                   /\ by = own /\ r.enrollment = p.enrollment /\ r.state = "admitted"
                   /\ q.state = "committed" /\ q.code = r.code
                \/ /\ <<r.adapter, r.command>> # own
                   /\ r.enrollment = p.enrollment /\ r.state = "admitted"
                   /\ q.state = "rejected" /\ q.code = "settled_elsewhere"
                \/ /\ <<r.adapter, r.command>> # own
                   /\ r.enrollment # p.enrollment \/ r.state # "admitted"
                   /\ q = r
      BY MarkedReceipts DEF MemberDoes
    <2>3. ASSUME NEW q \in Admitted(receipts'), NEW i \in q.since + 1 .. Len(facts')
          PROVE  facts'[i] \notin {<<"approved", q.enrollment>>, <<"expired", q.enrollment>>}
      <3>1. q \in Admitted(receipts) /\ q.enrollment # p.enrollment /\ q.since \in Nat
        BY <2>2 DEF Admitted, ReceiptsType, ReceiptRows, Inv, Types
      <3>2. CASE i = Len(facts) + 1
        BY <2>1, <3>1, <3>2, AppendedLog
      <3>3. CASE i \in q.since + 1 .. Len(facts)
        <4>1. i \in 1 .. Len(facts)
          BY <3>1, <3>3, Sizes
        <4> QED
          BY <2>1, <3>1, <3>3, <4>1, AppendedLog DEF AdmittedIsOpen, Inv, ReceiptInv
      <3>4. Len(facts') = Len(facts) + 1
        BY <2>1, AppendedLog
      <3> QED
        BY <3>1, <3>2, <3>3, <3>4, Sizes
    <2> QED
      BY <2>3 DEF AdmittedIsOpen, Admitted
  <1> QED
    BY <1>1, <1>2, <1>3, <1>4, <1>5, <1>6 DEF ReceiptInv

\* The invariant survives an approval.
LEMMA MemberKeepsInv ==
    ASSUME Inv, NEW p, NEW by, NEW own, MemberDoes(p, by, own)
    PROVE  Inv'
  BY MemberKeepsTypes, MemberKeepsTableInv, MemberKeepsFactInv, MemberKeepsReceiptInv DEF Inv

\* A redeemed invite becomes a row of members.
LEMMA RedeemKeepsTypes ==
    ASSUME Inv, NEW d, NEW l, NEW i, NEW e, RedeemDoes(d, l, i, e)
    PROVE  Types'
  <1>1. CountersType'
    BY Limits DEF RedeemDoes, CountersType, Inv, Types
  <1>2. MembersType'
    BY DEF RedeemDoes
  <1>3. PendingType'
    BY DEF RedeemDoes, PendingType, Inv, Types
  <1>4. InvitesType'
    BY DEF RedeemDoes, InvitesType, Inv, Types
  <1>5. FactsType'
    BY PrunableKeeps DEF RedeemDoes, FactsType, Inv, Types
  <1>6. ReceiptsType'
    BY DEF RedeemDoes, ReceiptsType, Inv, Types
  <1>7. LastType'
    BY DEF RedeemDoes, LastType, Inv, Types
  <1>8. CallsType'
    BY DEF RedeemDoes, CallsType, Inv, Types
  <1>9. ToldType'
    BY DEF RedeemDoes, ToldType, Inv, Types
  <1> QED
    BY <1>1, <1>2, <1>3, <1>4, <1>5, <1>6, <1>7, <1>8, <1>9 DEF Types

\* The label was reserved by the invite, which goes; the identifier is new.
LEMMA RedeemKeepsTableInv ==
    ASSUME Inv, NEW d, NEW l, NEW i, NEW e, RedeemDoes(d, l, i, e)
    PROVE  TableInv'
  <1>1. Finite'
    <2>1. NewMember(d, e, l, <<"invite">>) /\ d \in Devices /\ e = enrolled + 1
      BY RedeemedMember DEF RedeemDoes
    <2>2. /\ IsFiniteSet(ActiveMembers') /\ ActiveMembers' = ActiveMembers \cup {d}
          /\ Cardinality(ActiveMembers') = Cardinality(ActiveMembers) + 1
          /\ members'[d].enrollment = e /\ members'[d].label = l
          /\ members'[d].by = <<"invite">>
          /\ members'[d].revision = 1 /\ ~members'[d].revoked
          /\ \A x \in Devices : /\ IsMember(x)' <=> IsMember(x) \/ x = d
                                /\ x # d => members'[x] = members[x]
      BY <2>1, NewMemberRow
    <2>3. UNCHANGED <<pending, receipts>>
      BY DEF RedeemDoes
    <2> QED
      BY <2>1, <2>3, <2>2 DEF Finite, Inv, TableInv
  <1>2. IdsUsed'
    <2>1. NewMember(d, e, l, <<"invite">>) /\ d \in Devices /\ e = enrolled + 1
      BY RedeemedMember DEF RedeemDoes
    <2>2. /\ IsFiniteSet(ActiveMembers') /\ ActiveMembers' = ActiveMembers \cup {d}
          /\ Cardinality(ActiveMembers') = Cardinality(ActiveMembers) + 1
          /\ members'[d].enrollment = e /\ members'[d].label = l
          /\ members'[d].by = <<"invite">>
          /\ members'[d].revision = 1 /\ ~members'[d].revoked
          /\ \A x \in Devices : /\ IsMember(x)' <=> IsMember(x) \/ x = d
                                /\ x # d => members'[x] = members[x]
      BY <2>1, NewMemberRow
    <2>3. /\ enrolled' = e /\ invites' \subseteq invites
          /\ UNCHANGED <<pending, facts, invited>>
      BY DEF RedeemDoes
    <2>4. \A y \in Devices : members'[y].enrollment <= e
      BY <2>1, <2>2, MemberFields, Sizes DEF IdsUsed, Inv, TableInv
    <2>5. \A p \in pending : p.enrollment <= e
      BY <2>1, Sizes, Limits DEF IdsUsed, PendingType, PendingRows, Inv, TableInv, Types
    <2>6. \A j \in DOMAIN facts : facts[j][2] <= e
      BY <2>1, Sizes, FactFields DEF IdsUsed, Inv, TableInv
    <2> QED
      BY <2>3, <2>4, <2>5, <2>6 DEF IdsUsed, Inv, TableInv
  <1>3. Revisions'
    <2>1. NewMember(d, e, l, <<"invite">>) /\ d \in Devices /\ e = enrolled + 1
      BY RedeemedMember DEF RedeemDoes
    <2>2. /\ IsFiniteSet(ActiveMembers') /\ ActiveMembers' = ActiveMembers \cup {d}
          /\ Cardinality(ActiveMembers') = Cardinality(ActiveMembers) + 1
          /\ members'[d].enrollment = e /\ members'[d].label = l
          /\ members'[d].by = <<"invite">>
          /\ members'[d].revision = 1 /\ ~members'[d].revoked
          /\ \A x \in Devices : /\ IsMember(x)' <=> IsMember(x) \/ x = d
                                /\ x # d => members'[x] = members[x]
      BY <2>1, NewMemberRow
    <2> QED
      BY <2>1, <2>2 DEF Revisions, Inv, TableInv
  <1>4. EnrollmentsExclusive'
    <2>1. NewMember(d, e, l, <<"invite">>) /\ d \in Devices /\ e = enrolled + 1
      BY RedeemedMember DEF RedeemDoes
    <2>2. /\ IsFiniteSet(ActiveMembers') /\ ActiveMembers' = ActiveMembers \cup {d}
          /\ Cardinality(ActiveMembers') = Cardinality(ActiveMembers) + 1
          /\ members'[d].enrollment = e /\ members'[d].label = l
          /\ members'[d].by = <<"invite">>
          /\ members'[d].revision = 1 /\ ~members'[d].revoked
          /\ \A x \in Devices : /\ IsMember(x)' <=> IsMember(x) \/ x = d
                                /\ x # d => members'[x] = members[x]
      BY <2>1, NewMemberRow
    <2>3. \A y \in Devices : members[y].enrollment # e
      BY <2>1, MemberFields, Sizes DEF IdsUsed, Inv, TableInv
    <2>4. \A p \in pending : p.enrollment # e
      BY <2>1, Sizes, Limits DEF IdsUsed, PendingType, PendingRows, Inv, TableInv, Types
    <2>5. pending' = pending
      BY DEF RedeemDoes
    <2>6. \A p \in pending, y \in Devices : members'[y].enrollment # p.enrollment
      BY <2>1, <2>4, <2>2 DEF EnrollmentsExclusive, Inv, TableInv
    <2>7. \A y, f \in Devices : IsMember(y)' /\ y # f
            => members'[y].enrollment # members'[f].enrollment
      BY <2>1, <2>3, <2>2 DEF EnrollmentsExclusive, Inv, TableInv
    <2> QED
      BY <2>5, <2>6, <2>7 DEF EnrollmentsExclusive, Inv, TableInv
  <1>5. LabelsExclusive'
    <2>1. NewMember(d, e, l, <<"invite">>) /\ d \in Devices /\ e = enrolled + 1
      BY RedeemedMember DEF RedeemDoes
    <2>2. /\ IsFiniteSet(ActiveMembers') /\ ActiveMembers' = ActiveMembers \cup {d}
          /\ Cardinality(ActiveMembers') = Cardinality(ActiveMembers) + 1
          /\ members'[d].enrollment = e /\ members'[d].label = l
          /\ members'[d].by = <<"invite">>
          /\ members'[d].revision = 1 /\ ~members'[d].revoked
          /\ \A x \in Devices : /\ IsMember(x)' <=> IsMember(x) \/ x = d
                                /\ x # d => members'[x] = members[x]
      BY <2>1, NewMemberRow
    <2>3. pending' = pending /\ invites' \subseteq invites \ {i} /\ i \in invites /\ i.label = l
      BY DEF RedeemDoes, Redeems
    <2>4. \A y \in Devices : IsMember(y) => LabelKey[members[y].label] # LabelKey[l]
      BY DEF RedeemDoes, Redeems, MemberKeys
    <2>5. \A p \in pending : LabelKey[p.label] # LabelKey[l] /\ p.device # d
      BY DEF RedeemDoes, Redeems, PendingKeys
    <2>6. \A p \in pending : p.device \in Devices
      BY DEF PendingType, PendingRows, Inv, Types
    <2>7. Apart
      BY InvApart
    <2>8. \A y, f \in Devices : IsMember(y)' /\ IsMember(f)' /\ y # f
             => LabelKey[members'[y].label] # LabelKey[members'[f].label]
      BY <2>1, <2>4, <2>7, <2>2 DEF Apart
    <2>9. \A y \in Devices, p \in pending : IsMember(y)'
            => LabelKey[members'[y].label] # LabelKey[p.label]
      BY <2>1, <2>5, <2>7, <2>2 DEF Apart
    <2>10. \A y \in Devices, j \in invites' : IsMember(y)'
             => LabelKey[members'[y].label] # LabelKey[j.label]
      BY <2>1, <2>3, <2>7, <2>2 DEF Apart
    <2>11. \A p \in pending : ~IsMember(p.device)'
      BY <2>1, <2>5, <2>6, <2>7, <2>2 DEF Apart
    <2>12. Apart'
      BY <2>3, <2>7, <2>8, <2>9, <2>10, <2>11 DEF Apart
    <2> QED
      BY <2>12 DEF Apart, LabelsExclusive, MemberKeys, PendingKeys, InviteKeys
  <1>6. InvitesHaveIssuers'
    <2>1. NewMember(d, e, l, <<"invite">>) /\ d \in Devices /\ e = enrolled + 1
      BY RedeemedMember DEF RedeemDoes
    <2>2. /\ IsFiniteSet(ActiveMembers') /\ ActiveMembers' = ActiveMembers \cup {d}
          /\ Cardinality(ActiveMembers') = Cardinality(ActiveMembers) + 1
          /\ members'[d].enrollment = e /\ members'[d].label = l
          /\ members'[d].by = <<"invite">>
          /\ members'[d].revision = 1 /\ ~members'[d].revoked
          /\ \A x \in Devices : /\ IsMember(x)' <=> IsMember(x) \/ x = d
                                /\ x # d => members'[x] = members[x]
      BY <2>1, NewMemberRow
    <2>3. invites' \subseteq invites
      BY DEF RedeemDoes
    <2>4. ASSUME NEW j \in invites, j.issuer # Local
          PROVE  Active(j.issuer)'
      <3>1. j.issuer \in Devices /\ Active(j.issuer)
        BY <2>4 DEF InvitesHaveIssuers, InvitesType, InviteRows, Actors, Inv, TableInv, Types
      <3> QED
        BY <2>1, <3>1, <2>2 DEF ActiveMembers
    <2> QED
      BY <2>3, <2>4 DEF InvitesHaveIssuers
  <1> QED
    BY <1>1, <1>2, <1>3, <1>4, <1>5, <1>6 DEF TableInv

\* The log has nothing about the new member; the row it may need fits.
LEMMA RedeemKeepsFactInv ==
    ASSUME Inv, NEW d, NEW l, NEW i, NEW e, RedeemDoes(d, l, i, e)
    PROVE  FactInv'
  <1>1. FactsOnce'
    BY DEF RedeemDoes, FactsOnce, FactInv, Inv
  <1>2. PendingFacts'
    BY PrunableKeeps DEF RedeemDoes, PendingFacts, Inv, FactInv
  <1>3. MemberFacts'
    <2>1. NewMember(d, e, l, <<"invite">>) /\ d \in Devices /\ e = enrolled + 1
      BY RedeemedMember DEF RedeemDoes
    <2>2. /\ IsFiniteSet(ActiveMembers') /\ ActiveMembers' = ActiveMembers \cup {d}
          /\ Cardinality(ActiveMembers') = Cardinality(ActiveMembers) + 1
          /\ members'[d].enrollment = e /\ members'[d].label = l
          /\ members'[d].by = <<"invite">>
          /\ members'[d].revision = 1 /\ ~members'[d].revoked
          /\ \A x \in Devices : /\ IsMember(x)' <=> IsMember(x) \/ x = d
                                /\ x # d => members'[x] = members[x]
      BY <2>1, NewMemberRow
    <2>3. facts' = facts
      BY DEF RedeemDoes
    <2>4. \A j \in DOMAIN facts : facts[j][2] # e
      BY <2>1, Sizes, FactFields DEF IdsUsed, Inv, TableInv
    <2>5. \A j \in DOMAIN facts : facts[j] # <<"admitted", e>>
      BY <2>4
    <2>6. \A y \in ActiveMembers' :
             \/ y \in ActiveMembers /\ members'[y] = members[y]
             \/ members'[y].enrollment = e
      BY <2>1, <2>2 DEF ActiveMembers
    <2>7. ASSUME NEW y \in ActiveMembers'
          PROVE  /\ \A j \in DOMAIN facts' :
                       facts'[j][2] = members'[y].enrollment
                         => facts'[j][1] \in {"admitted", "approved"}
                 /\ \A j \in DOMAIN facts' : facts'[j] = <<"admitted", members'[y].enrollment>> =>
                       \E k \in j + 1 .. Len(facts') :
                          facts'[k] = <<"approved", members'[y].enrollment>>
      <3>1. CASE members'[y].enrollment = e
        BY <2>3, <2>4, <2>5, <3>1
      <3>2. CASE y \in ActiveMembers /\ members'[y] = members[y]
        BY <2>3, <3>2 DEF MemberFacts, Inv, FactInv
      <3> QED
        BY <2>6, <3>1, <3>2
    <2> QED
      BY <2>7 DEF MemberFacts
  <1>4. FactsFit'
    <2>1. NewMember(d, e, l, <<"invite">>) /\ d \in Devices /\ e = enrolled + 1
      BY RedeemedMember DEF RedeemDoes
    <2>2. /\ IsFiniteSet(ActiveMembers') /\ ActiveMembers' = ActiveMembers \cup {d}
          /\ Cardinality(ActiveMembers') = Cardinality(ActiveMembers) + 1
          /\ members'[d].enrollment = e /\ members'[d].label = l
          /\ members'[d].by = <<"invite">>
          /\ members'[d].revision = 1 /\ ~members'[d].revoked
          /\ \A x \in Devices : /\ IsMember(x)' <=> IsMember(x) \/ x = d
                                /\ x # d => members'[x] = members[x]
      BY <2>1, NewMemberRow
    <2>3. /\ floor' \in Prunable /\ UNCHANGED <<facts, pending>>
          /\ Occupancy(floor') + 1 <= MaxFactRows
      BY DEF RedeemDoes
    <2>4. Cardinality(ActiveMembers') = Cardinality(ActiveMembers) + 1
      BY <2>1, <2>2
    <2> QED
      BY <2>3, <2>4, PrunableKeeps, Sizes, Limits DEF FactsFit, Occupancy
  <1> QED
    BY <1>1, <1>2, <1>3, <1>4 DEF FactInv

\* No command admits a member that comes by invite.
LEMMA RedeemKeepsReceiptInv ==
    ASSUME Inv, NEW d, NEW l, NEW i, NEW e, RedeemDoes(d, l, i, e)
    PROVE  ReceiptInv'
  <1>1. KeysUnique'
    BY DEF RedeemDoes, KeysUnique, Inv, ReceiptInv
  <1>2. SinceInLog'
    BY DEF RedeemDoes, SinceInLog, Inv, ReceiptInv
  <1>3. LastKnown'
    BY DEF RedeemDoes, LastKnown, Inv, ReceiptInv
  <1>4. AdmittersKnown'
    <2>1. NewMember(d, e, l, <<"invite">>) /\ d \in Devices /\ e = enrolled + 1
      BY RedeemedMember DEF RedeemDoes
    <2>2. /\ IsFiniteSet(ActiveMembers') /\ ActiveMembers' = ActiveMembers \cup {d}
          /\ Cardinality(ActiveMembers') = Cardinality(ActiveMembers) + 1
          /\ members'[d].enrollment = e /\ members'[d].label = l
          /\ members'[d].by = <<"invite">>
          /\ members'[d].revision = 1 /\ ~members'[d].revoked
          /\ \A x \in Devices : /\ IsMember(x)' <=> IsMember(x) \/ x = d
                                /\ x # d => members'[x] = members[x]
      BY <2>1, NewMemberRow
    <2>3. last' = last
      BY DEF RedeemDoes
    <2>4. ASSUME NEW y \in Devices, NEW a \in Adapters, NEW m \in Commands,
                 IsMember(y)', members'[y].by = <<a, m>>
          PROVE  m <= last[a]
      <3>1. y # d
        BY <2>1, <2>4, <2>2, TupleLengths
      <3> QED
        BY <2>1, <2>4, <3>1, <2>2 DEF AdmittersKnown, Inv, ReceiptInv
    <2> QED
      BY <2>3, <2>4 DEF AdmittersKnown
  <1>5. ReceiptsTrue'
    <2>1. NewMember(d, e, l, <<"invite">>) /\ d \in Devices /\ e = enrolled + 1
      BY RedeemedMember DEF RedeemDoes
    <2>2. /\ IsFiniteSet(ActiveMembers') /\ ActiveMembers' = ActiveMembers \cup {d}
          /\ Cardinality(ActiveMembers') = Cardinality(ActiveMembers) + 1
          /\ members'[d].enrollment = e /\ members'[d].label = l
          /\ members'[d].by = <<"invite">>
          /\ members'[d].revision = 1 /\ ~members'[d].revoked
          /\ \A x \in Devices : /\ IsMember(x)' <=> IsMember(x) \/ x = d
                                /\ x # d => members'[x] = members[x]
      BY <2>1, NewMemberRow
    <2>3. UNCHANGED <<receipts, facts>> /\ ~IsMember(d)
      BY DEF RedeemDoes, Redeems
    <2>4. ASSUME NEW r \in receipts, NEW y \in Devices
          PROVE  Admits(y, r)' <=> Admits(y, r)
      <3>1. CASE y = d
        BY <2>1, <2>3, <3>1, <2>2, TupleLengths DEF Admits
      <3>2. CASE y # d
        BY <2>1, <3>2, <2>2 DEF Admits
      <3> QED
        BY <3>1, <3>2
    <2>5. Truths'
      BY <2>3, <2>4, InvTruths DEF Truths, Recorded
    <2> QED
      BY <2>3, <2>5, Sizes DEF Truths, ReceiptsTrue, Admits, Recorded
  <1>6. AdmittedIsOpen'
    BY DEF RedeemDoes, AdmittedIsOpen, Admitted, Inv, ReceiptInv
  <1> QED
    BY <1>1, <1>2, <1>3, <1>4, <1>5, <1>6 DEF ReceiptInv

\* The invariant survives a redemption.
LEMMA RedeemKeepsInv ==
    ASSUME Inv, NEW d, NEW l, NEW i, NEW e, RedeemDoes(d, l, i, e)
    PROVE  Inv'
  BY RedeemKeepsTypes, RedeemKeepsTableInv, RedeemKeepsFactInv, RedeemKeepsReceiptInv DEF Inv

\* Invites go and the floor rises within the log.
LEMMA PruneKeepsTypes ==
    ASSUME Inv, PruneDoes
    PROVE  Types'
  <1>1. CountersType'
    BY DEF PruneDoes, CountersType, Inv, Types
  <1>2. MembersType'
    BY DEF PruneDoes, MembersType, Inv, Types
  <1>3. PendingType'
    BY DEF PruneDoes, PendingType, Inv, Types
  <1>4. InvitesType'
    BY DEF PruneDoes, InvitesType, Inv, Types
  <1>5. FactsType'
    BY PrunableKeeps DEF PruneDoes, FactsType, Inv, Types
  <1>6. ReceiptsType'
    BY DEF PruneDoes, ReceiptsType, Inv, Types
  <1>7. LastType'
    BY DEF PruneDoes, LastType, Inv, Types
  <1>8. CallsType'
    BY DEF PruneDoes, CallsType, Inv, Types
  <1>9. ToldType'
    BY DEF PruneDoes, ToldType, Inv, Types
  <1> QED
    BY <1>1, <1>2, <1>3, <1>4, <1>5, <1>6, <1>7, <1>8, <1>9 DEF Types

\* What is left of the invites was exclusive before.
LEMMA PruneKeepsTableInv ==
    ASSUME Inv, PruneDoes
    PROVE  TableInv'
  <1>1. Finite'
    BY DEF PruneDoes, Finite, ActiveMembers, Active, IsMember, Inv, TableInv
  <1>2. IdsUsed'
    BY DEF PruneDoes, IdsUsed, MembersType, PendingType, PendingRows, FactsType, Extends,
      Appends, CountersType, Inv, TableInv, Types
  <1>3. Revisions'
    BY DEF PruneDoes, Revisions, IsMember, Inv, TableInv
  <1>4. EnrollmentsExclusive'
    BY DEF PruneDoes, EnrollmentsExclusive, IsMember, Inv, TableInv
  <1>5. LabelsExclusive'
    <2>1. /\ MemberKeys' = MemberKeys /\ PendingKeys' = PendingKeys
          /\ \A d \in Devices : IsMember(d)' <=> IsMember(d)
      BY DEF PruneDoes, MemberKeys, PendingKeys, IsMember
    <2>2. InviteKeys(invites)' \subseteq InviteKeys(invites) /\ invites' \subseteq invites
      BY DEF PruneDoes, InviteKeys
    <2>3. members' = members /\ pending' = pending
      BY DEF PruneDoes
    <2> QED
      BY <2>1, <2>2, <2>3 DEF LabelsExclusive, IsMember, Inv, TableInv
  <1>6. InvitesHaveIssuers'
    BY DEF PruneDoes, InvitesHaveIssuers, Active, IsMember, Inv, TableInv
  <1> QED
    BY <1>1, <1>2, <1>3, <1>4, <1>5, <1>6 DEF TableInv

\* No admission of a pending enrollment is pruned.
LEMMA PruneKeepsFactInv ==
    ASSUME Inv, PruneDoes
    PROVE  FactInv'
  <1>1. FactsOnce'
    BY DEF PruneDoes, FactsOnce, FactInv, Inv
  <1>2. PendingFacts'
    BY PrunableKeeps DEF PruneDoes, FactInv, PendingFacts, Inv
  <1>3. MemberFacts'
    BY DEF PruneDoes, MemberFacts, ActiveMembers, Active, IsMember, FactInv, Inv
  <1>4. FactsFit'
    <2>1. ActiveMembers' = ActiveMembers
      BY DEF PruneDoes, ActiveMembers, Active, IsMember
    <2> QED
      BY <2>1, PrunableKeeps, Sizes, Limits DEF PruneDoes, FactInv, FactsFit, Occupancy, Inv
  <1> QED
    BY <1>1, <1>2, <1>3, <1>4 DEF FactInv

\* Receipts are about every fact there ever was, pruned or not.
LEMMA PruneKeepsReceiptInv ==
    ASSUME Inv, PruneDoes
    PROVE  ReceiptInv'
  <1>1. KeysUnique'
    BY DEF PruneDoes, KeysUnique, Inv, ReceiptInv
  <1>2. SinceInLog'
    BY DEF PruneDoes, SinceInLog, Inv, ReceiptInv
  <1>3. LastKnown'
    BY DEF PruneDoes, LastKnown, Inv, ReceiptInv
  <1>4. AdmittersKnown'
    BY DEF PruneDoes, AdmittersKnown, IsMember, Inv, ReceiptInv
  <1>5. ReceiptsTrue'
    BY DEF PruneDoes, ReceiptsTrue, IsMember, Inv, ReceiptInv
  <1>6. AdmittedIsOpen'
    BY DEF PruneDoes, AdmittedIsOpen, Admitted, Inv, ReceiptInv
  <1> QED
    BY <1>1, <1>2, <1>3, <1>4, <1>5, <1>6 DEF ReceiptInv

\* The invariant survives pruning.
LEMMA PruneKeepsInv ==
    ASSUME Inv, PruneDoes
    PROVE  Inv'
  BY PruneKeepsTypes, PruneKeepsTableInv, PruneKeepsFactInv, PruneKeepsReceiptInv DEF Inv

\* A new invite has an identifier within the bound.
LEMMA InviteKeepsTypes ==
    ASSUME Inv, NEW x, InviteDoes(x)
    PROVE  Types'
  <1>1. CountersType'
    BY Limits DEF InviteDoes, CountersType, Inv, Types
  <1>2. MembersType'
    BY DEF InviteDoes, MembersType, Inv, Types
  <1>3. PendingType'
    BY DEF InviteDoes, PendingType, Inv, Types
  <1>4. InvitesType'
    BY DEF InviteDoes, InvitesType, Inv, Types
  <1>5. FactsType'
    BY DEF InviteDoes, FactsType, Inv, Types
  <1>6. ReceiptsType'
    BY DEF InviteDoes, ReceiptsType, Inv, Types
  <1>7. LastType'
    BY DEF InviteDoes, LastType, Inv, Types
  <1>8. CallsType'
    BY DEF InviteDoes, CallsType, Inv, Types
  <1>9. ToldType'
    BY DEF InviteDoes, ToldType, Inv, Types
  <1> QED
    BY <1>1, <1>2, <1>3, <1>4, <1>5, <1>6, <1>7, <1>8, <1>9 DEF Types

\* Its label is free in the three tables, and its issuer is active.
LEMMA InviteKeepsTableInv ==
    ASSUME Inv, NEW x, InviteDoes(x)
    PROVE  TableInv'
  <1>1. Finite'
    BY DEF InviteDoes, Finite, ActiveMembers, Active, IsMember, Inv, TableInv
  <1>2. IdsUsed'
    <2>1. \A i \in invites' : i = x \/ i \in invites
      BY DEF InviteDoes
    <2> QED
      BY <2>1, Sizes DEF InviteDoes, IdsUsed, InvitesType, InviteRows, Inv, TableInv, Types
  <1>3. Revisions'
    BY DEF InviteDoes, Revisions, IsMember, Inv, TableInv
  <1>4. EnrollmentsExclusive'
    BY DEF InviteDoes, EnrollmentsExclusive, IsMember, Inv, TableInv
  <1>5. LabelsExclusive'
    <2>1. Apart'
      <3>1. PICK live \in SUBSET invites :
                LabelKey[x.label] \notin InviteKeys(live) /\ invites' = live \cup {x}
        BY DEF InviteDoes
      <3>2. \A i \in live : LabelKey[i.label] # LabelKey[x.label]
        BY <3>1 DEF InviteKeys
      <3>3. \A d \in Devices : IsMember(d) => LabelKey[members[d].label] # LabelKey[x.label]
        BY DEF InviteDoes, MemberKeys
      <3>4. \A p \in pending : LabelKey[p.label] # LabelKey[x.label]
        BY DEF InviteDoes, PendingKeys
      <3>5. members' = members /\ pending' = pending
        BY DEF InviteDoes
      <3> QED
        BY <3>1, <3>2, <3>3, <3>4, <3>5, InvApart DEF Apart, IsMember
    <2> QED
      BY <2>1 DEF Apart, LabelsExclusive, MemberKeys, PendingKeys, InviteKeys, Inv, TableInv
  <1>6. InvitesHaveIssuers'
    BY DEF InviteDoes, InvitesHaveIssuers, Active, IsMember, Inv, TableInv
  <1> QED
    BY <1>1, <1>2, <1>3, <1>4, <1>5, <1>6 DEF TableInv

\* The log is the same.
LEMMA InviteKeepsFactInv ==
    ASSUME Inv, NEW x, InviteDoes(x)
    PROVE  FactInv'
  <1>1. FactsOnce'
    BY DEF InviteDoes, FactsOnce, FactInv, Inv
  <1>2. PendingFacts'
    BY DEF InviteDoes, PendingFacts, FactInv, Inv
  <1>3. MemberFacts'
    BY DEF InviteDoes, MemberFacts, ActiveMembers, Active, IsMember, FactInv, Inv
  <1>4. FactsFit'
    BY DEF InviteDoes, FactsFit, Occupancy, ActiveMembers, Active, IsMember, FactInv, Inv
  <1> QED
    BY <1>1, <1>2, <1>3, <1>4 DEF FactInv

\* So are the receipts.
LEMMA InviteKeepsReceiptInv ==
    ASSUME Inv, NEW x, InviteDoes(x)
    PROVE  ReceiptInv'
  <1>1. KeysUnique'
    BY DEF InviteDoes, KeysUnique, Inv, ReceiptInv
  <1>2. SinceInLog'
    BY DEF InviteDoes, SinceInLog, Inv, ReceiptInv
  <1>3. LastKnown'
    BY DEF InviteDoes, LastKnown, Inv, ReceiptInv
  <1>4. AdmittersKnown'
    BY DEF InviteDoes, AdmittersKnown, IsMember, Inv, ReceiptInv
  <1>5. ReceiptsTrue'
    BY DEF InviteDoes, ReceiptsTrue, IsMember, Inv, ReceiptInv
  <1>6. AdmittedIsOpen'
    BY DEF InviteDoes, AdmittedIsOpen, Admitted, Inv, ReceiptInv
  <1> QED
    BY <1>1, <1>2, <1>3, <1>4, <1>5, <1>6 DEF ReceiptInv

\* The invariant survives a new invite.
LEMMA InviteKeepsInv ==
    ASSUME Inv, NEW x, InviteDoes(x)
    PROVE  Inv'
  BY InviteKeepsTypes, InviteKeepsTableInv, InviteKeepsFactInv, InviteKeepsReceiptInv DEF Inv

\* A revoked member keeps its row, at revision 2.
LEMMA RevokeKeepsTypes ==
    ASSUME Inv, NEW d, RevokeDoes(d)
    PROVE  Types'
  <1>1. CountersType'
    BY DEF RevokeDoes, CountersType, Inv, Types
  <1>2. MembersType'
    BY DEF RevokeDoes
  <1>3. PendingType'
    BY DEF RevokeDoes, PendingType, Inv, Types
  <1>4. InvitesType'
    BY DEF RevokeDoes, InvitesType, Inv, Types
  <1>5. FactsType'
    BY Sizes, AppendedLog DEF RevokeDoes, FactsType, Appends, Extends, Inv, Types
  <1>6. ReceiptsType'
    BY DEF RevokeDoes, ReceiptsType, Inv, Types
  <1>7. LastType'
    BY DEF RevokeDoes, LastType, Inv, Types
  <1>8. CallsType'
    BY DEF RevokeDoes, CallsType, Inv, Types
  <1>9. ToldType'
    BY DEF RevokeDoes, ToldType, Inv, Types
  <1> QED
    BY <1>1, <1>2, <1>3, <1>4, <1>5, <1>6, <1>7, <1>8, <1>9 DEF Types

\* It keeps its label, and its invites go.
LEMMA RevokeKeepsTableInv ==
    ASSUME Inv, NEW d, RevokeDoes(d)
    PROVE  TableInv'
  <1>1. Finite'
    BY RevokedMember, FS_RemoveElement DEF RevokeDoes, Finite, Inv, TableInv
  <1>2. IdsUsed'
    <2>1. /\ \A e \in Devices : members'[e].enrollment <= enrolled
          /\ \A p \in pending : p.enrollment <= enrolled
          /\ \A i \in invites : i.id <= invited
      BY RevokedMember DEF IdsUsed, Inv, TableInv
    <2>2. ASSUME NEW j \in DOMAIN facts'
          PROVE  facts'[j][2] <= enrolled
      <3>1. Appends(<<"revoked", members[d].enrollment>>) /\ d \in Devices
        BY DEF RevokeDoes
      <3>2. CASE j \in 1 .. Len(facts)
        BY <3>1, <3>2, AppendedLog, Sizes DEF IdsUsed, Inv, TableInv
      <3>3. CASE j = Len(facts) + 1
        BY <3>1, <3>3, AppendedLog DEF IdsUsed, Inv, TableInv
      <3> QED
        BY <3>1, <3>2, <3>3, AppendedLog
    <2>3. invites' \subseteq invites /\ UNCHANGED <<pending, enrolled, invited>>
      BY DEF RevokeDoes
    <2> QED
      BY <2>1, <2>2, <2>3 DEF IdsUsed, Inv, TableInv
  <1>3. Revisions'
    BY RevokedMember DEF Revisions, IsMember, Inv, TableInv
  <1>4. EnrollmentsExclusive'
    <2>1. pending' = pending
      BY DEF RevokeDoes
    <2> QED
      BY <2>1, RevokedMember DEF EnrollmentsExclusive, Inv, TableInv
  <1>5. LabelsExclusive'
    <2>1. Apart'
      <3>1. pending' = pending /\ invites' \subseteq invites
        BY DEF RevokeDoes
      <3>2. \A e \in Devices : /\ IsMember(e)' <=> IsMember(e)
                               /\ IsMember(e) => members'[e].label = members[e].label
        BY RevokedMember
      <3>3. \A p \in pending : p.device \in Devices
        BY DEF PendingType, PendingRows, Inv, Types
      <3>4. Apart
        BY InvApart
      <3>5. \A x, y \in Devices : IsMember(x)' /\ IsMember(y)' /\ x # y
               => LabelKey[members'[x].label] # LabelKey[members'[y].label]
        BY <3>2, <3>4 DEF Apart
      <3>6. \A x \in Devices, p \in pending' :
               IsMember(x)' => LabelKey[members'[x].label] # LabelKey[p.label]
        BY <3>1, <3>2, <3>4 DEF Apart
      <3>7. \A x \in Devices, i \in invites' :
               IsMember(x)' => LabelKey[members'[x].label] # LabelKey[i.label]
        BY <3>1, <3>2, <3>4 DEF Apart
      <3>8. \A p \in pending' : ~IsMember(p.device)'
        BY <3>1, <3>2, <3>3, <3>4 DEF Apart
      <3> QED
        BY <3>1, <3>4, <3>5, <3>6, <3>7, <3>8 DEF Apart
    <2> QED
      BY <2>1 DEF Apart, LabelsExclusive, MemberKeys, PendingKeys, InviteKeys, Inv, TableInv
  <1>6. InvitesHaveIssuers'
    <2>1. \A i \in invites' : i \in invites /\ i.issuer # d
      BY DEF RevokeDoes
    <2>2. \A e \in Devices : e # d /\ Active(e) => Active(e)'
      BY RevokedMember DEF Active, IsMember
    <2>3. \A i \in invites : i.issuer \in Devices \cup {Local}
      BY DEF InvitesType, InviteRows, Actors, Inv, Types
    <2> QED
      BY <2>1, <2>2, <2>3 DEF InvitesHaveIssuers, Inv, TableInv
  <1> QED
    BY <1>1, <1>2, <1>3, <1>4, <1>5, <1>6 DEF TableInv

\* The revocation is recorded once and takes the row the member had reserved.
LEMMA RevokeKeepsFactInv ==
    ASSUME Inv, NEW d, RevokeDoes(d)
    PROVE  FactInv'
  <1>1. FactsOnce'
    <2>1. Appends(<<"revoked", members[d].enrollment>>) /\ d \in ActiveMembers
      BY RevokedMember DEF RevokeDoes
    <2> QED
      BY <2>1, AppendKeepsOnce, RevokedOnce
  <1>2. PendingFacts'
    <2>1. ASSUME NEW p \in pending
          PROVE  members[d].enrollment # p.enrollment
      BY DEF RevokeDoes, TableInv, EnrollmentsExclusive, Inv
    <2>2. <<"revoked", members[d].enrollment>>[2] = members[d].enrollment
      OBVIOUS
    <2>3. /\ Appends(<<"revoked", members[d].enrollment>>)
          /\ floor' = floor /\ pending' = pending
      BY DEF RevokeDoes
    <2> QED
      BY <2>1, <2>2, <2>3, AppendKeepsPending DEF PendingFacts
  <1>3. MemberFacts'
    <2>1. ASSUME NEW e \in ActiveMembers'
          PROVE  /\ e \in ActiveMembers
                 /\ members'[e].enrollment = members[e].enrollment
                 /\ members[d].enrollment # members[e].enrollment
      <3>1. e \in ActiveMembers /\ e # d /\ d \in ActiveMembers /\ e \in Devices
        BY RevokedMember DEF ActiveMembers
      <3> QED
        BY <3>1, RevokedMember DEF ActiveMembers, Active, TableInv, EnrollmentsExclusive, Inv
    <2>2. <<"revoked", members[d].enrollment>>[2] = members[d].enrollment
      OBVIOUS
    <2>3. Appends(<<"revoked", members[d].enrollment>>)
      BY DEF RevokeDoes
    <2>4. ASSUME NEW e \in ActiveMembers'
          PROVE  /\ \A j \in DOMAIN facts' :
                       facts'[j][2] = members'[e].enrollment
                         => facts'[j][1] \in {"admitted", "approved"}
                 /\ \A j \in DOMAIN facts' : facts'[j] = <<"admitted", members'[e].enrollment>> =>
                       \E k \in j + 1 .. Len(facts') :
                          facts'[k] = <<"approved", members'[e].enrollment>>
      <3>1. /\ \A j \in DOMAIN facts' :
                  facts'[j][2] = members[e].enrollment
                    => facts'[j][1] \in {"admitted", "approved"}
            /\ \A j \in DOMAIN facts' : facts'[j] = <<"admitted", members[e].enrollment>> =>
                  \E k \in j + 1 .. Len(facts') :
                     facts'[k] = <<"approved", members[e].enrollment>>
        BY <2>1, <2>2, <2>3, AppendKeepsMember
      <3> QED
        BY <2>1, <3>1
    <2> QED
      BY <2>4 DEF MemberFacts
  <1>4. FactsFit'
    <2>1. Cardinality(ActiveMembers') = Cardinality(ActiveMembers) - 1
      BY RevokedMember, FS_RemoveElement DEF TableInv, Finite, Inv
    <2>2. Len(facts') = Len(facts) + 1 /\ floor' = floor /\ pending' = pending
      BY DEF RevokeDoes, Appends
    <2> QED
      BY <2>1, <2>2, Sizes, Limits DEF FactsFit, Occupancy, Inv, FactInv
  <1> QED
    BY <1>1, <1>2, <1>3, <1>4 DEF FactInv

\* A revocation settles no enrollment, and the member keeps who admitted it.
LEMMA RevokeKeepsReceiptInv ==
    ASSUME Inv, NEW d, RevokeDoes(d)
    PROVE  ReceiptInv'
  <1>1. KeysUnique'
    BY DEF RevokeDoes, KeysUnique, Inv, ReceiptInv
  <1>2. SinceInLog'
    BY Sizes DEF RevokeDoes, SinceInLog, ReceiptsType, ReceiptRows, Appends, Inv, ReceiptInv,
      Types
  <1>3. LastKnown'
    BY DEF RevokeDoes, LastKnown, Inv, ReceiptInv
  <1>4. AdmittersKnown'
    BY RevokedMember DEF RevokeDoes, AdmittersKnown, Inv, ReceiptInv
  <1>5. ReceiptsTrue'
    <2>1. Truths'
      <3>1. receipts' = receipts /\ Extends
        BY DEF RevokeDoes, Appends
      <3>2. ASSUME NEW r \in receipts, NEW e \in Devices
            PROVE  Admits(e, r)' <=> Admits(e, r)
        BY RevokedMember DEF Admits
      <3> QED
        BY <3>1, <3>2, InvTruths, ExtendedLog DEF Truths
    <2>2. DOMAIN facts' = 1 .. Len(facts')
      BY ExtendedLog DEF RevokeDoes, Appends
    <2> QED
      BY <2>1, <2>2 DEF Truths, ReceiptsTrue, Admits, Recorded, Inv, ReceiptInv
  <1>6. AdmittedIsOpen'
    <2>1. \A r \in receipts : r.since \in Nat
      BY DEF ReceiptsType, ReceiptRows, Inv, Types
    <2>2. Appends(<<"revoked", members[d].enrollment>>) /\ receipts' = receipts
      BY DEF RevokeDoes
    <2>3. ASSUME NEW r \in Admitted(receipts), NEW i \in r.since + 1 .. Len(facts')
          PROVE  facts'[i] \notin {<<"approved", r.enrollment>>, <<"expired", r.enrollment>>}
      <3>1. CASE i = Len(facts) + 1
        BY <2>2, <3>1, AppendedLog
      <3>2. CASE i \in r.since + 1 .. Len(facts)
        <4>1. i \in 1 .. Len(facts)
          BY <2>1, <3>2, Sizes DEF Admitted
        <4> QED
          BY <2>2, <3>2, <4>1, AppendedLog DEF AdmittedIsOpen, Inv, ReceiptInv
      <3> QED
        BY <2>1, <2>2, <3>1, <3>2, AppendedLog, Sizes DEF Admitted
    <2> QED
      BY <2>2, <2>3 DEF AdmittedIsOpen, Admitted, Inv, ReceiptInv
  <1> QED
    BY <1>1, <1>2, <1>3, <1>4, <1>5, <1>6 DEF ReceiptInv

\* The invariant survives a revocation.
LEMMA RevokeKeepsInv ==
    ASSUME Inv, NEW d, RevokeDoes(d)
    PROVE  Inv'
  BY RevokeKeepsTypes, RevokeKeepsTableInv, RevokeKeepsFactInv, RevokeKeepsReceiptInv DEF Inv

\* A submitted command has a receipt.
LEMMA SubmitKeepsTypes ==
    ASSUME Inv, NEW a, NEW m, NEW x, SubmitDoes(a, m, x)
    PROVE  Types'
  <1>1. CountersType'
    BY DEF SubmitDoes, CountersType, Inv, Types
  <1>2. MembersType'
    BY DEF SubmitDoes, MembersType, Inv, Types
  <1>3. PendingType'
    BY DEF SubmitDoes, PendingType, Inv, Types
  <1>4. InvitesType'
    BY DEF SubmitDoes, InvitesType, Inv, Types
  <1>5. FactsType'
    BY DEF SubmitDoes, FactsType, Inv, Types
  <1>6. ReceiptsType'
    BY DEF SubmitDoes, ReceiptsType, Inv, Types
  <1>7. LastType'
    BY DEF SubmitDoes
  <1>8. CallsType'
    BY DEF SubmitDoes, CallsType, Inv, Types
  <1>9. ToldType'
    BY DEF SubmitDoes, ToldType, Inv, Types
  <1> QED
    BY <1>1, <1>2, <1>3, <1>4, <1>5, <1>6, <1>7, <1>8, <1>9 DEF Types

\* The tables of enrollments are the same.
LEMMA SubmitKeepsTableInv ==
    ASSUME Inv, NEW a, NEW m, NEW x, SubmitDoes(a, m, x)
    PROVE  TableInv'
  <1>1. Finite'
    <2>1. PICK kept \in SUBSET receipts : receipts' = kept \cup {x}
      BY DEF SubmitDoes
    <2>2. IsFiniteSet(receipts')
      BY <2>1, FS_Subset, FS_AddElement DEF Finite, Inv, TableInv
    <2>3. ActiveMembers' = ActiveMembers /\ pending' = pending
      BY DEF SubmitDoes, ActiveMembers, Active, IsMember
    <2> QED
      BY <2>2, <2>3 DEF Finite, Inv, TableInv
  <1>2. IdsUsed'
    BY DEF SubmitDoes, IdsUsed, Inv, TableInv
  <1>3. Revisions'
    BY DEF SubmitDoes, Revisions, IsMember, Inv, TableInv
  <1>4. EnrollmentsExclusive'
    BY DEF SubmitDoes, EnrollmentsExclusive, IsMember, Inv, TableInv
  <1>5. LabelsExclusive'
    <2>1. UNCHANGED <<members, pending, invites>>
      BY DEF SubmitDoes
    <2> QED
      BY <2>1 DEF LabelsExclusive, IsMember, MemberKeys, PendingKeys, InviteKeys, Inv, TableInv
  <1>6. InvitesHaveIssuers'
    BY DEF SubmitDoes, InvitesHaveIssuers, Active, IsMember, Inv, TableInv
  <1> QED
    BY <1>1, <1>2, <1>3, <1>4, <1>5, <1>6 DEF TableInv

\* So is the log.
LEMMA SubmitKeepsFactInv ==
    ASSUME Inv, NEW a, NEW m, NEW x, SubmitDoes(a, m, x)
    PROVE  FactInv'
  <1>1. FactsOnce'
    BY DEF SubmitDoes, FactsOnce, FactInv, Inv
  <1>2. PendingFacts'
    BY DEF SubmitDoes, PendingFacts, FactInv, Inv
  <1>3. MemberFacts'
    BY DEF SubmitDoes, MemberFacts, ActiveMembers, Active, IsMember, FactInv, Inv
  <1>4. FactsFit'
    BY DEF SubmitDoes, FactsFit, Occupancy, ActiveMembers, Active, IsMember, FactInv, Inv
  <1> QED
    BY <1>1, <1>2, <1>3, <1>4 DEF FactInv

\* The new receipt has a key no other has, no member was admitted by it, and
\* nothing was recorded since.
LEMMA SubmitKeepsReceiptInv ==
    ASSUME Inv, NEW a, NEW m, NEW x, SubmitDoes(a, m, x)
    PROVE  ReceiptInv'
  <1>1. KeysUnique'
    <2>1. PICK kept \in SUBSET receipts : receipts' = kept \cup {x}
      BY DEF SubmitDoes
    <2>2. \A r \in receipts : ~(r.adapter = x.adapter /\ r.command = x.command)
      BY DEF SubmitDoes, FreshCommand, Keys
    <2> QED
      BY <2>1, <2>2 DEF KeysUnique, Inv, ReceiptInv
  <1>2. SinceInLog'
    <2>1. PICK kept \in SUBSET receipts : receipts' = kept \cup {x}
      BY DEF SubmitDoes
    <2> QED
      BY <2>1, Sizes DEF SubmitDoes, SinceInLog, Inv, ReceiptInv
  <1>3. LastKnown'
    <2>1. PICK kept \in SUBSET receipts : receipts' = kept \cup {x}
      BY DEF SubmitDoes
    <2>2. x.adapter \in Adapters /\ x.command \in Nat /\ x.command > last[x.adapter]
      BY Limits DEF SubmitDoes, FreshCommand, ReceiptRows
    <2>3. \A b \in Adapters : last[b] \in Nat /\ last'[b] \in Nat /\ last[b] <= last'[b]
      BY <2>2 DEF SubmitDoes, LastType, Inv, Types
    <2>4. \A r \in receipts : r.command \in Nat /\ r.adapter \in Adapters
      BY Limits DEF ReceiptsType, ReceiptRows, Inv, Types
    <2>5. last'[x.adapter] = x.command
      BY DEF SubmitDoes
    <2>6. ASSUME NEW r \in receipts
          PROVE  r.command <= last'[r.adapter]
      BY <2>3, <2>4 DEF LastKnown, Inv, ReceiptInv
    <2> QED
      BY <2>1, <2>2, <2>5, <2>6 DEF LastKnown
  <1>4. AdmittersKnown'
    <2>1. x.adapter \in Adapters /\ x.command \in Nat /\ x.command > last[x.adapter]
      BY Limits DEF SubmitDoes, FreshCommand, ReceiptRows
    <2>2. \A b \in Adapters : last[b] \in Nat /\ last'[b] \in Nat /\ last[b] <= last'[b]
      BY <2>1 DEF SubmitDoes, LastType, Inv, Types
    <2>3. members' = members
      BY DEF SubmitDoes
    <2>4. \A b \in Adapters, c \in Commands : c <= last[b] => c <= last'[b]
      BY <2>2, Limits
    <2> QED
      BY <2>3, <2>4 DEF AdmittersKnown, IsMember, Inv, ReceiptInv
  <1>5. ReceiptsTrue'
    <2>1. PICK kept \in SUBSET receipts : receipts' = kept \cup {x}
      BY DEF SubmitDoes
    <2>2. x.adapter \in Adapters /\ x.command \in Nat /\ x.command > last[x.adapter]
      BY Limits DEF SubmitDoes, FreshCommand, ReceiptRows
    <2>3. x.command \in Commands /\ x.state = "admitted" /\ x.code = "none"
      BY DEF SubmitDoes, ReceiptRows
    <2>4. ASSUME NEW d \in Devices
          PROVE  ~Admits(d, x)
      <3>1. last[x.adapter] \in Nat
        BY <2>2 DEF LastType, Inv, Types
      <3> QED
        BY <2>2, <2>3, <3>1 DEF AdmittersKnown, Admits, Inv, ReceiptInv
    <2>5. members' = members /\ facts' = facts
      BY DEF SubmitDoes
    <2>6. Truths'
      BY <2>1, <2>3, <2>4, <2>5, InvTruths DEF Truths, Admits, Recorded, IsMember
    <2> QED
      BY <2>5, <2>6, Sizes DEF Truths, ReceiptsTrue, Admits, Recorded
  <1>6. AdmittedIsOpen'
    <2>1. PICK kept \in SUBSET receipts : receipts' = kept \cup {x}
      BY DEF SubmitDoes
    <2>2. x.since = Len(facts) /\ facts' = facts
      BY DEF SubmitDoes
    <2> QED
      BY <2>1, <2>2, Sizes DEF AdmittedIsOpen, Admitted, Inv, ReceiptInv
  <1> QED
    BY <1>1, <1>2, <1>3, <1>4, <1>5, <1>6 DEF ReceiptInv

\* The invariant survives a submission.
LEMMA SubmitKeepsInv ==
    ASSUME Inv, NEW a, NEW m, NEW x, SubmitDoes(a, m, x)
    PROVE  Inv'
  BY SubmitKeepsTypes, SubmitKeepsTableInv, SubmitKeepsFactInv, SubmitKeepsReceiptInv DEF Inv

\* A rejected command keeps its receipt.
LEMMA RejectKeepsTypes ==
    ASSUME Inv, NEW R, NEW code, RejectDoes(R, code)
    PROVE  Types'
  <1>1. CountersType'
    BY DEF RejectDoes, CountersType, Inv, Types
  <1>2. MembersType'
    BY DEF RejectDoes, MembersType, Inv, Types
  <1>3. PendingType'
    BY DEF RejectDoes, PendingType, Inv, Types
  <1>4. InvitesType'
    BY DEF RejectDoes, InvitesType, Inv, Types
  <1>5. FactsType'
    BY DEF RejectDoes, FactsType, Inv, Types
  <1>6. ReceiptsType'
    BY RejectedReceipts DEF RejectDoes
  <1>7. LastType'
    BY DEF RejectDoes, LastType, Inv, Types
  <1>8. CallsType'
    BY DEF RejectDoes, CallsType, Inv, Types
  <1>9. ToldType'
    BY DEF RejectDoes, ToldType, Inv, Types
  <1> QED
    BY <1>1, <1>2, <1>3, <1>4, <1>5, <1>6, <1>7, <1>8, <1>9 DEF Types

\* The tables of enrollments are the same.
LEMMA RejectKeepsTableInv ==
    ASSUME Inv, NEW R, NEW code, RejectDoes(R, code)
    PROVE  TableInv'
  <1>1. Finite'
    <2>1. ActiveMembers' = ActiveMembers /\ pending' = pending
      BY DEF RejectDoes, ActiveMembers, Active, IsMember
    <2>2. IsFiniteSet(receipts')
      BY RejectedReceipts DEF RejectDoes
    <2> QED
      BY <2>1, <2>2 DEF Finite, Inv, TableInv
  <1>2. IdsUsed'
    BY DEF RejectDoes, IdsUsed, Inv, TableInv
  <1>3. Revisions'
    BY DEF RejectDoes, Revisions, IsMember, Inv, TableInv
  <1>4. EnrollmentsExclusive'
    BY DEF RejectDoes, EnrollmentsExclusive, IsMember, Inv, TableInv
  <1>5. LabelsExclusive'
    BY DEF RejectDoes, LabelsExclusive, IsMember, MemberKeys, PendingKeys, InviteKeys, Inv,
      TableInv
  <1>6. InvitesHaveIssuers'
    BY DEF RejectDoes, InvitesHaveIssuers, Active, IsMember, Inv, TableInv
  <1> QED
    BY <1>1, <1>2, <1>3, <1>4, <1>5, <1>6 DEF TableInv

\* So is the log.
LEMMA RejectKeepsFactInv ==
    ASSUME Inv, NEW R, NEW code, RejectDoes(R, code)
    PROVE  FactInv'
  <1>1. FactsOnce'
    BY DEF RejectDoes, FactsOnce, FactInv, Inv
  <1>2. PendingFacts'
    BY DEF RejectDoes, PendingFacts, FactInv, Inv
  <1>3. MemberFacts'
    BY DEF RejectDoes, MemberFacts, ActiveMembers, Active, IsMember, FactInv, Inv
  <1>4. FactsFit'
    BY DEF RejectDoes, FactsFit, Occupancy, ActiveMembers, Active, IsMember, FactInv, Inv
  <1> QED
    BY <1>1, <1>2, <1>3, <1>4 DEF FactInv

\* A rejected command had not been executed, and its reason is in the log.
LEMMA RejectKeepsReceiptInv ==
    ASSUME Inv, NEW R, NEW code, RejectDoes(R, code)
    PROVE  ReceiptInv'
  <1>1. KeysUnique'
    BY RejectedReceipts DEF RejectDoes
  <1>2. SinceInLog'
    <2>1. \A q \in receipts' : \E r \in receipts :
               /\ q.adapter = r.adapter /\ q.command = r.command
               /\ q.enrollment = r.enrollment /\ q.since = r.since
               /\ \/ r \notin R /\ q = r
                  \/ r \in R /\ r.state = "admitted" /\ q.state = "rejected" /\ q.code = code
      BY RejectedReceipts DEF RejectDoes
    <2> QED
      BY <2>1 DEF RejectDoes, SinceInLog, Inv, ReceiptInv
  <1>3. LastKnown'
    <2>1. \A q \in receipts' : \E r \in receipts :
               /\ q.adapter = r.adapter /\ q.command = r.command
               /\ q.enrollment = r.enrollment /\ q.since = r.since
               /\ \/ r \notin R /\ q = r
                  \/ r \in R /\ r.state = "admitted" /\ q.state = "rejected" /\ q.code = code
      BY RejectedReceipts DEF RejectDoes
    <2> QED
      BY <2>1 DEF RejectDoes, LastKnown, Inv, ReceiptInv
  <1>4. AdmittersKnown'
    BY DEF RejectDoes, AdmittersKnown, IsMember, Inv, ReceiptInv
  <1>5. ReceiptsTrue'
    <2>1. \A q \in receipts' : \E r \in receipts :
               /\ q.adapter = r.adapter /\ q.command = r.command
               /\ q.enrollment = r.enrollment /\ q.since = r.since
               /\ \/ r \notin R /\ q = r
                  \/ r \in R /\ r.state = "admitted" /\ q.state = "rejected" /\ q.code = code
      BY RejectedReceipts DEF RejectDoes
    <2>2. members' = members /\ facts' = facts
      BY DEF RejectDoes
    <2>3. /\ code = "enrollment_expired" => \A r \in R : Recorded("expired", r.enrollment)
          /\ code = "settled_elsewhere" => \A r \in R : Recorded("approved", r.enrollment)
      BY Sizes DEF RejectDoes, Recorded
    <2>4. \A k, e : Recorded(k, e)' <=> Recorded(k, e)
      BY <2>2 DEF Recorded
    <2>5. \A q \in receipts', r \in receipts, d \in Devices :
             q.adapter = r.adapter /\ q.command = r.command /\ q.enrollment = r.enrollment
             => (Admits(d, q)' <=> Admits(d, r))
      BY <2>2 DEF Admits, IsMember
    <2>6. ASSUME NEW q \in receipts'
          PROVE  /\ q.state = "committed" <=> \E d \in Devices : Admits(d, q)'
                 /\ q.code = "enrollment_expired" => Recorded("expired", q.enrollment)'
                 /\ q.code = "settled_elsewhere" => Recorded("approved", q.enrollment)'
      BY <2>1, <2>3, <2>4, <2>5, InvTruths DEF Truths
    <2> QED
      BY <2>2, <2>6, Sizes DEF ReceiptsTrue, Admits, Recorded
  <1>6. AdmittedIsOpen'
    <2>1. \A q \in receipts' : \E r \in receipts :
               /\ q.adapter = r.adapter /\ q.command = r.command
               /\ q.enrollment = r.enrollment /\ q.since = r.since
               /\ \/ r \notin R /\ q = r
                  \/ r \in R /\ r.state = "admitted" /\ q.state = "rejected" /\ q.code = code
      BY RejectedReceipts DEF RejectDoes
    <2>2. facts' = facts
      BY DEF RejectDoes
    <2>3. \A q \in receipts' : q.state = "admitted" => q \in receipts
      BY <2>1
    <2> QED
      BY <2>2, <2>3 DEF AdmittedIsOpen, Admitted, Inv, ReceiptInv
  <1> QED
    BY <1>1, <1>2, <1>3, <1>4, <1>5, <1>6 DEF ReceiptInv

\* The invariant survives a rejection.
LEMMA RejectKeepsInv ==
    ASSUME Inv, NEW R, NEW code, RejectDoes(R, code)
    PROVE  Inv'
  BY RejectKeepsTypes, RejectKeepsTableInv, RejectKeepsFactInv, RejectKeepsReceiptInv DEF Inv

(***************************************************************************)
(* The actions do what these operators say.                                *)
(***************************************************************************)
\* A call that returns leaves calls of the right type.
LEMMA CallReturns ==
    ASSUME Inv, NEW c, Return(c)
    PROVE  CallsType'
  BY DEF Inv, Types, CallsType, Return, Requests

\* A call that has settled knows when it began.
LEMMA SettledCall ==
    ASSUME Inv, NEW c \in Callers, calls[c].op = "settled"
    PROVE  calls[c].now \in Nat
  BY DEF Inv, Types, CallsType, Requests, Idle

\* A status call knows its device.
LEMMA StatusCall ==
    ASSUME Inv, NEW c \in Callers, calls[c].op = "status"
    PROVE  calls[c].device \in Devices
  BY DEF Inv, Types, CallsType, Requests, Idle

\* A call that is dropped changes no table.
LEMMA DropCallIsQuiet ==
    ASSUME Inv, NEW c \in Callers, DropCall(c)
    PROVE  QuietDoes
  <1>1. CallsType'
    BY CallReturns DEF DropCall
  <1> QED
    BY <1>1 DEF DropCall, QuietDoes, tables, Inv, Types, CountersType, ToldType

\* Neither does the clock.
LEMMA TickIsQuiet ==
    ASSUME Inv, Tick
    PROVE  QuietDoes
  BY Limits DEF Tick, QuietDoes, tables, Inv, Types, CountersType, ToldType, CallsType

\* Neither does a step that does nothing.
LEMMA StutterIsQuiet ==
    ASSUME Inv, UNCHANGED vars
    PROVE  QuietDoes
  BY DEF vars, QuietDoes, Inv, Types, CountersType, ToldType, CallsType

\* Learning something is not a change of the tables.
LEMMA Learning ==
    ASSUME Inv, NEW d \in Devices, NEW a \in Answers
    PROVE  [told EXCEPT ![d] = a] \in [Devices -> Answers]
  BY DEF Inv, Types, ToldType

\* The first query of a status request only reads.
LEMMA StatusOfMemberIsQuiet ==
    ASSUME Inv, NEW c \in Callers, NEW d \in Devices, StatusOfMember(c, d)
    PROVE  QuietDoes
  <1>1. CallsType'
    <2>1. CASE Return(c)
      BY <2>1, CallReturns
    <2>2. CASE calls' = [calls EXCEPT ![c] = [op |-> "status", now |-> @.now, device |-> d]]
      <3>1. [op |-> "status", now |-> calls[c].now, device |-> d] \in Requests
        BY SettledCall DEF StatusOfMember, Requests
      <3> QED
        BY <2>2, <3>1 DEF Inv, Types, CallsType
    <2> QED
      BY <2>1, <2>2 DEF StatusOfMember
  <1>2. ToldType'
    <2>1. CASE UNCHANGED told
      BY <2>1 DEF ToldType, Inv, Types
    <2>2. CASE Learn(d, IF Active(d) THEN "enrolled" ELSE "revoked")
      BY <2>2, Learning DEF Learn, ToldType, Answers
    <2> QED
      BY <2>1, <2>2 DEF StatusOfMember
  <1> QED
    BY <1>1, <1>2 DEF StatusOfMember, QuietDoes, tables, Inv, Types, CountersType

\* So does the second.
LEMMA StatusOfPendingIsQuiet ==
    ASSUME Inv, NEW c \in Callers, StatusOfPending(c)
    PROVE  QuietDoes
  <1>1. CallsType'
    BY CallReturns DEF StatusOfPending
  <1>2. ToldType'
    <2>1. calls[c].device \in Devices
      BY StatusCall DEF StatusOfPending
    <2>2. CASE UNCHANGED told
      BY <2>2 DEF ToldType, Inv, Types
    <2>3. CASE Learn(calls[c].device, "expired")
      BY <2>1, <2>3, Learning DEF Learn, ToldType, Answers
    <2> QED
      BY <2>2, <2>3 DEF StatusOfPending
  <1> QED
    BY <1>1, <1>2 DEF StatusOfPending, QuietDoes, tables, Inv, Types, CountersType

\* Pruning nothing is always allowed.
LEMMA FloorPrunable ==
    ASSUME Inv
    PROVE  floor \in Prunable
  BY Sizes DEF Prunable

\* Where rows fit, the least floor that makes room is a floor that does.
LEMMA RoomyLeast ==
    ASSUME Inv, NEW n \in Nat, Roomy(n) # {}
    PROVE  Least(Roomy(n)) \in Prunable /\ Occupancy(Least(Roomy(n))) + n <= MaxFactRows
  <1>1. Roomy(n) \subseteq Nat
    BY Sizes DEF Roomy, Prunable
  <1>2. Least(Roomy(n)) \in Roomy(n)
    BY <1>1, LeastIn
  <1> QED
    BY <1>2 DEF Roomy

\* RequestEnrollment answers from the tables or admits.
LEMMA RequestDoes ==
    ASSUME Inv, NEW c \in Callers, NEW d \in Devices, NEW l \in Labels, RequestEnrollment(c, d, l)
    PROVE  QuietDoes \/ \E x : AdmitDoes(x)
  <1>1. CallsType'
    BY CallReturns DEF RequestEnrollment
  <1>2. CASE AnswerMember(d, l) \/ AnswerPending(d, l)
    <2>1. told' = told \/ told' = [told EXCEPT ![d] = "enrolled"]
            \/ told' = [told EXCEPT ![d] = "pending"]
      BY <1>2 DEF AnswerMember, AnswerPending
    <2>2. ToldType'
      BY <2>1, Learning DEF ToldType, Answers, Inv, Types
    <2>3. UNCHANGED <<tables, enrolled>>
      BY <1>2 DEF AnswerMember, AnswerPending
    <2>4. QuietDoes
      BY <1>1, <2>2, <2>3 DEF RequestEnrollment, QuietDoes, tables, Inv, Types, CountersType
    <2> QED
      BY <2>4
  <1>3. CASE Admit(d, l, calls[c].now)
    <2> DEFINE x == [enrollment |-> enrolled + 1, device |-> d, label |-> l,
                     expires |-> calls[c].now + PendingLifetime]
    <2>1. /\ x.enrollment = enrolled + 1 /\ x.device = d /\ x.label = l
          /\ x.expires = calls[c].now + PendingLifetime
      OBVIOUS
    <2>2. x \in PendingRows
      <3>1. enrolled + 1 \in 1 .. MaxEnrollments
        BY <1>3, Limits, Sizes DEF Admit
      <3>2. calls[c].now + PendingLifetime \in Nat
        BY SettledCall, Limits DEF RequestEnrollment
      <3> QED
        BY <3>1, <3>2 DEF PendingRows
    <2>3. pending' = pending \cup {x} /\ enrolled' = enrolled + 1
      BY <1>3 DEF Admit
    <2>4. facts' = Append(facts, <<"admitted", enrolled + 1>>)
      BY <1>3 DEF Admit
    <2> HIDE DEF x
    <2>5. Appends(<<"admitted", x.enrollment>>)
      <3>1. <<"admitted", enrolled + 1>> \in Facts
        BY <2>1, <2>2 DEF Facts, Kinds, PendingRows
      <3> QED
        BY <2>1, <2>4, <3>1, AppendFact
    <2>6. floor' \in Prunable /\ Occupancy(floor') + 3 <= MaxFactRows
      BY <1>3, RoomyLeast DEF Admit
    <2>7. ToldType'
      BY <1>3, Learning DEF Admit, ToldType, Answers
    <2>8. Free(x.device, x.label)
      BY <1>3, <2>1 DEF Admit
    <2>9. AdmitDoes(x)
      BY <1>1, <1>3, <2>1, <2>2, <2>3, <2>5, <2>6, <2>7, <2>8 DEF Admit, RequestEnrollment,
           AdmitDoes
    <2> QED
      BY <2>9
  <1> QED
    BY <1>2, <1>3 DEF RequestEnrollment

\* An order of a finite set of rows lists each of them once.
LEMMA OrderedRows ==
    ASSUME NEW L, IsFiniteSet(L), NEW s \in Orders(L)
    PROVE  /\ Cardinality(L) \in Nat
           /\ s \in [1 .. Cardinality(L) -> L]
           /\ \A i, j \in 1 .. Cardinality(L) : s[i] = s[j] => i = j
           /\ \A x \in L : \E i \in 1 .. Cardinality(L) : s[i] = x
  <1> DEFINE n == Cardinality(L)
  <1>1. n \in Nat
    BY FS_CardinalityType
  <1>2. s \in [1 .. n -> L] /\ \A i, j \in 1 .. n : i < j => s[i] # s[j]
    BY DEF Orders
  <1> HIDE DEF n
  <1>3. \A i, j \in 1 .. n : s[i] = s[j] => i = j
    <2>1. SUFFICES ASSUME NEW i \in 1 .. n, NEW j \in 1 .. n, s[i] = s[j], i # j
                   PROVE  FALSE
      OBVIOUS
    <2>2. i < j \/ j < i
      BY <1>1, <2>1
    <2> QED
      BY <1>2, <2>1, <2>2
  <1>4. s \in Injection(1 .. n, L)
    BY <1>2, <1>3 DEF Injection, IsInjective
  <1>5. Cardinality(1 .. n) = n
    BY <1>1, FS_Interval
  <1>6. s \in Surjection(1 .. n, L)
    BY <1>4, <1>5, FS_Injection DEF n
  <1> QED
    BY <1>1, <1>2, <1>3, <1>6 DEF n, Surjection

\* Rejecting the admitted commands of some enrollments.
LEMMA RejectAdmittedRows ==
    ASSUME NEW E, NEW code, receipts' = RejectAdmitted(E, code, <<>>)
    PROVE  Rejects({r \in Admitted(receipts) : r.enrollment \in E}, code)
  <1>1. \A r : <<r.adapter, r.command>> # <<>>
    BY TupleLengths
  <1> DEFINE R == {r \in Admitted(receipts) : r.enrollment \in E}
  <1>2. R \subseteq Admitted(receipts)
    OBVIOUS
  <1>3. \A r \in receipts : r \in R <=> r.enrollment \in E /\ r.state = "admitted"
    BY DEF Admitted
  <1> HIDE DEF R
  <1>4. \A q : q \in receipts' <=> \E r \in receipts : q = IF r \in R THEN Settled(r, code) ELSE r
    BY <1>1, <1>3 DEF RejectAdmitted
  <1> QED
    BY <1>2, <1>4 DEF Rejects, R

\* The transaction every such request begins with is a settlement: each lapsed
\* enrollment leaves its table and has one expiry appended.
LEMMA BeginSettles ==
    ASSUME Inv, NEW c \in Callers, Begin(c)
    PROVE  SettleDoes
  <1> DEFINE L == pending \ Live(pending, clock)
             n == Cardinality(L)
             ids == {p.enrollment : p \in L}
  <1>1. PICK s \in Orders(L) : facts' = facts \o [i \in DOMAIN s |-> <<"expired", s[i].enrollment>>]
    BY DEF Begin, SettleExpired
  <1>2. pending' = Live(pending, clock) /\ pending' \subseteq pending /\ L = Lapsed
    BY DEF Begin, SettleExpired, Lapsed, Live
  <1>3. L \subseteq pending /\ IsFiniteSet(L)
    BY FS_Subset DEF Inv, TableInv, Finite
  <1>4. receipts' = RejectAdmitted(ids, "enrollment_expired", <<>>)
    BY DEF Begin, SettleExpired
  <1>5. invites' \subseteq invites
    BY DEF Begin, SettleExpired, Live
  <1>6. \A x : x \in ids <=> \E p \in L : x = p.enrollment
    OBVIOUS
  <1> HIDE DEF L, ids
  <1>7. /\ n \in Nat
        /\ s \in [1 .. n -> L]
        /\ \A i, j \in 1 .. n : s[i] = s[j] => i = j
        /\ \A x \in L : \E i \in 1 .. n : s[i] = x
    BY <1>3, OrderedRows
  <1> HIDE DEF n
  <1> DEFINE new == [i \in 1 .. n |-> <<"expired", s[i].enrollment>>]
  <1>8. new \in Seq(Facts) /\ Len(new) = n
    <2>1. \A i \in 1 .. n : <<"expired", s[i].enrollment>> \in Facts
      BY <1>3, <1>7 DEF Facts, Kinds, Inv, Types, PendingType, PendingRows
    <2>2. new \in Seq(Facts)
      BY <1>7, <2>1, SeqDef
    <2> QED
      BY <1>7, <2>2
  <1>9. \A i \in 1 .. n : new[i] = <<"expired", s[i].enrollment>>
    OBVIOUS
  <1>10. facts' = facts \o new
    BY <1>1, <1>7
  <1> HIDE DEF new
  <1>11. facts \in Seq(Facts) /\ Len(facts) \in Nat
    BY Sizes DEF Inv, Types, FactsType
  <1>12. /\ facts' \in Seq(Facts)
         /\ Len(facts') = Len(facts) + n
         /\ \A i \in 1 .. Len(facts) + n :
               facts'[i] = IF i <= Len(facts) THEN facts[i] ELSE new[i - Len(facts)]
    BY <1>8, <1>10, <1>11, ConcatProperties
  <1>13. Extends
    BY <1>7, <1>11, <1>12 DEF Extends
  <1>14. ASSUME NEW j \in Added
         PROVE  j - Len(facts) \in 1 .. n /\ facts'[j] = <<"expired",
                  s[j - Len(facts)].enrollment>>
    <2>1. j \in Len(facts) + 1 .. Len(facts) + n
      BY <1>12 DEF Added
    <2>2. j - Len(facts) \in 1 .. n /\ j \in 1 .. Len(facts) + n /\ ~(j <= Len(facts))
      BY <1>7, <1>11, <2>1
    <2>3. facts'[j] = new[j - Len(facts)]
      BY <1>12, <2>2
    <2> QED
      BY <1>9, <2>2, <2>3
  <1>15. \A i \in 1 .. n : Len(facts) + i \in Added /\ (Len(facts) + i) - Len(facts) = i
    BY <1>7, <1>11, <1>12 DEF Added
  <1>16. \A j \in Added : \E p \in Lapsed : facts'[j] = <<"expired", p.enrollment>>
    BY <1>2, <1>7, <1>14
  <1>17. ASSUME NEW p \in Lapsed
         PROVE  \E j \in Added : facts'[j] = <<"expired", p.enrollment>>
    <2>1. PICK i \in 1 .. n : s[i] = p
      BY <1>2, <1>7
    <2> QED
      BY <1>14, <1>15, <2>1
  <1>18. ASSUME NEW i \in Added, NEW j \in Added, facts'[i] = facts'[j]
         PROVE  i = j
    <2> DEFINE u == i - Len(facts)
               v == j - Len(facts)
    <2>1. u \in 1 .. n /\ v \in 1 .. n
      BY <1>14
    <2>2. s[u].enrollment = s[v].enrollment
      BY <1>14, <1>18
    <2>3. s[u] \in pending /\ s[v] \in pending
      BY <1>3, <1>7, <2>1
    <2>4. s[u] = s[v]
      BY <2>2, <2>3 DEF Inv, TableInv, EnrollmentsExclusive
    <2>5. u = v
      BY <1>7, <2>1, <2>4
    <2> QED
      BY <1>11, <1>12, <2>5 DEF Added
  <1>19. Cardinality(pending') + n = Cardinality(pending)
    <2>1. pending \ L = pending' /\ pending \cap L = L
      BY <1>2, <1>3 DEF Lapsed
    <2>2. Cardinality(pending \ L) = Cardinality(pending) - Cardinality(pending \cap L)
      BY FS_Difference DEF Inv, TableInv, Finite
    <2>3. Cardinality(pending') = Cardinality(pending) - n
      BY <2>1, <2>2 DEF n
    <2> QED
      BY <1>7, <2>3, Sizes
  <1>20. Cardinality(pending') + Len(facts') = Cardinality(pending) + Len(facts)
    <2>1. Cardinality(pending') \in Nat
      BY <1>2, FS_Subset, FS_CardinalityType DEF Inv, TableInv, Finite
    <2> QED
      BY <1>7, <1>11, <1>12, <1>19, <2>1, Sizes
  <1>21. Rejects(Doomed, "enrollment_expired")
    <2>1. Rejects({r \in Admitted(receipts) : r.enrollment \in ids}, "enrollment_expired")
      BY <1>4, RejectAdmittedRows
    <2>2. Doomed = {r \in Admitted(receipts) : r.enrollment \in ids}
      BY <1>2, <1>6 DEF Doomed
    <2> QED
      BY <2>1, <2>2
  <1>22. CallsType'
    <2>1. [op |-> "settled", now |-> clock] \in Requests
      BY Limits DEF Requests, Inv, Types, CountersType
    <2> QED
      BY <2>1 DEF Begin, Inv, Types, CallsType
  <1> QED
    BY <1>2, <1>5, <1>13, <1>16, <1>17, <1>18, <1>20, <1>21, <1>22 DEF Begin, SettleExpired,
         SettleDoes

\* A pending enrollment made a member, by a command of its own or otherwise.
LEMMA MakeMemberDoes ==
    ASSUME Inv, NEW p \in pending, NEW by \in Admitters, NEW own, MakeMember(p, by, own, own),
           Approver(p, by, own), CallsType',
           UNCHANGED <<scene, clock, last, admittedEver, told, enrolled, invited>>
    PROVE  MemberDoes(p, by, own)
  <1>1. /\ p \in PendingRows /\ p.enrollment \in 1 .. MaxEnrollments /\ p.device \in Devices
        /\ p.label \in Labels
    BY DEF Inv, Types, PendingType, PendingRows
  <1>2. Appends(<<"approved", p.enrollment>>)
    <2>1. <<"approved", p.enrollment>> \in Facts
      BY <1>1 DEF Facts, Kinds
    <2>2. facts' = Append(facts, <<"approved", p.enrollment>>)
      BY DEF MakeMember
    <2> QED
      BY <2>1, <2>2, AppendFact
  <1>3. Member(p.enrollment, p.label, by) \in MemberRows
    BY <1>1 DEF Member, MemberRows
  <1>4. members' = [members EXCEPT ![p.device] = Member(p.enrollment, p.label, by)]
    BY DEF MakeMember
  <1>5. members \in [Devices -> MemberRows \cup {NoMember}]
    BY DEF Inv, Types, MembersType
  <1>6. /\ MembersType'
        /\ members'[p.device] = Member(p.enrollment, p.label, by)
        /\ \A d \in Devices \ {p.device} : members'[d] = members[d]
    BY <1>1, <1>3, <1>4, <1>5 DEF MembersType
  <1>7. \A q : q \in receipts' <=> \E r \in receipts : q = Marked(r, p, own)
    <2> DEFINE Mid(r) == IF r.enrollment \in {p.enrollment} /\ r.state = "admitted"
                            /\ <<r.adapter, r.command>> # own
                         THEN Settled(r, "settled_elsewhere") ELSE r
               End(r) == IF <<r.adapter, r.command>> = own THEN [r EXCEPT !.state = "committed"]
                 ELSE r
    <2>1. receipts' = {End(r) : r \in {Mid(r) : r \in receipts}}
      BY DEF MakeMember, RejectAdmitted
    <2>2. \A r \in receipts : /\ Settled(r, "settled_elsewhere").adapter = r.adapter
                              /\ Settled(r, "settled_elsewhere").command = r.command
      BY DEF Settled, Inv, Types, ReceiptsType, ReceiptRows
    <2>3. \A r \in receipts : End(Mid(r)) = Marked(r, p, own)
      BY <2>2 DEF Marked
    <2> HIDE DEF Mid, End
    <2>4. \A q : q \in receipts' <=> \E r \in receipts : q = End(Mid(r))
      BY <2>1
    <2> QED
      BY <2>3, <2>4
  <1> QED
    BY <1>2, <1>6, <1>7 DEF MakeMember, MemberDoes

\* Approve, by the operator or a member.
LEMMA ApproveDoes ==
    ASSUME Inv, NEW c \in Callers, NEW by \in Actors, NEW code, Approve(c, by, code)
    PROVE  \E p, w, own : MemberDoes(p, w, own)
  <1>1. PICK p \in pending : p.enrollment = code /\ MakeMember(p, <<by>>, <<>>, <<>>)
    BY DEF Approve
  <1>2. CallsType'
    BY CallReturns DEF Approve
  <1>3. <<by>> \in Admitters /\ Approver(p, <<by>>, <<>>)
    BY DEF Admitters, Approver
  <1>4. UNCHANGED <<scene, clock, last, admittedEver, told, enrolled, invited>>
    BY DEF Approve
  <1>5. MemberDoes(p, <<by>>, <<>>)
    BY <1>1, <1>2, <1>3, <1>4, MakeMemberDoes
  <1> QED
    BY <1>5

\* The reason given for the rejection of an enrollment is one the log has.
LEMMA ReasonInLog ==
    ASSUME Inv, NEW e
    PROVE  LET code == MissingPendingRejection(e)
           IN  /\ code \in Codes
               /\ code = "enrollment_expired" => \E i \in DOMAIN facts : facts[i] = <<"expired",
                    e>>
               /\ code = "settled_elsewhere" => \E i \in DOMAIN facts : facts[i] = <<"approved",
                    e>>
  <1> DEFINE S == {i \in Retained : facts[i] \in {<<"approved", e>>, <<"expired", e>>}}
  <1>1. MissingPendingRejection(e) =
          IF S = {} THEN "not_pending"
          ELSE IF facts[Greatest(S)] = <<"expired", e>> THEN "enrollment_expired"
          ELSE "settled_elsewhere"
    BY DEF MissingPendingRejection
  <1>2. S \subseteq 0 .. Len(facts) /\ S \subseteq DOMAIN facts
    BY Sizes DEF Retained
  <1>3. \A i \in S : facts[i] = <<"approved", e>> \/ facts[i] = <<"expired", e>>
    OBVIOUS
  <1> HIDE DEF S
  <1>4. S # {} => Greatest(S) \in S
    BY <1>2, Sizes, GreatestIn
  <1> QED
    BY <1>1, <1>2, <1>3, <1>4 DEF Codes

\* ApproveAdapterCommand approves or rejects.
LEMMA CommandDoes ==
    ASSUME Inv, NEW c \in Callers, NEW a \in Adapters, NEW m \in Commands,
           ApproveAdapterCommand(c, a, m)
    PROVE  (\E R, code : RejectDoes(R, code)) \/ \E p, by, own : MemberDoes(p, by, own)
  <1>1. CallsType'
    BY CallReturns DEF ApproveAdapterCommand
  <1>2. UNCHANGED <<scene, clock, last, admittedEver, told, enrolled, invited>>
    BY DEF ApproveAdapterCommand
  <1>3. PICK r \in Admitted(receipts) :
          /\ <<r.adapter, r.command>> = <<a, m>>
          /\ \/ /\ receipts' = RejectAdmitted({r.enrollment},
                                  MissingPendingRejection(r.enrollment), <<>>)
                /\ UNCHANGED <<members, pending, invites, facts, floor>>
             \/ \E p \in pending :
                  /\ p.enrollment = r.enrollment
                  /\ \/ /\ receipts' = (receipts \ {r}) \cup {Settled(r, "member_capacity")}
                        /\ UNCHANGED <<members, pending, invites, facts, floor>>
                     \/ MakeMember(p, <<a, m>>, <<a, m>>, <<a, m>>)
    BY DEF ApproveAdapterCommand
  <1>4. r \in receipts
    BY DEF Admitted
  <1>5. CASE /\ receipts' = RejectAdmitted({r.enrollment}, MissingPendingRejection(r.enrollment), <<>>)
             /\ UNCHANGED <<members, pending, invites, facts, floor>>
    <2> DEFINE code == MissingPendingRejection(r.enrollment)
               R == {q \in Admitted(receipts) : q.enrollment \in {r.enrollment}}
    <2>1. /\ code \in Codes
          /\ code = "enrollment_expired" => \E i \in DOMAIN facts : facts[i] = <<"expired",
               r.enrollment>>
          /\ code = "settled_elsewhere" => \E i \in DOMAIN facts : facts[i] = <<"approved",
               r.enrollment>>
      BY ReasonInLog
    <2>2. Rejects(R, code)
      BY <1>5, RejectAdmittedRows
    <2>3. \A q \in R : q.enrollment = r.enrollment
      OBVIOUS
    <2>4. PICK k : k = code
      OBVIOUS
    <2>5. PICK Q : Q = R
      OBVIOUS
    <2> HIDE DEF R, code
    <2>6. RejectDoes(Q, k)
      BY <1>1, <1>2, <1>5, <2>1, <2>2, <2>3, <2>4, <2>5 DEF RejectDoes
    <2> QED
      BY <2>6
  <1>6. CASE /\ receipts' = (receipts \ {r}) \cup {Settled(r, "member_capacity")}
             /\ UNCHANGED <<members, pending, invites, facts, floor>>
    <2>1. Rejects({r}, "member_capacity")
      BY <1>4, <1>6 DEF Rejects
    <2>2. RejectDoes({r}, "member_capacity")
      BY <1>1, <1>2, <1>6, <2>1 DEF RejectDoes, Codes
    <2> QED
      BY <2>2
  <1>7. ASSUME NEW p \in pending, p.enrollment = r.enrollment,
               MakeMember(p, <<a, m>>, <<a, m>>, <<a, m>>)
        PROVE  MemberDoes(p, <<a, m>>, <<a, m>>)
    <2>1. <<a, m>> \in Admitters /\ Approver(p, <<a, m>>, <<a, m>>)
      BY <1>3, <1>7 DEF Admitters, Approver
    <2> QED
      BY <1>1, <1>2, <1>7, <2>1, MakeMemberDoes
  <1> QED
    BY <1>3, <1>5, <1>6, <1>7

\* RedeemInvite admits a member, or deletes what expired.
LEMMA RedeemInviteDoes ==
    ASSUME Inv, NEW d \in Devices, NEW id, NEW l \in Labels, RedeemInvite(d, id, l)
    PROVE  PruneDoes \/ \E i, e : RedeemDoes(d, l, i, e)
  <1> DEFINE live == Live(invites, clock)
             mine == {i \in live : i.id = id /\ Redeems(i, d, l)}
  <1>1. live \subseteq invites /\ \A i \in mine : i \in live /\ Redeems(i, d, l)
    BY DEF Live
  <1>2. /\ \/ \E i \in mine :
                /\ Roomy(1) # {}
                /\ enrolled < MaxEnrollments
                /\ enrolled' = enrolled + 1
                /\ floor' = Least(Roomy(1))
                /\ members' = [members EXCEPT ![d] = Member(enrolled', l, <<"invite">>)]
                /\ invites' = live \ {i}
                /\ told' = [told EXCEPT ![d] = "enrolled"]
           \/ /\ invites' = live
              /\ floor' = IF mine = {} THEN floor ELSE Greatest(Prunable)
              /\ UNCHANGED <<members, told, enrolled>>
        /\ UNCHANGED <<scene, clock, pending, facts, creates, receipts, last, admittedEver, calls, invited>>
    BY DEF RedeemInvite
  <1> HIDE DEF live, mine
  <1>3. ASSUME NEW i \in mine,
               Roomy(1) # {}, enrolled < MaxEnrollments, enrolled' = enrolled + 1,
               floor' = Least(Roomy(1)),
               members' = [members EXCEPT ![d] = Member(enrolled', l, <<"invite">>)],
               invites' = live \ {i}, told' = [told EXCEPT ![d] = "enrolled"]
        PROVE  \E j, e : RedeemDoes(d, l, j, e)
    <2>1. PICK e : e = enrolled + 1
      OBVIOUS
    <2>2. e \in 1 .. MaxEnrollments /\ enrolled' = e
      BY <1>3, <2>1, Limits, Sizes
    <2>3. Member(e, l, <<"invite">>) \in MemberRows
      BY <2>2 DEF Member, MemberRows, Admitters
    <2>4. members \in [Devices -> MemberRows \cup {NoMember}]
      BY DEF Inv, Types, MembersType
    <2>5. /\ MembersType'
          /\ members'[d] = Member(e, l, <<"invite">>)
          /\ \A y \in Devices \ {d} : members'[y] = members[y]
      BY <1>3, <2>2, <2>3, <2>4 DEF MembersType
    <2>6. floor' \in Prunable /\ Occupancy(floor') + 1 <= MaxFactRows
      BY <1>3, RoomyLeast
    <2>7. ToldType'
      BY <1>3, Learning DEF ToldType, Answers
    <2>8. i \in invites /\ Redeems(i, d, l) /\ invites' \subseteq invites \ {i}
      BY <1>1, <1>3
    <2>9. RedeemDoes(d, l, i, e)
      BY <1>2, <1>3, <2>1, <2>2, <2>5, <2>6, <2>7, <2>8 DEF RedeemDoes
    <2> QED
      BY <2>9
  <1>4. ASSUME invites' = live, floor' = IF mine = {} THEN floor ELSE Greatest(Prunable),
               UNCHANGED <<members, told, enrolled>>
        PROVE  PruneDoes
    <2>1. Prunable \subseteq 0 .. Len(facts) /\ Prunable # {}
      BY FloorPrunable, PrunableKeeps, Sizes
    <2>2. Greatest(Prunable) \in Prunable
      BY <2>1, GreatestIn, Sizes
    <2> QED
      BY <1>1, <1>2, <1>4, <2>2, FloorPrunable DEF PruneDoes
  <1> QED
    BY <1>2, <1>3, <1>4

\* CreateInvite adds one invite to those in force.
LEMMA CreateInviteDoes ==
    ASSUME Inv, NEW by \in Actors, NEW l \in Labels, NEW life \in InviteLifetimes,
           CreateInvite(by, l, life)
    PROVE  \E x : InviteDoes(x)
  <1> DEFINE x == [id |-> invited + 1, label |-> l, issuer |-> by, expires |-> clock + life]
  <1>1. invited < MaxInvites /\ invited' = invited + 1
    BY DEF CreateInvite
  <1>2. /\ LabelKey[l] \notin MemberKeys /\ LabelKey[l] \notin PendingKeys
        /\ LabelKey[l] \notin InviteKeys(Live(invites, clock))
        /\ invites' = Live(invites, clock) \cup {x}
    BY DEF CreateInvite
  <1>3. x.id = invited + 1 /\ x.label = l /\ x.issuer = by
    OBVIOUS
  <1>4. x \in InviteRows
    <2>1. invited + 1 \in 1 .. MaxInvites
      BY <1>1, Limits, Sizes
    <2>2. clock + life \in Nat
      BY MembershipConstants DEF Inv, Types, CountersType
    <2> QED
      BY <2>1, <2>2 DEF InviteRows
  <1>5. by = Local \/ Active(by)
    BY DEF CreateInvite, Authorized, ActiveMembers
  <1>6. PICK y : y = x
    OBVIOUS
  <1> HIDE DEF x
  <1>7. Live(invites, clock) \in SUBSET invites
    BY DEF Live
  <1>8. InviteDoes(y)
    BY <1>1, <1>2, <1>3, <1>4, <1>5, <1>6, <1>7 DEF InviteDoes, CreateInvite
  <1> QED
    BY <1>8

\* The operations on invites.
LEMMA InvitationsDo ==
    ASSUME Inv, NEW by \in Actors, Invitations(by)
    PROVE  PruneDoes \/ \E x : InviteDoes(x)
  <1>1. CASE ListInvites(by) \/ \E i \in invites : RevokeInvite(by, i.id)
    <2>1. invites' \subseteq invites
      BY <1>1 DEF ListInvites, RevokeInvite, Live
    <2> QED
      BY <1>1, <2>1, FloorPrunable DEF ListInvites, RevokeInvite, PruneDoes
  <1>2. CASE \E l \in Labels, life \in InviteLifetimes : CreateInvite(by, l, life)
    BY <1>2, CreateInviteDoes
  <1> QED
    BY <1>1, <1>2 DEF Invitations

\* Revoke marks the row, records the fact and takes the invites.
LEMMA RevokeEffect ==
    ASSUME Inv, NEW d \in Devices, NEW expected, Revoke(d, expected)
    PROVE  RevokeDoes(d)
  <1>1. Active(d) /\ IsMember(d) /\ ~members[d].revoked
    BY DEF Revoke, Active
  <1>2. members[d] \in MemberRows /\ members[d].revision = 1
    BY <1>1, MemberFields DEF Inv, TableInv, Revisions
  <1>3. members' = [members EXCEPT ![d].revision = @ + 1, ![d].revoked = TRUE]
    BY DEF Revoke
  <1>4. members \in [Devices -> MemberRows \cup {NoMember}]
    BY DEF Inv, Types, MembersType
  <1> DEFINE row == [members[d] EXCEPT !.revision = 2, !.revoked = TRUE]
  <1>5. row \in MemberRows
    BY <1>2 DEF MemberRows
  <1>6. members' = [members EXCEPT ![d] = row]
    <2>1. members' = [members EXCEPT ![d] = [members[d] EXCEPT !.revision = members[d].revision + 1,
                                                           !.revoked = TRUE]]
      BY <1>2, <1>3, <1>4 DEF MemberRows
    <2> QED
      BY <1>2, <2>1
  <1> HIDE DEF row
  <1>7. MembersType' /\ members'[d] = row /\ \A e \in Devices \ {d} : members'[e] = members[e]
    BY <1>4, <1>5, <1>6 DEF MembersType
  <1>8. Appends(<<"revoked", members[d].enrollment>>)
    <2>1. <<"revoked", members[d].enrollment>> \in Facts
      BY <1>2 DEF Facts, Kinds, MemberRows
    <2>2. facts' = Append(facts, <<"revoked", members[d].enrollment>>)
      BY DEF Revoke
    <2> QED
      BY <2>1, <2>2, AppendFact
  <1>9. invites' \subseteq {i \in invites : i.issuer # d}
    BY DEF Revoke, Live
  <1> QED
    BY <1>1, <1>7, <1>8, <1>9 DEF Revoke, RevokeDoes, row

\* Submit adds one receipt, in the place of an old one at capacity.
LEMMA SubmitEffect ==
    ASSUME Inv, NEW a \in Adapters, NEW m \in Commands, NEW e \in 1 .. enrolled, Submit(a, m, e)
    PROVE  \E x : SubmitDoes(a, m, x)
  <1> DEFINE x == Receipt(a, m, e)
  <1>1. /\ x.adapter = a /\ x.command = m /\ x.state = "admitted" /\ x.code = "none"
        /\ x.since = Len(facts)
    BY DEF Receipt
  <1>2. x \in ReceiptRows
    BY Sizes DEF Receipt, ReceiptRows, Codes
  <1>3. \E kept \in SUBSET receipts : receipts' = kept \cup {x}
    BY DEF Submit
  <1>4. LastType' /\ last'[a] = m /\ \A b \in Adapters \ {a} : last'[b] = last[b]
    BY Limits DEF Submit, Advanced, Inv, Types, LastType
  <1>5. PICK y : y = x
    OBVIOUS
  <1> HIDE DEF x
  <1>6. SubmitDoes(a, m, y)
    BY <1>1, <1>2, <1>3, <1>4, <1>5 DEF SubmitDoes, Submit
  <1> QED
    BY <1>6

(***************************************************************************)
(* Every step is one of them.                                              *)
(***************************************************************************)
StepDoes ==
    \/ QuietDoes
    \/ SettleDoes
    \/ \E x : AdmitDoes(x)
    \/ \E p, by, own : MemberDoes(p, by, own)
    \/ \E d, l, i, e : RedeemDoes(d, l, i, e)
    \/ PruneDoes
    \/ \E x : InviteDoes(x)
    \/ \E d : RevokeDoes(d)
    \/ \E a \in Adapters, m \in Commands : \E x : SubmitDoes(a, m, x)
    \/ \E R, code : RejectDoes(R, code)

\* Every action has one of the effects above.
LEMMA NextDoes ==
    ASSUME Inv, [Next]_vars
    PROVE  StepDoes
  <1> USE DEF StepDoes
  <1>1. ASSUME NEW c \in Callers, Begin(c)
        PROVE  StepDoes
    BY <1>1, BeginSettles
  <1>2. ASSUME NEW c \in Callers, NEW d \in Devices, Enroll(c, d)
        PROVE  StepDoes
    <2>1. ASSUME NEW l \in Labels, RequestEnrollment(c, d, l)
          PROVE  StepDoes
      BY <2>1, RequestDoes
    <2>2. CASE StatusOfMember(c, d)
      BY <2>2, StatusOfMemberIsQuiet
    <2> QED
      BY <1>2, <2>1, <2>2 DEF Enroll
  <1>3. ASSUME NEW c \in Callers, StatusOfPending(c)
        PROVE  StepDoes
    BY <1>3, StatusOfPendingIsQuiet
  <1>4. ASSUME NEW c \in Callers, MemberApproves(c) \/ OperatorApproves(c)
        PROVE  StepDoes
    <2>1. PICK by \in Actors, code \in 1 .. enrolled : Approve(c, by, code)
      BY <1>4 DEF MemberApproves, OperatorApproves, Actors
    <2> QED
      BY <2>1, ApproveDoes
  <1>5. ASSUME NEW c \in Callers, DropCall(c)
        PROVE  StepDoes
    BY <1>5, DropCallIsQuiet
  <1>6. ASSUME NEW d \in Devices, Redeem(d)
        PROVE  StepDoes
    <2>1. PICK id \in 1 .. invited, l \in Labels : RedeemInvite(d, id, l)
      BY <1>6 DEF Redeem
    <2> QED
      BY <2>1, RedeemInviteDoes
  <1>7. CASE MemberInvitations \/ OperatorInvitations
    <2>1. PICK by \in Actors : Invitations(by)
      BY <1>7 DEF MemberInvitations, OperatorInvitations, Actors
    <2> QED
      BY <2>1, InvitationsDo
  <1>8. CASE OperatorRevokes
    BY <1>8, RevokeEffect DEF OperatorRevokes
  <1>9. CASE AdapterCommands
    <2>1. PICK a \in Adapters, m \in Commands :
            \/ \E e \in 1 .. enrolled : Submit(a, m, e)
            \/ \E c \in Callers : ApproveAdapterCommand(c, a, m)
      BY <1>9 DEF AdapterCommands
    <2>2. CASE \E e \in 1 .. enrolled : Submit(a, m, e)
      BY <2>2, SubmitEffect
    <2>3. CASE \E c \in Callers : ApproveAdapterCommand(c, a, m)
      BY <2>3, CommandDoes
    <2> QED
      BY <2>1, <2>2, <2>3
  <1>10. CASE Tick
    BY <1>10, TickIsQuiet
  <1>11. CASE UNCHANGED vars
    BY <1>11, StutterIsQuiet
  <1> HIDE DEF StepDoes
  <1> QED
    BY <1>1, <1>2, <1>3, <1>4, <1>5, <1>6, <1>7, <1>8, <1>9, <1>10, <1>11 DEF Next

\* Each of them preserves the invariant.
LEMMA StepKeepsInv ==
    ASSUME Inv, StepDoes
    PROVE  Inv'
  <1>1. ASSUME NEW p, NEW by, NEW own, MemberDoes(p, by, own)
        PROVE  Inv'
    BY <1>1, MemberKeepsInv
  <1>2. ASSUME NEW d, NEW l, NEW i, NEW e, RedeemDoes(d, l, i, e)
        PROVE  Inv'
    BY <1>2, RedeemKeepsInv
  <1>3. ASSUME NEW R, NEW code, RejectDoes(R, code)
        PROVE  Inv'
    BY <1>3, RejectKeepsInv
  <1>4. ASSUME NEW a, NEW m, NEW x, SubmitDoes(a, m, x)
        PROVE  Inv'
    BY <1>4, SubmitKeepsInv
  <1> QED
    BY <1>1, <1>2, <1>3, <1>4, QuietKeepsInv, SettleKeepsInv, AdmitKeepsInv, PruneKeepsInv,
       InviteKeepsInv, RevokeKeepsInv DEF StepDoes

\* The empty database satisfies the invariant.
LEMMA InitInv ==
    ASSUME Init
    PROVE  Inv
  <1>1. Types
    <2>1. facts \in Seq(Facts) /\ Len(facts) = 0 /\ DOMAIN facts = {}
      BY EmptySeq DEF Init
    <2>2. FactsType
      BY <2>1 DEF FactsType, Init
    <2>3. CountersType
      BY Limits DEF CountersType, Init
    <2>4. /\ MembersType /\ PendingType /\ InvitesType /\ ReceiptsType /\ LastType /\ CallsType
          /\ ToldType
      BY DEF Init, MembersType, PendingType, InvitesType, ReceiptsType, LastType, CallsType,
             ToldType, Requests, Answers
    <2> QED
      BY <2>2, <2>3, <2>4 DEF Types
  <1>2. /\ Len(facts) = 0 /\ DOMAIN facts = {} /\ pending = {} /\ invites = {} /\ receipts = {}
        /\ floor = 0 /\ enrolled = 0
        /\ \A d \in Devices : members[d] = NoMember /\ ~IsMember(d) /\ members[d].enrollment = 0
    BY DEF Init, IsMember, NoMember
  <1>3. ActiveMembers = {}
    BY <1>2 DEF ActiveMembers, Active
  <1>4. TableInv
    <2>1. Finite
      BY <1>2, <1>3, FS_EmptySet DEF Finite
    <2>2. IdsUsed /\ Revisions /\ EnrollmentsExclusive /\ InvitesHaveIssuers
      BY <1>2 DEF IdsUsed, Revisions, EnrollmentsExclusive, InvitesHaveIssuers
    <2>3. LabelsExclusive
      BY <1>2 DEF LabelsExclusive, MemberKeys, PendingKeys, InviteKeys
    <2> QED
      BY <2>1, <2>2, <2>3 DEF TableInv
  <1>5. FactInv
    <2>1. FactsFit
      <3>1. Cardinality(pending) = 0 /\ Cardinality(ActiveMembers) = 0
        BY <1>2, <1>3, FS_EmptySet
      <3> QED
        BY <1>2, <3>1, Limits DEF FactsFit, Occupancy
    <2> QED
      BY <1>2, <1>3, <2>1 DEF FactInv, FactsOnce, PendingFacts, MemberFacts
  <1>6. ReceiptInv
    BY <1>2 DEF ReceiptInv, KeysUnique, SinceInLog, LastKnown, AdmittersKnown, ReceiptsTrue,
                AdmittedIsOpen, Admitted
  <1> QED
    BY <1>1, <1>4, <1>5, <1>6 DEF Inv

\* In every reachable state the tables, the log and the receipts satisfy the
\* inductive invariant.
THEOREM Invariance == Spec => []Inv
  <1>1. Init => Inv
    BY InitInv
  <1>2. Inv /\ [Next]_vars => Inv'
    BY NextDoes, StepKeepsInv
  <1> QED
    BY <1>1, <1>2, PTL DEF Spec

(***************************************************************************)
(* The properties.                                                         *)
(***************************************************************************)

\* The keys of the receipts are as many as the receipts.
LEMMA AsManyKeys ==
    ASSUME Inv
    PROVE  Cardinality(Keys(receipts)) = Cardinality(receipts)
  <1> DEFINE f == [r \in receipts |-> <<r.adapter, r.command>>]
  <1>1. f \in [receipts -> Keys(receipts)]
          /\ \A k \in Keys(receipts) : \E r \in receipts : f[r] = k
    BY DEF Keys
  <1>2. \A r, q \in receipts : f[r] = f[q] => r = q
    BY DEF Inv, ReceiptInv, KeysUnique
  <1> HIDE DEF f
  <1>3. f \in Bijection(receipts, Keys(receipts))
    BY <1>1, <1>2 DEF Bijection, Injection, Surjection, IsInjective
  <1>4. ExistsBijection(receipts, Keys(receipts))
    BY <1>3 DEF ExistsBijection
  <1> QED
    BY <1>4, FS_Bijection DEF Inv, TableInv, Finite

\* A label names one device at most, a device is on one row at most, identifiers
\* were given out, and the invites in force have issuers who may invite: none of
\* RequestEnrollment, Approve, RedeemInvite, CreateInvite and Revoke looks at
\* every table again, in whatever order they and the expiries come.
THEOREM Tables == Spec => []TablesAgree
  <1>1. Inv => TablesAgree
    <2> SUFFICES ASSUME Inv
                 PROVE  TablesAgree
      OBVIOUS
    <2>1. ASSUME NEW d \in Devices
          PROVE  \/ members[d] = NoMember
                 \/ /\ members[d].enrollment \in 1 .. enrolled
                    /\ members[d].label \in Labels
                    /\ members[d].revision = IF members[d].revoked THEN 2 ELSE 1
      <3>1. CASE IsMember(d)
        <4>1. members[d].enrollment \in Nat /\ members[d].enrollment # 0
                /\ members[d].enrollment <= enrolled
          BY <3>1, MemberFields DEF Inv, TableInv, IdsUsed
        <4>2. members[d].label \in Labels
          BY <3>1, MemberFields DEF MemberRows
        <4>3. members[d].revision = IF members[d].revoked THEN 2 ELSE 1
          BY <3>1 DEF Inv, TableInv, Revisions
        <4> QED
          BY <4>1, <4>2, <4>3, Sizes
      <3> QED
        BY <3>1, MemberFields
    <2>2. \A p \in pending : p.enrollment \in 1 .. enrolled /\ p.device \in Devices
            /\ p.label \in Labels
      BY Sizes, Limits DEF Inv, Types, PendingType, PendingRows, TableInv, IdsUsed
    <2>3. \A i \in invites : i.id \in 1 .. invited /\ i.issuer \in Actors /\ i.label \in Labels
      BY Sizes, Limits DEF Inv, Types, InvitesType, InviteRows, TableInv, IdsUsed
    <2>4. /\ facts \in Seq({"admitted", "expired", "approved", "revoked"} \X (1 .. MaxEnrollments))
          /\ floor \in 0 .. Len(facts)
      BY DEF Inv, Types, FactsType, Facts, Kinds
    <2>5. \A r \in receipts :
            /\ r.adapter \in Adapters /\ r.command \in Commands
            /\ r.state \in {"admitted", "committed", "rejected"}
      BY DEF Inv, Types, ReceiptsType, ReceiptRows
    <2>6. told \in [Devices -> {"none", "pending", "enrolled", "revoked", "expired"}]
      BY DEF Inv, Types, ToldType, Answers
    <2>7. clock \in 0 .. MaxClock
      BY DEF Inv, Types, CountersType
    <2>8. TypeOK
      BY <2>1, <2>2, <2>3, <2>4, <2>5, <2>6, <2>7, AsManyKeys DEF TypeOK
    <2> QED
      BY <2>8 DEF TablesAgree, Inv, TableInv
  <1> QED
    BY <1>1, Invariance, PTL

\* A fact is retained once or not at all.
LEMMA CountOne ==
    ASSUME Inv, NEW k, NEW e
    PROVE  /\ (\E i \in Retained : facts[i] = <<k, e>>) => Count(k, e) = 1
           /\ (\A i \in Retained : facts[i] # <<k, e>>) => Count(k, e) = 0
  <1> DEFINE S == {i \in Retained : facts[i] = <<k, e>>}
  <1>1. ASSUME NEW i \in Retained, facts[i] = <<k, e>>
        PROVE  Cardinality(S) = 1
    <2>1. Retained \subseteq DOMAIN facts
      BY Sizes DEF Retained
    <2>2. S = {i}
      BY <1>1, <2>1 DEF Inv, FactInv, FactsOnce
    <2> QED
      BY <2>2, FS_Singleton
  <1>2. ASSUME \A i \in Retained : facts[i] # <<k, e>>
        PROVE  Cardinality(S) = 0
    <2>1. S = {}
      BY <1>2
    <2> QED
      BY <2>1, FS_EmptySet
  <1> QED
    BY <1>1, <1>2 DEF Count

\* The facts that pending enrollments and active members may still cause always
\* fit in enrollment_facts, and validateFactOrder never refuses one of them,
\* whatever pruneOneFactPrefix has removed by then.
THEOREM FactLog == Spec => []FactLogSound
  <1>1. Inv => FactLogSound
    <2> SUFFICES ASSUME Inv
                 PROVE  FactLogSound
      OBVIOUS
    <2>1. Retained \subseteq DOMAIN facts
      BY Sizes DEF Retained
    <2>2. ASSUME NEW p \in pending
          PROVE  /\ ValidFactOrder("expired", p.enrollment)
                 /\ ValidFactOrder("approved", p.enrollment)
      <3>1. \E i \in Retained : facts[i] = <<"admitted", p.enrollment>>
        BY DEF Retained, Inv, FactInv, PendingFacts
      <3>2. \A i \in Retained : facts[i][2] = p.enrollment => facts[i][1] = "admitted"
        BY <2>1 DEF Inv, FactInv, PendingFacts
      <3>3. \A i \in Retained : \A k \in {"expired", "approved", "revoked"} : facts[i] # <<k,
              p.enrollment>>
        BY <3>2
      <3>4. /\ Count("admitted", p.enrollment) = 1 /\ Count("expired", p.enrollment) = 0
            /\ Count("approved", p.enrollment) = 0 /\ Count("revoked", p.enrollment) = 0
        BY <3>1, <3>3, CountOne
      <3> QED
        BY <3>4 DEF ValidFactOrder
    <2>3. ASSUME NEW d \in ActiveMembers
          PROVE  ValidFactOrder("revoked", members[d].enrollment)
      <3> DEFINE e == members[d].enrollment
      <3>1. \A i \in DOMAIN facts : facts[i][2] = e => facts[i][1] \in {"admitted", "approved"}
        BY DEF Inv, FactInv, MemberFacts
      <3>2. \A i \in DOMAIN facts : facts[i] = <<"admitted", e>> =>
              \E j \in i + 1 .. Len(facts) : facts[j] = <<"approved", e>>
        BY DEF Inv, FactInv, MemberFacts
      <3> HIDE DEF e
      <3>3. \A i \in Retained : \A k \in {"expired", "revoked"} : facts[i] # <<k, e>>
        BY <2>1, <3>1
      <3>4. Count("expired", e) = 0 /\ Count("revoked", e) = 0
        BY <3>3, CountOne
      <3>5. Count("approved", e) = 1 \/ Count("admitted", e) = 0
        <4>1. CASE \A i \in Retained : facts[i] # <<"admitted", e>>
          BY <4>1, CountOne
        <4>2. ASSUME NEW i \in Retained, facts[i] = <<"admitted", e>>
              PROVE  Count("approved", e) = 1
          <5>1. PICK j \in i + 1 .. Len(facts) : facts[j] = <<"approved", e>>
            BY <2>1, <3>2, <4>2
          <5>2. j \in Retained
            BY Sizes DEF Retained
          <5> QED
            BY <5>1, <5>2, CountOne
        <4> QED
          BY <4>1, <4>2
      <3> QED
        BY <3>4, <3>5 DEF ValidFactOrder, e
    <2> QED
      BY <2>2, <2>3 DEF FactLogSound, SettlementsPossible, Inv, FactInv
  <1> QED
    BY <1>1, Invariance, PTL

\* A receipt is committed when and only when its command admitted the member,
\* says expired or settled elsewhere only when that happened, and awaits its
\* execution only while its enrollment has not been settled since.
THEOREM Receipts == Spec => []ReceiptsSound
  <1>1. Inv => ReceiptsSound
    BY DEF Inv, ReceiptInv, ReceiptsSound
  <1> QED
    BY <1>1, Invariance, PTL

\* Only a submission brings a new key.
LEMMA NewKeys ==
    ASSUME Inv, StepDoes, NEW b \in Adapters, NEW n \in Commands,
           <<b, n>> \in Keys(receipts'), <<b, n>> \notin Keys(receipts)
    PROVE  n > last[b]
  <1>1. PICK q \in receipts' : q.adapter = b /\ q.command = n
    BY DEF Keys
  <1>2. \A r \in receipts : r.adapter # b \/ r.command # n
    BY DEF Keys
  <1>3. \A r \in receipts : r \in ReceiptRows
    BY DEF Inv, Types, ReceiptsType
  <1>4. q \notin receipts
    BY <1>1, <1>2
  <1>5. \A r \in receipts : \A code : Settled(r, code).adapter = r.adapter
          /\ Settled(r, code).command = r.command
    BY <1>3 DEF Settled, ReceiptRows
  <1>6. ASSUME NEW R, NEW code, Rejects(R, code)
        PROVE  FALSE
    <2>1. PICK r \in receipts : q = IF r \in R THEN Settled(r, code) ELSE r
      BY <1>6 DEF Rejects
    <2> QED
      BY <1>1, <1>2, <1>5, <2>1
  <1>7. ASSUME NEW p, NEW by, NEW own, MemberDoes(p, by, own)
        PROVE  FALSE
    <2>1. PICK r \in receipts : q = Marked(r, p, own)
      BY <1>7 DEF MemberDoes
    <2>2. [r EXCEPT !.state = "committed"].adapter = r.adapter
            /\ [r EXCEPT !.state = "committed"].command = r.command
      BY <1>3 DEF ReceiptRows
    <2>3. q.adapter = r.adapter /\ q.command = r.command
      BY <1>5, <2>1, <2>2 DEF Marked
    <2> QED
      BY <1>1, <1>2, <2>3
  <1>8. ASSUME NEW a \in Adapters, NEW m \in Commands, NEW x, SubmitDoes(a, m, x)
        PROVE  n > last[b]
    <2>1. q = x
      BY <1>4, <1>8 DEF SubmitDoes
    <2> QED
      BY <1>1, <1>8, <2>1 DEF SubmitDoes, FreshCommand
  <1>9. receipts' # receipts
    BY <1>4
  <1> QED
    BY <1>6, <1>7, <1>8, <1>9 DEF StepDoes, QuietDoes, SettleDoes, AdmitDoes, RedeemDoes,
         PruneDoes,
       InviteDoes, RevokeDoes, RejectDoes

\* last_command_id is all the server keeps of the commands it ever admitted: it
\* is at or above every one of them.
EverKnown ==
    /\ admittedEver \subseteq Adapters \X Commands
    /\ \A a \in Adapters, m \in Commands : <<a, m>> \in admittedEver => m <= last[a]

\* A submission moves it to an identifier above; nothing else touches it.
LEMMA EverKnownStep ==
    ASSUME Inv, StepDoes, EverKnown
    PROVE  EverKnown'
  <1>1. CASE UNCHANGED <<last, admittedEver>>
    BY <1>1 DEF EverKnown
  <1>2. ASSUME NEW a \in Adapters, NEW m \in Commands, NEW x, SubmitDoes(a, m, x)
        PROVE  EverKnown'
    <2>1. admittedEver' = admittedEver \cup {<<a, m>>} /\ last'[a] = m /\ m > last[a]
      BY <1>2 DEF SubmitDoes, FreshCommand
    <2>2. m \in Nat /\ last[a] \in Nat /\ Commands \subseteq Nat
      BY Limits DEF Inv, Types, LastType
    <2>3. ASSUME NEW b \in Adapters, NEW n \in Commands, <<b, n>> \in admittedEver'
          PROVE  n <= last'[b]
      <3>1. CASE b = a /\ n = m
        BY <2>1, <2>2, <3>1
      <3>2. CASE <<b, n>> \in admittedEver
        <4>1. n <= last[b]
          BY <3>2 DEF EverKnown
        <4>2. CASE b = a
          BY <2>1, <2>2, <4>1, <4>2
        <4>3. CASE b # a
          BY <1>2, <4>1, <4>3 DEF SubmitDoes
        <4> QED
          BY <4>2, <4>3
      <3> QED
        BY <2>1, <2>3, <3>1, <3>2
    <2> QED
      BY <2>1, <2>3 DEF EverKnown
  <1> QED
    BY <1>1, <1>2 DEF StepDoes, QuietDoes, SettleDoes, AdmitDoes, MemberDoes, RedeemDoes,
       PruneDoes, InviteDoes, RevokeDoes, RejectDoes

\* It holds in every reachable state.
LEMMA EverKnownInvariance == Spec => []EverKnown
  <1>1. Init => EverKnown
    BY DEF Init, EverKnown
  <1>2. Inv /\ EverKnown /\ [Next]_vars => EverKnown'
    BY NextDoes, EverKnownStep
  <1> QED
    BY <1>1, <1>2, Invariance, PTL DEF Spec

\* No step brings a receipt for a command that ever had one: a receipt that
\* capacity evicted does not come back, because last_command_id stays at or
\* above every identifier ever admitted (adapters.go, AdmitApprovalCommand).
THEOREM CommandsOnce == Spec => AdmittedOnce
  <1>1. Inv /\ EverKnown /\ [Next]_vars =>
          [\A a \in Adapters, m \in Commands :
              <<a, m>> \in Keys(receipts') \ Keys(receipts) => <<a, m>> \notin admittedEver]_vars
    <2>1. ASSUME Inv, EverKnown, StepDoes, NEW a \in Adapters, NEW m \in Commands,
                 <<a, m>> \in Keys(receipts'), <<a, m>> \notin Keys(receipts)
          PROVE  <<a, m>> \notin admittedEver
      <3>1. m > last[a]
        BY <2>1, NewKeys
      <3>2. m \in Nat /\ last[a] \in Nat
        BY <2>1, Limits DEF Inv, Types, LastType
      <3> QED
        BY <2>1, <3>1, <3>2 DEF EverKnown
    <2> QED
      BY <2>1, NextDoes
  <1> QED
    BY <1>1, Invariance, EverKnownInvariance, PTL DEF Spec, AdmittedOnce

=============================================================================

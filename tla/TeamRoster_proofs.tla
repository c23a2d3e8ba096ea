-------------------------- MODULE TeamRoster_proofs --------------------------
(***************************************************************************)
(* What TeamRoster.tla promises for any number of accounts and of services *)
(* that have read and not yet written.                                     *)
(*                                                                         *)
(* The type invariant, Savable and the limit of the link are inductive     *)
(* together.  The two action properties follow from them: memberships      *)
(* become active one at a time and under the team's lock, and an owner's   *)
(* row is protected by the constraints against everything but a new role.  *)
(***************************************************************************)
EXTENDS TeamRoster, FiniteSetTheorems, TLAPS

LEMMA InitType == RosterInit => RosterTypeOK
BY ConstantsAssumption
   DEF RosterInit, RosterTypeOK, Role, Status, InviteState, RequestState, TeamRecord, LinkRecord

\* What the fields of a service are, by its kind.
LEMMA OpFields ==
    ASSUME NEW op \in Op
    PROVE  /\ op.by \in User
           /\ op.kind \in Kind => op.on \in User
           /\ op.kind = "update" => op.to \in Form
           /\ op.kind = "limit" => op.maxUses \in 0..MaxCapacity /\ op.regenerate \in BOOLEAN
<1>1. CASE op \in [kind : Kind, by : User, on : User]
  BY <1>1 DEF Kind
<1>2. CASE op \in [kind : {"update"}, by : User, to : Form]
  BY <1>2 DEF Kind
<1>3. CASE op \in [kind : {"cutLink"}, by : User]
  BY <1>3 DEF Kind
<1>4. CASE op \in [kind : {"limit"}, by : User, maxUses : 0..MaxCapacity, regenerate : BOOLEAN]
  BY <1>4 DEF Kind
<1> QED
  BY <1>1, <1>2, <1>3, <1>4 DEF Op

\* A member is made of a user by one step.
LEMMA ActivateType ==
    ASSUME RosterTypeOK, NEW u \in User, Activate(u)
    PROVE  role' \in [User -> Role] /\ status' \in [User -> Status]
BY DEF RosterTypeOK, Activate, Role, Status

LEMMA AskType == ASSUME RosterTypeOK, NEW u \in User, Ask(u) PROVE RosterTypeOK'
<1>1. ASSUME NEW v \in User, TransferOwnership(u, v) PROVE RosterTypeOK'
  BY <1>1 DEF TransferOwnership, RosterTypeOK, Role
<1>2. ASSUME NEW v \in User, InviteDirectly(u, v) PROVE RosterTypeOK'
  BY <1>2 DEF InviteDirectly, RosterTypeOK, InviteState
<1>3. CASE AcceptInvitation(u)
  BY <1>3, ActivateType DEF AcceptInvitation, RosterTypeOK, InviteState
<1>4. CASE RedeemLink(u)
  <2>1. link' \in LinkRecord
    <3>1. link.users \union {u} \in SUBSET User /\ link.used + 1 \in Nat
      BY DEF RosterTypeOK, LinkRecord
    <3>2. [link EXCEPT !.used = link.used + 1] \in LinkRecord
      BY <3>1 DEF RosterTypeOK, LinkRecord
    <3> QED
      BY <1>4, <3>1, <3>2 DEF RedeemLink, LinkRecord
  <2>2. role' \in [User -> Role] /\ status' \in [User -> Status]
    BY <1>4, ActivateType DEF RedeemLink
  <2> QED
    BY <1>4, <2>1, <2>2 DEF RedeemLink, RosterTypeOK
<1>5. CASE RequestToJoin(u)
  BY <1>5 DEF RequestToJoin, RosterTypeOK, RequestState
<1>6. ASSUME NEW uses \in 0..MaxCapacity, CreateLink(u, uses) PROVE RosterTypeOK'
  BY <1>6 DEF CreateLink, RosterTypeOK, LinkRecord, InviteState
<1>7. ASSUME NEW op \in Op, Begin(op) PROVE RosterTypeOK'
  BY <1>7 DEF Begin, RosterTypeOK
<1> QED
  BY <1>1, <1>2, <1>3, <1>4, <1>5, <1>6, <1>7 DEF Ask

LEMMA WriteType == ASSUME RosterTypeOK, NEW op \in ops,
                          \/ WriteMembership(op) \/ WriteApproval(op) \/ WriteAnswer(op)
                          \/ WriteCut(op) \/ WriteLimit(op) \/ WriteTeam(op)
                   PROVE  RosterTypeOK'
<1>0. op \in Op /\ ops \ {op} \subseteq Op
  BY DEF RosterTypeOK
<1>1. CASE WriteMembership(op)
  <2>1. op.on \in User
    BY <1>0, <1>1, OpFields DEF WriteMembership, Kind
  <2>2. /\ [role EXCEPT ![op.on] = CASE op.kind = "promote" -> "admin"
                                     [] op.kind = "demote" -> "member"
                                     [] OTHER -> @] \in [User -> Role]
        /\ [status EXCEPT ![op.on] = CASE op.kind = "leave" -> "left"
                                       [] op.kind = "remove" -> "removed"
                                       [] OTHER -> @] \in [User -> Status]
    BY <2>1 DEF RosterTypeOK, Role, Status
  <2> QED
    BY <1>0, <1>1, <2>2 DEF WriteMembership, RosterTypeOK
<1>2. CASE WriteApproval(op)
  <2>1. op.on \in User
    BY <1>0, <1>2, OpFields DEF WriteApproval, Kind
  <2>2. request' \in [User -> RequestState]
    BY <1>2, <2>1 DEF WriteApproval, RosterTypeOK, RequestState
  <2>3. role' \in [User -> Role] /\ status' \in [User -> Status]
    BY <1>2, <2>1, ActivateType DEF WriteApproval, RosterTypeOK
  <2> QED
    BY <1>0, <1>2, <2>2, <2>3 DEF WriteApproval, RosterTypeOK
<1>3. CASE WriteAnswer(op)
  <2>1. op.on \in User
    BY <1>0, <1>3, OpFields DEF WriteAnswer, Kind
  <2>2. request' \in [User -> RequestState] /\ invite' \in [User -> InviteState]
    BY <1>3, <2>1 DEF WriteAnswer, RosterTypeOK, RequestState, InviteState
  <2> QED
    BY <1>0, <1>3, <2>2 DEF WriteAnswer, RosterTypeOK
<1>4. CASE WriteCut(op)
  BY <1>0, <1>4 DEF WriteCut, RosterTypeOK, LinkRecord, InviteState
<1>5. CASE WriteLimit(op)
  <2>1. op.maxUses \in 0..MaxCapacity
    BY <1>0, <1>5, OpFields DEF WriteLimit
  <2>2. link' \in LinkRecord
    BY <1>5, <2>1 DEF WriteLimit, RosterTypeOK, LinkRecord
  <2> QED
    BY <1>0, <1>5, <2>2 DEF WriteLimit, RosterTypeOK
<1>6. CASE WriteTeam(op)
  <2>1. op.to \in Form
    BY <1>0, <1>6, OpFields DEF WriteTeam
  <2>2. team' \in TeamRecord
    BY <1>6, <2>1, ConstantsAssumption DEF WriteTeam, Form, TeamRecord
  <2> QED
    BY <1>0, <1>6, <2>2 DEF WriteTeam, RosterTypeOK
<1> QED
  BY <1>1, <1>2, <1>3, <1>4, <1>5, <1>6

LEMMA NextType == RosterTypeOK /\ [RosterNext]_rosterVars => RosterTypeOK'
<1> SUFFICES ASSUME RosterTypeOK, [RosterNext]_rosterVars PROVE RosterTypeOK'
  OBVIOUS
<1>1. CASE Write
  BY <1>1, WriteType DEF Write
<1>2. CASE InvitationLapses
  BY <1>2 DEF InvitationLapses, RosterTypeOK, InviteState, LinkRecord
<1>3. ASSUME NEW u \in User, Ask(u) PROVE RosterTypeOK'
  BY <1>3, AskType
<1>4. CASE UNCHANGED rosterVars
  BY <1>4 DEF rosterVars, RosterTypeOK
<1> QED
  BY <1>1, <1>2, <1>3, <1>4 DEF RosterNext

\* Every variable keeps to its domain, whatever the services have read before.
THEOREM RosterTypeCorrect == RosterSpec => []RosterTypeOK
<1> QED
  BY InitType, NextType, PTL DEF RosterSpec

(***************************************************************************)
(* What a step does to the memberships: it activates one that fits, swaps  *)
(* the owner with a member, or writes one column of one row if the         *)
(* database lets it.                                                       *)
(***************************************************************************)

Swaps == \E u, v \in User : u \in Owner /\ Active(v) /\ u # v
            /\ role' = [role EXCEPT ![u] = "member", ![v] = "owner"] /\ status' = status

Joins == \E u \in User : Activate(u)

LEMMA EveryStepOfMembers ==
    ASSUME RosterTypeOK, [RosterNext]_rosterVars
    PROVE  \/ UNCHANGED <<role, status>>
           \/ Joins \/ Swaps
           \/ \E op \in ops : WriteMembership(op)
<1>1. ASSUME NEW op \in ops, WriteApproval(op) PROVE UNCHANGED <<role, status>> \/ Joins
  BY <1>1, OpFields DEF WriteApproval, Joins, Kind, RosterTypeOK
<1>2. CASE Write
  BY <1>1, <1>2 DEF Write, WriteAnswer, WriteCut, WriteLimit, WriteTeam
<1>3. CASE InvitationLapses
  BY <1>3 DEF InvitationLapses
<1>4. ASSUME NEW u \in User, Ask(u) PROVE UNCHANGED <<role, status>> \/ Joins \/ Swaps
  <2>1. ASSUME NEW v \in User, TransferOwnership(u, v) PROVE Swaps
    BY <2>1 DEF TransferOwnership, Swaps
  <2>2. CASE AcceptInvitation(u) \/ RedeemLink(u)
    BY <2>2 DEF AcceptInvitation, RedeemLink, Joins
  <2> QED
    BY <1>4, <2>1, <2>2 DEF Ask, InviteDirectly, RequestToJoin, CreateLink, Begin
<1>5. CASE UNCHANGED rosterVars
  BY <1>5 DEF rosterVars
<1> QED
  BY <1>2, <1>3, <1>4, <1>5 DEF RosterNext

(***************************************************************************)
(* The owner.                                                              *)
(***************************************************************************)

LEMMA SavableKept ==
    ASSUME RosterTypeOK, Savable(role, status), [RosterNext]_rosterVars
    PROVE  Savable(role', status')
<1>1. CASE Joins
  BY <1>1 DEF Joins, Activate, MayActivate, Active, Savable, RosterTypeOK
<1>2. CASE Swaps
  BY <1>2 DEF Swaps, Active, Owner, Savable, RosterTypeOK
<1>3. CASE \E op \in ops : WriteMembership(op)
  BY <1>3 DEF WriteMembership
<1> QED
  BY <1>1, <1>2, <1>3, EveryStepOfMembers

\* Rows the database accepts have one owner at most.
LEMMA OneOwner == Savable(role, status) => Cardinality(Owner) <= 1
<1> SUFFICES ASSUME Savable(role, status) PROVE Cardinality(Owner) <= 1
  OBVIOUS
<1>1. CASE Owner = {}
  BY <1>1, FS_EmptySet
<1>2. CASE Owner # {}
  <2>1. PICK u \in User : u \in Owner
    BY <1>2 DEF Owner
  <2>2. Owner = {u}
    BY <2>1 DEF Owner, Active, Savable
  <2> QED
    BY <2>2, FS_Singleton
<1> QED
  BY <1>1, <1>2

\* There is one owner at most, and he is an active member.
THEOREM OwnerIsOne == RosterSpec => []OwnerIsOneActiveMember
<1>1. RosterInit => Savable(role, status)
  BY DEF RosterInit, Savable
<1>2. RosterTypeOK /\ Savable(role, status) /\ [RosterNext]_rosterVars => Savable(role, status)'
  BY SavableKept DEF Savable
<1>3. Savable(role, status) => OwnerIsOneActiveMember
  BY OneOwner DEF OwnerIsOneActiveMember
<1> QED
  BY <1>1, <1>2, <1>3, RosterTypeCorrect, PTL DEF RosterSpec

\* An owner who stops being one without a successor has been given another role
\* by a service; leaving and removing cannot do it.
LEMMA OwnerLostByRole ==
    ASSUME RosterTypeOK, Savable(role, status), [RosterNext]_rosterVars, Owner # {},
           {u \in User : status'[u] = "active" /\ role'[u] = "owner"} = {}
    PROVE  \E op \in ops \ ops' : op.kind \in {"promote", "demote"} /\ op.on \in Owner
<1>1. PICK w \in User : role[w] = "owner" /\ status[w] = "active"
  BY DEF Owner, Active
<1>2. ~(role'[w] = "owner" /\ status'[w] = "active")
  BY <1>1
<1>3. ~Joins
  BY <1>1, <1>2 DEF Joins, Activate, MayActivate, Active, RosterTypeOK
<1>4. ~Swaps
  <2> SUFFICES ASSUME NEW u \in User, NEW v \in User, Active(v),
                      role' = [role EXCEPT ![u] = "member", ![v] = "owner"], status' = status
               PROVE  FALSE
    BY DEF Swaps
  <2>1. role'[v] = "owner" /\ status'[v] = "active"
    BY DEF Active, RosterTypeOK
  <2> QED
    BY <2>1
<1>5. PICK op \in ops : WriteMembership(op)
  BY <1>1, <1>2, <1>3, <1>4, EveryStepOfMembers
<1>6. op \in ops \ ops'
  BY <1>5 DEF WriteMembership
<1>7. op.on = w
  BY <1>1, <1>2, <1>5 DEF WriteMembership, RosterTypeOK
<1>8. op.kind \in {"promote", "demote"}
  BY <1>1, <1>2, <1>5, <1>7 DEF WriteMembership, Savable, RosterTypeOK
<1> QED
  BY <1>1, <1>6, <1>7, <1>8 DEF Owner, Active

\* The ownership is lost only to a role that was written on a stale read.
THEOREM OwnershipLostToStaleWrite == RosterSpec => OwnershipLostOnlyToStaleWrite
<1>1. RosterTypeOK /\ OwnerIsOneActiveMember /\ [RosterNext]_rosterVars =>
         [Owner # {} /\ {u \in User : status'[u] = "active" /\ role'[u] = "owner"} = {}
            => \E op \in ops \ ops' : op.kind \in {"promote", "demote"} /\ op.on \in Owner]_rosterVars
  BY OwnerLostByRole DEF OwnerIsOneActiveMember
<1> QED
  BY <1>1, RosterTypeCorrect, OwnerIsOne, PTL DEF RosterSpec, OwnershipLostOnlyToStaleWrite

(***************************************************************************)
(* Capacity and limits.                                                    *)
(***************************************************************************)

LEMMA JoinFits ==
    ASSUME RosterTypeOK, [RosterNext]_rosterVars
    PROVE  Cardinality(ActiveMember') > Cardinality(ActiveMember)
              => Cardinality(ActiveMember') <= team.capacity
<1>0. IsFiniteSet(ActiveMember) /\ Cardinality(ActiveMember) \in Nat /\ team.capacity \in Nat
  <2>1. IsFiniteSet(ActiveMember)
    BY ConstantsAssumption, FS_Subset DEF ActiveMember
  <2> QED
    BY <2>1, FS_CardinalityType DEF RosterTypeOK, TeamRecord
<1>1. CASE Joins
  <2>1. PICK u \in User : Activate(u)
    BY <1>1 DEF Joins
  <2>2. ActiveMember' = ActiveMember \union {u}
    BY <2>1 DEF Activate, ActiveMember, Active, RosterTypeOK
  <2>3. Cardinality(ActiveMember') = Cardinality(ActiveMember) + 1
    BY <1>0, <2>1, <2>2, FS_AddElement DEF Activate, MayActivate, ActiveMember
  <2> QED
    BY <1>0, <2>1, <2>3 DEF Activate, MayActivate
<1>2. CASE ~Joins
  <2>1. ActiveMember' \subseteq ActiveMember
    <3>1. ASSUME NEW op \in ops, WriteMembership(op) PROVE ActiveMember' \subseteq ActiveMember
      BY <3>1 DEF WriteMembership, ActiveMember, Active, RosterTypeOK
    <3> QED
      BY <1>2, <3>1, EveryStepOfMembers DEF Swaps, ActiveMember, Active
  <2>2. Cardinality(ActiveMember') <= Cardinality(ActiveMember) /\ Cardinality(ActiveMember') \in Nat
    BY <1>0, <2>1, FS_Subset, FS_CardinalityType
  <2> QED
    BY <1>0, <2>2
<1> QED
  BY <1>1, <1>2

\* A roster grows within its capacity, for any number of people who join at once.
THEOREM GrowsWithinCapacity == RosterSpec => RosterGrowsWithinCapacity
<1>1. RosterTypeOK /\ [RosterNext]_rosterVars =>
         [Cardinality(ActiveMember') > Cardinality(ActiveMember)
            => Cardinality(ActiveMember') <= team.capacity]_rosterVars
  BY JoinFits
<1> QED
  BY <1>1, RosterTypeCorrect, PTL DEF RosterSpec, RosterGrowsWithinCapacity

LEMMA LimitKept ==
    ASSUME RosterTypeOK, LinkUsedWithinLimit, [RosterNext]_rosterVars
    PROVE  LinkUsedWithinLimit'
<1>0. link.used \in Nat /\ link.maxUses \in Nat /\ link \in LinkRecord
  BY DEF RosterTypeOK, LinkRecord
<1>1. ASSUME NEW u \in User, RedeemLink(u) PROVE LinkUsedWithinLimit'
  BY <1>0, <1>1 DEF RedeemLink, Exhausted, LinkUsedWithinLimit, LinkRecord
<1>2. ASSUME NEW u \in User, NEW uses \in 0..MaxCapacity, CreateLink(u, uses) PROVE LinkUsedWithinLimit'
  BY <1>2 DEF CreateLink, LinkUsedWithinLimit
<1>3. ASSUME NEW op \in ops, WriteLimit(op) PROVE LinkUsedWithinLimit'
  <2>1. op.maxUses \in Nat
    BY <1>3, OpFields DEF WriteLimit, RosterTypeOK
  <2> QED
    BY <1>0, <1>3, <2>1 DEF WriteLimit, LinkUsedWithinLimit, LinkRecord
<1>4. ASSUME NEW op \in ops, WriteCut(op) PROVE LinkUsedWithinLimit'
  BY <1>0, <1>4 DEF WriteCut, LinkUsedWithinLimit, LinkRecord
<1>5. CASE InvitationLapses
  BY <1>0, <1>5 DEF InvitationLapses, LinkUsedWithinLimit, LinkRecord
<1>6. ASSUME UNCHANGED link PROVE LinkUsedWithinLimit'
  BY <1>6 DEF LinkUsedWithinLimit
<1>7. CASE Write
  BY <1>3, <1>4, <1>6, <1>7 DEF Write, WriteMembership, WriteApproval, WriteAnswer, WriteTeam
<1>8. ASSUME NEW u \in User, Ask(u) PROVE LinkUsedWithinLimit'
  BY <1>1, <1>2, <1>6, <1>8
     DEF Ask, TransferOwnership, InviteDirectly, AcceptInvitation, RequestToJoin, Begin
<1> QED
  BY <1>5, <1>6, <1>7, <1>8 DEF RosterNext, rosterVars

\* No link is used more often than it allows, although its limit is edited on
\* counts that have been read before.
THEOREM LinkWithinLimit == RosterSpec => []LinkUsedWithinLimit
<1>1. RosterInit => LinkUsedWithinLimit
  BY DEF RosterInit, LinkUsedWithinLimit
<1> QED
  BY <1>1, LimitKept, RosterTypeCorrect, PTL DEF RosterSpec

==============================================================================

----------------------------- MODULE TeamRoster -----------------------------
(***************************************************************************)
(* Who belongs to a team and in which role (backend/team): memberships,    *)
(* direct invitations, one reusable link, join requests and the team's own *)
(* record.  Activating a membership and transferring the ownership lock    *)
(* the team's row; every other service reads the rows it needs, checks     *)
(* them, and writes later, without a lock.  Such a service is two steps    *)
(* here: Begin makes its reads and its checks, and the write follows when  *)
(* it pleases, whatever has happened to the rows in between.               *)
(***************************************************************************)
EXTENDS Integers, FiniteSets

CONSTANTS
    User,        \* the accounts
    founder,     \* the one who created the team
    MaxCapacity, \* the largest roster size (Team.MAX_ROSTER_SIZE_CAP)
    MaxVersion,  \* bound: edits of the team's record
    MaxOps       \* bound: services that have read and not yet written

ASSUME ConstantsAssumption ==
    /\ founder \in User
    /\ IsFiniteSet(User)
    /\ MaxCapacity \in Nat /\ MaxCapacity >= 1
    /\ MaxVersion \in Nat
    /\ MaxOps \in Nat

VARIABLES
    role,      \* TeamMembership.role
    status,    \* TeamMembership.status, "none" without a row
    team,      \* Team: max_roster_size, visibility, the optimistic version
    invite,    \* the latest direct TeamInvitation of each user
    link,      \* the reusable TeamInvitation and its redemptions
    request,   \* the latest TeamJoinRequest of each user
    ops        \* services between their reads and their write

rosterVars == <<role, status, team, invite, link, request, ops>>

Role == {"owner", "admin", "member"}
Status == {"none", "active", "left", "removed"}
InviteState == {"none", "pending", "accepted", "declined", "cancelled", "lapsed"}
RequestState == {"none", "pending", "approved", "rejected", "cancelled"}
TeamRecord == [capacity : 1..MaxCapacity, private : BOOLEAN, version : 0..MaxVersion]
Form == [capacity : 1..MaxCapacity, private : BOOLEAN, version : 0..(MaxVersion - 1)]
LinkRecord == [state : InviteState, maxUses : 0..MaxCapacity, used : Nat,
               users : SUBSET User]
Kind == {"promote", "demote", "remove", "leave", "approve", "reject", "withdraw",
         "decline", "revoke"}
Op == [kind : Kind, by : User, on : User]
        \union [kind : {"update"}, by : User, to : Form]
        \union [kind : {"cutLink"}, by : User]
        \union [kind : {"limit"}, by : User, maxUses : 0..MaxCapacity, regenerate : BOOLEAN]

Active(u) == status[u] = "active"
Owner == {u \in User : Active(u) /\ role[u] = "owner"}
Manages(u) == Active(u) /\ role[u] \in {"owner", "admin"}
ActiveMember == {u \in User : Active(u)}

\* A number of uses the roster has room for; 0 stands for no limit.
Fits(uses) == uses = 0 \/ uses <= team.capacity - Cardinality(ActiveMember)

\* The model keeps the latest invitation and request of each user, and one link:
\* a row is not replaced by a newer one while a service still works on it.
Replaceable(kinds, u) == ~\E op \in ops : op.kind \in kinds /\ op.on = u
LinkReplaceable == ~\E op \in ops : op.kind \in {"cutLink", "limit"}

RosterTypeOK ==
    /\ role \in [User -> Role]
    /\ status \in [User -> Status]
    /\ team \in TeamRecord
    /\ invite \in [User -> InviteState]
    /\ link \in LinkRecord
    /\ request \in [User -> RequestState]
    /\ ops \subseteq Op

\* create_team: the record and the creator's owner membership, in one transaction.
RosterInit ==
    /\ role = [u \in User |-> IF u = founder THEN "owner" ELSE "member"]
    /\ status = [u \in User |-> IF u = founder THEN "active" ELSE "none"]
    /\ team \in [capacity : 1..MaxCapacity, private : BOOLEAN, version : {0}]
    /\ invite = [u \in User |-> "none"]
    /\ link = [state |-> "none", maxUses |-> 0, used |-> 0, users |-> {}]
    /\ request = [u \in User |-> "none"]
    /\ ops = {}

-----------------------------------------------------------------------------
(* Memberships. *)

\* The rows may be saved: the check constraint of an owner's row and the unique
\* constraint on owners; otherwise the database refuses and nothing changes.
Savable(r, s) ==
    /\ \A u \in User : r[u] = "owner" => s[u] = "active"
    /\ \A u, v \in User :
         r[u] = "owner" /\ r[v] = "owner" /\ s[u] = "active" /\ s[v] = "active" => u = v

\* Mutant: the capacity is compared with the wrong sign of equality.
MayActivateOneMore(u) == ~Active(u) /\ Cardinality(ActiveMember) <= team.capacity

\* activate_membership, under the lock of the team's row.
MayActivate(u) == ~Active(u) /\ Cardinality(ActiveMember) < team.capacity

Activate(u) ==
    /\ MayActivate(u)
    /\ status' = [status EXCEPT ![u] = "active"]
    /\ role' = [role EXCEPT ![u] = "member"]

\* Mutant: the transfer's first write stands when the second one fails.
TransferOwnershipHalfDone(u, v) ==
    /\ u \in Owner
    /\ Active(v) /\ u # v
    /\ role' = [role EXCEPT ![u] = "member"]
    /\ UNCHANGED <<status, team, invite, link, request, ops>>

\* transfer_ownership: both roles change in one transaction, under the same lock;
\* a service that writes one of the rows meanwhile comes before it or is refused.
TransferOwnership(u, v) ==
    /\ u \in Owner
    /\ Active(v) /\ u # v
    /\ role' = [role EXCEPT ![u] = "member", ![v] = "owner"]
    /\ UNCHANGED <<status, team, invite, link, request, ops>>

-----------------------------------------------------------------------------
(* Invitations. *)

\* create_direct_invitation; a second pending row is refused by the database too.
InviteDirectly(by, u) ==
    /\ Manages(by)
    /\ ~Active(u) /\ invite[u] \notin {"pending", "lapsed"}
    /\ Replaceable({"decline", "revoke"}, u)
    /\ invite' = [invite EXCEPT ![u] = "pending"]
    /\ UNCHANGED <<role, status, team, link, request, ops>>

\* accept_invitation of a direct invitation: locked, redeemable, then the roster.
AcceptInvitation(u) ==
    /\ invite[u] = "pending"
    /\ Activate(u)
    /\ invite' = [invite EXCEPT ![u] = "accepted"]
    /\ UNCHANGED <<team, link, request, ops>>

\* create_link_invitation and create_code_invitation.
CreateLink(by, uses) ==
    /\ Manages(by)
    /\ link.state # "pending"
    /\ LinkReplaceable
    /\ Fits(uses)
    /\ link' = [state |-> "pending", maxUses |-> uses, used |-> 0, users |-> {}]
    /\ UNCHANGED <<role, status, team, invite, request, ops>>

Exhausted == link.maxUses # 0 /\ link.used >= link.maxUses

\* accept_invitation of a link or a code: it stays pending and counts its uses.
RedeemLink(u) ==
    /\ link.state = "pending" /\ ~Exhausted /\ u \notin link.users
    /\ Activate(u)
    /\ link' = [link EXCEPT !.used = @ + 1, !.users = @ \union {u}]
    /\ UNCHANGED <<team, invite, request, ops>>

\* The expiry passes: nothing writes the row, but it is no longer redeemable.
InvitationLapses ==
    /\ \/ \E u \in User : invite[u] = "pending" /\ invite' = [invite EXCEPT ![u] = "lapsed"]
                          /\ UNCHANGED link
       \/ link.state = "pending" /\ link' = [link EXCEPT !.state = "lapsed"]
          /\ UNCHANGED invite
    /\ UNCHANGED <<role, status, team, request, ops>>

-----------------------------------------------------------------------------
(* Join requests. *)

\* create_join_request, also through a redeemable code; one pending per user.
RequestToJoin(u) ==
    /\ ~team.private
    /\ ~Active(u) /\ request[u] # "pending"
    /\ Replaceable({"approve", "reject", "withdraw"}, u)
    /\ request' = [request EXCEPT ![u] = "pending"]
    /\ UNCHANGED <<role, status, team, invite, link, ops>>

-----------------------------------------------------------------------------
(* Services that read first and write later. *)

\* What a service checks against the rows it has read.
Allowed(op) ==
    CASE op.kind \in {"promote", "demote"} ->
            op.by \in Owner /\ Active(op.on) /\ role[op.on] # "owner"
      [] op.kind = "remove" -> Manages(op.by) /\ Active(op.on) /\ role[op.on] # "owner"
      [] op.kind = "leave" -> op.by = op.on /\ Active(op.on) /\ role[op.on] # "owner"
      [] op.kind \in {"approve", "reject"} -> Manages(op.by) /\ request[op.on] = "pending"
      [] op.kind = "withdraw" -> op.by = op.on /\ request[op.on] = "pending"
      [] op.kind = "decline" -> invite[op.on] \in {"pending", "lapsed"}
      [] op.kind = "revoke" -> Manages(op.by) /\ invite[op.on] \in {"pending", "lapsed"}
      [] op.kind = "cutLink" -> Manages(op.by) /\ link.state \in {"pending", "lapsed"}
      [] op.kind = "limit" -> /\ Manages(op.by) /\ link.state # "none"
                              /\ Fits(op.maxUses)
                              /\ op.maxUses # 0 => op.maxUses >= link.used
      [] op.kind = "update" -> Manages(op.by)

\* The record an edit submits carries the version its form was loaded with, and
\* the serializer compares it with the row before it saves.
VersionStillCurrent(op) == op.kind = "update" => op.to.version = team.version

Begin(op) ==
    /\ Cardinality(ops) < MaxOps
    /\ Allowed(op) /\ VersionStillCurrent(op)
    /\ ops' = ops \union {op}
    /\ UNCHANGED <<role, status, team, invite, link, request>>

\* Mutant: leaving and removing write without the database's check of the row.
WriteMembershipUnchecked(op) ==
    /\ op \in ops /\ op.kind \in {"promote", "demote", "leave", "remove"}
    /\ role' = [role EXCEPT ![op.on] = CASE op.kind = "promote" -> "admin"
                                         [] op.kind = "demote" -> "member"
                                         [] OTHER -> @]
    /\ status' = [status EXCEPT ![op.on] = CASE op.kind = "leave" -> "left"
                                             [] op.kind = "remove" -> "removed"
                                             [] OTHER -> @]
    /\ ops' = ops \ {op}
    /\ UNCHANGED <<team, invite, link, request>>

\* set_role and mark_left / mark_removed: one column of the target's row, unless
\* a constraint refuses the row.
WriteMembership(op) ==
    LET r == [role EXCEPT ![op.on] = CASE op.kind = "promote" -> "admin"
                                       [] op.kind = "demote" -> "member"
                                       [] OTHER -> @]
        s == [status EXCEPT ![op.on] = CASE op.kind = "leave" -> "left"
                                         [] op.kind = "remove" -> "removed"
                                         [] OTHER -> @]
    IN  /\ op \in ops /\ op.kind \in {"promote", "demote", "leave", "remove"}
        /\ IF Savable(r, s) THEN role' = r /\ status' = s ELSE UNCHANGED <<role, status>>
        /\ ops' = ops \ {op}
        /\ UNCHANGED <<team, invite, link, request>>

\* approve_join_request: the activation and the approval in one transaction, which
\* a full roster or a membership made meanwhile rolls back.
WriteApproval(op) ==
    /\ op \in ops /\ op.kind = "approve"
    /\ \/ /\ Activate(op.on)
          /\ request' = [request EXCEPT ![op.on] = "approved"]
       \/ /\ ~MayActivate(op.on)
          /\ UNCHANGED <<role, status, request>>
    /\ ops' = ops \ {op}
    /\ UNCHANGED <<team, invite, link>>

\* Mutant: an invitation is given the word of a join request.
WriteAnswerMixedUp(op) ==
    /\ op \in ops /\ op.kind \in {"reject", "withdraw", "decline", "revoke"}
    /\ request' = [request EXCEPT ![op.on] = CASE op.kind = "reject" -> "rejected"
                                               [] op.kind = "withdraw" -> "cancelled"
                                               [] OTHER -> @]
    /\ invite' = [invite EXCEPT ![op.on] = CASE op.kind = "decline" -> "rejected"
                                             [] op.kind = "revoke" -> "cancelled"
                                             [] OTHER -> @]
    /\ ops' = ops \ {op}
    /\ UNCHANGED <<role, status, team, link>>

\* reject, cancel and decline: the status of the row that was read as pending.
WriteAnswer(op) ==
    /\ op \in ops /\ op.kind \in {"reject", "withdraw", "decline", "revoke"}
    /\ request' = [request EXCEPT ![op.on] = CASE op.kind = "reject" -> "rejected"
                                               [] op.kind = "withdraw" -> "cancelled"
                                               [] OTHER -> @]
    /\ invite' = [invite EXCEPT ![op.on] = CASE op.kind = "decline" -> "declined"
                                             [] op.kind = "revoke" -> "cancelled"
                                             [] OTHER -> @]
    /\ ops' = ops \ {op}
    /\ UNCHANGED <<role, status, team, link>>

\* cancel_invitation of a link.
WriteCut(op) ==
    /\ op \in ops /\ op.kind = "cutLink"
    /\ link' = [link EXCEPT !.state = "cancelled"]
    /\ ops' = ops \ {op}
    /\ UNCHANGED <<role, status, team, invite, request>>

\* Mutant: the edit is not compared with the uses that were made meanwhile.
WriteLimitUnchecked(op) ==
    /\ op \in ops /\ op.kind = "limit"
    /\ link' = IF link.state # "pending" THEN link
               ELSE [link EXCEPT !.maxUses = op.maxUses, !.used = IF op.regenerate THEN 0 ELSE @]
    /\ ops' = ops \ {op}
    /\ UNCHANGED <<role, status, team, invite, request>>

\* update_invitation: under the lock of a link that is still pending, the new
\* limit; regenerating starts the count over but keeps the redemption rows.  The
\* database refuses a limit that uses made since the check have passed.
WriteLimit(op) ==
    LET used == IF op.regenerate THEN 0 ELSE link.used IN
    /\ op \in ops /\ op.kind = "limit"
    /\ link' = IF link.state # "pending" \/ (op.maxUses # 0 /\ used > op.maxUses) THEN link
               ELSE [link EXCEPT !.maxUses = op.maxUses, !.used = used]
    /\ ops' = ops \ {op}
    /\ UNCHANGED <<role, status, team, invite, request>>

\* TeamUpdateSerializer.update: every field of the form, and the version of the
\* instance that was read plus one; the version is not compared again.
WriteTeam(op) ==
    /\ op \in ops /\ op.kind = "update"
    /\ team' = [op.to EXCEPT !.version = @ + 1]
    /\ ops' = ops \ {op}
    /\ UNCHANGED <<role, status, invite, link, request>>

-----------------------------------------------------------------------------
Write ==
    \E op \in ops : \/ WriteMembership(op) \/ WriteApproval(op) \/ WriteAnswer(op)
                     \/ WriteCut(op) \/ WriteLimit(op) \/ WriteTeam(op)

\* What one account may ask for.
Ask(u) ==
    \/ \E v \in User : TransferOwnership(u, v) \/ InviteDirectly(u, v)
    \/ AcceptInvitation(u) \/ RedeemLink(u) \/ RequestToJoin(u)
    \/ \E uses \in 0..MaxCapacity : CreateLink(u, uses)
    \/ \E op \in Op : op.by = u /\ Begin(op)

RosterNext == Write \/ InvitationLapses \/ \E u \in User : Ask(u)

RosterSpec == RosterInit /\ [][RosterNext]_rosterVars

-----------------------------------------------------------------------------
(* What the roster promises. *)

\* There are never two owners, and whoever has left or has been removed is not
\* one, however leaving, removing and transferring overlap (the constraints of
\* TeamMembership with the lock of transfer_ownership).
OwnerIsOneActiveMember == Cardinality(Owner) <= 1 /\ Savable(role, status)

\* A roster never grows past the capacity the team has at that moment, although
\* invitations, links and approvals of several people arrive together
\* (activate_membership); it may be over it when the capacity is lowered later.
RosterGrowsWithinCapacity ==
    [][Cardinality(ActiveMember') > Cardinality(ActiveMember)
         => Cardinality(ActiveMember') <= team.capacity]_rosterVars

\* A link is never used more often than it allows, across edits, regenerated
\* tokens and uses at the same moment (accept_invitation, update_invitation).
LinkUsedWithinLimit == link.maxUses # 0 => link.used <= link.maxUses

\* The one way to lose the ownership: a role that was written by a service which
\* had read the target before the ownership was transferred to it.
OwnershipLostOnlyToStaleWrite ==
    [][Owner # {} /\ {u \in User : status'[u] = "active" /\ role'[u] = "owner"} = {}
         => \E op \in ops \ ops' : op.kind \in {"promote", "demote"} /\ op.on \in Owner]_rosterVars

=============================================================================

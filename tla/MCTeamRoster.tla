---------------------------- MODULE MCTeamRoster ----------------------------
(* TeamRoster on small instances. *)
EXTENDS TeamRoster

CONSTANT MaxFamilies    \* bound: families of services used in one behaviour

\* What shows that a family of services has been used: direct invitations, the
\* link, join requests, edits of the team.  Memberships are always in use.
UsedFamily ==
    {f \in {"invite", "link", "request", "edit"} :
        CASE f = "invite" -> \E u \in User : invite[u] # "none"
          [] f = "link" -> link.state # "none"
          [] f = "request" -> \E u \in User : request[u] # "none"
          [] f = "edit" -> team.version > 0 \/ \E op \in ops : op.kind = "update"}

FewFamilies == Cardinality(UsedFamily) <= MaxFamilies

=============================================================================

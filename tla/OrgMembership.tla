---------------------------- MODULE OrgMembership ----------------------------
(***************************************************************************)
(* One organization: its creation and deletion, its members and their      *)
(* roles, ownership, invitations, and which accounts have it, or another,  *)
(* as their active organization.  As in AuthSessions an action is the code *)
(* between two awaits, and ctx[r] holds what request r read before.  Reads *)
(* that follow one another with no other effect than refusing the request  *)
(* are one action when only the last of them can have changed meanwhile.   *)
(*                                                                         *)
(* Names, slugs, the per-user limit on organizations and custom roles are  *)
(* left out; so is the deletion of accounts.  Of other organizations there *)
(* is only that an account may have one of its own active instead.         *)
(***************************************************************************)
EXTENDS Integers, FiniteSets

CONSTANTS
  Users,        \* accounts
  Invitations,  \* org_invitations rows that may be inserted
  Requests,     \* requests in flight at once
  InvitedRoles, \* the roles clients invite to
  Workloads,    \* each a set of operations clients perform in one behaviour
  None          \* SQL null, and "not there" in a request's context

ASSUME NoneIsNothing == None \notin Users \cup Invitations
ASSUME UsersAreFinite == IsFiniteSet(Users)

\* inviteMemberSchema
ASSUME NoOwnerByInvitation == InvitedRoles \subseteq {"member", "admin"}

VARIABLES
  org,      \* the organizations row: "absent", "live" or "gone"
  member,   \* member[u]: the org_members row, and the invitation it came from
  active,   \* active[u]: activeOrgId, null, this organization or another
  invite,   \* invite[i]: the org_invitations row
  stage,    \* stage[r]: the await request r is suspended at
  ctx,      \* ctx[r]: the local variables of r's handler
  workload  \* the operations of this behaviour; never changes

vars == <<org, member, active, invite, stage, ctx, workload>>

\* "none" is no row.
Roles == {"none", "member", "admin", "owner"}

\* ROLE_RANK
Rank == [none |-> 0, member |-> 1, admin |-> 2, owner |-> 3]

Statuses == {"absent", "pending", "accepted", "revoked", "expired", "deleted"}

Stages ==
  {"idle", "addOwner", "roleActor", "roleWrite", "count", "removeActor",
   "removeRead", "removeClear", "removeWrite", "successor", "transfer", "deleteClear",
   "delete", "findPending", "inviteWrite", "acceptMember", "acceptJoin",
   "acceptMark", "expire", "revoke", "activate", "resolve", "deactivate"}

NotMember == [role |-> "none", via |-> None]

\* halted is history: a request stopped after its account had joined.
NoInvite == [status |-> "absent", user |-> None, role |-> "none",
             lapsed |-> FALSE, halted |-> FALSE]

\* switched is history: the member a request is about to remove has switched
\* to this organization since that request dealt with activeOrgId.
Blank == [actor |-> None, target |-> None, seen |-> "none", owners |-> 0,
          role |-> "none", invite |-> None, switched |-> FALSE]

Init ==
  /\ org = "absent"
  /\ member = [u \in Users |-> NotMember]
  /\ active = [u \in Users |-> "none"]
  /\ invite = [i \in Invitations |-> NoInvite]
  /\ stage = [r \in Requests |-> "idle"]
  /\ ctx = [r \in Requests |-> Blank]
  /\ workload \in Workloads

-----------------------------------------------------------------------------
(* Stepping a request.                                                     *)

At(r, s) == stage[r] = s

\* Request r arrives and runs up to await s with the locals c.
Arrive(r, s, c) ==
  /\ stage[r] = "idle"
  /\ stage' = [stage EXCEPT ![r] = s]
  /\ ctx' = [ctx EXCEPT ![r] = c]

Goto(r, s) ==
  /\ stage' = [stage EXCEPT ![r] = s]
  /\ UNCHANGED ctx

\* The handler returned or threw.
Finish(r) ==
  /\ stage' = [stage EXCEPT ![r] = "idle"]
  /\ ctx' = [ctx EXCEPT ![r] = Blank]

Role(u) == member[u].role

Owners == {u \in Users : Role(u) = "owner"}

\* An update by primary key: it does nothing once the row is deleted.
SetStatus(i, s) ==
  invite' = [invite EXCEPT ![i].status = IF @ = "deleted" THEN @ ELSE s]

-----------------------------------------------------------------------------
(* Creating the organization: the row, then its first owner.               *)

Create(r, u) ==
  /\ "create" \in workload
  /\ org = "absent"
  /\ org' = "live"
  /\ Arrive(r, "addOwner", [Blank EXCEPT !.actor = u])
  /\ UNCHANGED <<member, active, invite>>

\* addMember throws if the row exists (org_members_org_user_idx) or the
\* organization does not.
CreateOwner(r) ==
  /\ At(r, "addOwner")
  /\ member' = IF org = "live" /\ Role(ctx[r].actor) = "none"
               THEN [member EXCEPT ![ctx[r].actor].role = "owner"]
               ELSE member
  /\ Finish(r)
  /\ UNCHANGED <<org, active, invite>>

-----------------------------------------------------------------------------
(* updateMemberRole.                                                       *)

RoleTarget(r, a, u, role) ==
  /\ "role" \in workload
  /\ Role(u) # "none"
  /\ Arrive(r, "roleActor",
            [Blank EXCEPT !.actor = a, !.target = u, !.seen = Role(u),
                          !.role = role])
  /\ UNCHANGED <<org, member, active, invite>>

\* The actor must outrank both the target and the new role.
RoleActor(r) ==
  /\ At(r, "roleActor")
  /\ IF /\ Role(ctx[r].actor) # "none"
        /\ Rank[ctx[r].seen] < Rank[Role(ctx[r].actor)]
        /\ Rank[ctx[r].role] < Rank[Role(ctx[r].actor)]
     THEN Goto(r, "roleWrite") ELSE Finish(r)
  /\ UNCHANGED <<org, member, active, invite>>

RoleWrite(r) ==
  /\ At(r, "roleWrite")
  /\ member' = IF Role(ctx[r].target) # "none"
               THEN [member EXCEPT ![ctx[r].target].role = ctx[r].role]
               ELSE member
  /\ Finish(r)
  /\ UNCHANGED <<org, active, invite>>

-----------------------------------------------------------------------------
(* removeMember, of oneself or of another.                                 *)

\* The next await once the target may be removed as far as ownership goes.
AfterCount(c) == IF c.target = c.actor THEN "removeWrite" ELSE "removeActor"

RemoveTarget(r, a, u) ==
  /\ "remove" \in workload
  /\ Role(u) # "none"
  /\ LET c == [Blank EXCEPT !.actor = a, !.target = u, !.seen = Role(u)]
     IN  Arrive(r, IF Role(u) = "owner" THEN "count" ELSE AfterCount(c), c)
  /\ UNCHANGED <<org, member, active, invite>>

\* Seeded fault: the last owner may leave.
RemoveCountUnguarded(r) ==
  /\ At(r, "count")
  /\ stage' = [stage EXCEPT ![r] = AfterCount(ctx[r])]
  /\ ctx' = [ctx EXCEPT ![r].owners = Cardinality(Owners)]
  /\ UNCHANGED <<org, member, active, invite>>

\* countOwners: "Can't remove the last owner".
RemoveCount(r) ==
  /\ At(r, "count")
  /\ IF Cardinality(Owners) <= 1
     THEN Finish(r)
     ELSE /\ stage' = [stage EXCEPT ![r] = AfterCount(ctx[r])]
          /\ ctx' = [ctx EXCEPT ![r].owners = Cardinality(Owners)]
  /\ UNCHANGED <<org, member, active, invite>>

\* Seeded fault: the target may be of the actor's own rank.
RemoveActorSameRank(r) ==
  /\ At(r, "removeActor")
  /\ IF /\ Role(ctx[r].actor) # "none"
        /\ Rank[ctx[r].seen] <= Rank[Role(ctx[r].actor)]
     THEN Goto(r, "removeRead") ELSE Finish(r)
  /\ UNCHANGED <<org, member, active, invite>>

RemoveActor(r) ==
  /\ At(r, "removeActor")
  /\ IF /\ Role(ctx[r].actor) # "none"
        /\ Rank[ctx[r].seen] < Rank[Role(ctx[r].actor)]
     THEN Goto(r, "removeRead") ELSE Finish(r)
  /\ UNCHANGED <<org, member, active, invite>>

\* Seeded fault: whichever organization is active is cleared.
RemoveActiveAny(r) ==
  /\ At(r, "removeRead")
  /\ Goto(r, IF active[ctx[r].target] # "none" THEN "removeClear" ELSE "removeWrite")
  /\ UNCHANGED <<org, member, active, invite>>

\* The users row is read; someone who leaves keeps the organization active.
RemoveActive(r) ==
  /\ At(r, "removeRead")
  /\ Goto(r, IF active[ctx[r].target] = "this" THEN "removeClear" ELSE "removeWrite")
  /\ UNCHANGED <<org, member, active, invite>>

\* Seeded fault: the actor's active organization is cleared.
RemoveClearActor(r) ==
  /\ At(r, "removeClear")
  /\ active' = [active EXCEPT ![ctx[r].actor] = "none"]
  /\ Goto(r, "removeWrite")
  /\ UNCHANGED <<org, member, invite>>

\* clearActiveOrgForUser, whatever is active by now.
RemoveClear(r) ==
  /\ At(r, "removeClear")
  /\ active' = [active EXCEPT ![ctx[r].target] = "none"]
  /\ Goto(r, "removeWrite")
  /\ UNCHANGED <<org, member, invite>>

RemoveWrite(r) ==
  /\ At(r, "removeWrite")
  /\ member' = [member EXCEPT ![ctx[r].target] = NotMember]
  /\ Finish(r)
  /\ UNCHANGED <<org, active, invite>>

-----------------------------------------------------------------------------
(* transferOwnership.                                                      *)

TransferActor(r, a, u) ==
  /\ "transfer" \in workload
  /\ Role(a) = "owner"
  /\ u # a
  /\ Arrive(r, "successor", [Blank EXCEPT !.actor = a, !.target = u])
  /\ UNCHANGED <<org, member, active, invite>>

TransferSuccessor(r) ==
  /\ At(r, "successor")
  /\ IF Role(ctx[r].target) # "none"
     THEN /\ stage' = [stage EXCEPT ![r] = "transfer"]
          /\ ctx' = [ctx EXCEPT ![r].seen = Role(ctx[r].target)]
     ELSE Finish(r)
  /\ UNCHANGED <<org, member, active, invite>>

\* Both updates in one transaction; an update of a missing row does nothing.
TransferWrite(r) ==
  /\ At(r, "transfer")
  /\ member' = [u \in Users |->
                  IF Role(u) = "none" THEN member[u]
                  ELSE IF u = ctx[r].target THEN [member[u] EXCEPT !.role = "owner"]
                  ELSE IF u = ctx[r].actor THEN [member[u] EXCEPT !.role = "admin"]
                  ELSE member[u]]
  /\ Finish(r)
  /\ UNCHANGED <<org, active, invite>>

-----------------------------------------------------------------------------
(* Deleting the organization, by one of its owners.                        *)

DeleteActor(r, a) ==
  /\ "delete" \in workload
  /\ Role(a) = "owner"
  /\ Arrive(r, "deleteClear", [Blank EXCEPT !.actor = a])
  /\ UNCHANGED <<org, member, active, invite>>

\* Nobody has this organization active any more.
Cleared == [u \in Users |-> IF active[u] = "this" THEN "none" ELSE active[u]]

DeleteClear(r) ==
  /\ At(r, "deleteClear")
  /\ active' = Cleared
  /\ Goto(r, "delete")
  /\ UNCHANGED <<org, member, invite>>

\* Seeded fault: the foreign key of org_invitations does not cascade.
DeleteWriteKeepsInvitations(r) ==
  /\ At(r, "delete")
  /\ org' = "gone"
  /\ member' = [u \in Users |-> NotMember]
  /\ active' = Cleared
  /\ Finish(r)
  /\ UNCHANGED invite

\* Members and invitations cascade, activeOrgId is set null.
DeleteWrite(r) ==
  /\ At(r, "delete")
  /\ org' = "gone"
  /\ member' = [u \in Users |-> NotMember]
  /\ active' = Cleared
  /\ invite' = [i \in Invitations |->
                  IF invite[i].status = "absent" THEN invite[i]
                  ELSE [NoInvite EXCEPT !.status = "deleted"]]
  /\ Finish(r)

-----------------------------------------------------------------------------
(* Invitations.  The inviter, and whoever revokes, need only be            *)
(* authenticated; whoever holds the token may accept.                      *)

InviteArrive(r, u, role) ==
  /\ "invite" \in workload
  /\ org = "live"
  /\ Role(u) = "none"
  /\ Arrive(r, "findPending", [Blank EXCEPT !.target = u, !.role = role])
  /\ UNCHANGED <<org, member, active, invite>>

\* findPending does not look at expiresAt.
InviteFindPending(r) ==
  /\ At(r, "findPending")
  /\ IF \E i \in Invitations : /\ invite[i].status = "pending"
                               /\ invite[i].user = ctx[r].target
     THEN Finish(r) ELSE Goto(r, "inviteWrite")
  /\ UNCHANGED <<org, member, active, invite>>

InviteWrite(r, i) ==
  /\ At(r, "inviteWrite")
  /\ invite[i].status = "absent"
  /\ invite' = IF org = "live"
               THEN [invite EXCEPT
                       ![i] = [status |-> "pending", user |-> ctx[r].target,
                               role |-> ctx[r].role, lapsed |-> FALSE,
                               halted |-> FALSE]]
               ELSE invite
  /\ Finish(r)
  /\ UNCHANGED <<org, member, active>>

\* Seeded fault: findByToken lost its status condition.
AcceptFindAnyStatus(r, u, i) ==
  /\ "accept" \in workload
  /\ invite[i].status \notin {"absent", "deleted"}
  /\ Arrive(r, IF invite[i].lapsed THEN "expire" ELSE "acceptMember",
            [Blank EXCEPT !.actor = u, !.invite = i, !.role = invite[i].role])
  /\ UNCHANGED <<org, member, active, invite>>

\* findByToken, which marks a pending invitation past its expiry.
AcceptFind(r, u, i) ==
  /\ "accept" \in workload
  /\ invite[i].status = "pending"
  /\ Arrive(r, IF invite[i].lapsed THEN "expire" ELSE "acceptMember",
            [Blank EXCEPT !.actor = u, !.invite = i, !.role = invite[i].role])
  /\ UNCHANGED <<org, member, active, invite>>

AcceptExpire(r) ==
  /\ At(r, "expire")
  /\ SetStatus(ctx[r].invite, "expired")
  /\ Finish(r)
  /\ UNCHANGED <<org, member, active>>

AcceptMember(r) ==
  /\ At(r, "acceptMember")
  /\ IF Role(ctx[r].actor) = "none" THEN Goto(r, "acceptJoin") ELSE Finish(r)
  /\ UNCHANGED <<org, member, active, invite>>

\* addMember, as in CreateOwner.
AcceptJoin(r) ==
  /\ At(r, "acceptJoin")
  /\ IF org = "live" /\ Role(ctx[r].actor) = "none"
     THEN /\ member' = [member EXCEPT ![ctx[r].actor] =
                          [role |-> ctx[r].role, via |-> ctx[r].invite]]
          /\ Goto(r, "acceptMark")
     ELSE /\ UNCHANGED member
          /\ Finish(r)
  /\ UNCHANGED <<org, active, invite>>

AcceptMark(r) ==
  /\ At(r, "acceptMark")
  /\ SetStatus(ctx[r].invite, "accepted")
  /\ Finish(r)
  /\ UNCHANGED <<org, member, active>>

RevokeFind(r, i) ==
  /\ "revoke" \in workload
  /\ invite[i].status = "pending"
  /\ Arrive(r, "revoke", [Blank EXCEPT !.invite = i])
  /\ UNCHANGED <<org, member, active, invite>>

RevokeWrite(r) ==
  /\ At(r, "revoke")
  /\ SetStatus(ctx[r].invite, "revoked")
  /\ Finish(r)
  /\ UNCHANGED <<org, member, active>>

-----------------------------------------------------------------------------
(* The active organization: setActiveOrg, and resolveOrgContext, which     *)
(* every issue of tokens runs.                                             *)

SwitchArrive(r, u) ==
  /\ "switch" \in workload
  /\ Role(u) # "none"
  /\ Arrive(r, "activate", [Blank EXCEPT !.actor = u])
  /\ UNCHANGED <<org, member, active, invite>>

\* The foreign key refuses an organization that is gone.
SwitchWrite(r) ==
  /\ At(r, "activate")
  /\ IF org = "live"
     THEN /\ active' = [active EXCEPT ![ctx[r].actor] = "this"]
          /\ stage' = [stage EXCEPT ![r] = "resolve"]
          /\ ctx' = [q \in Requests |->
                       [ctx[q] EXCEPT !.switched =
                          @ \/ (At(q, "removeWrite") /\ ctx[q].target = ctx[r].actor)]]
     ELSE /\ UNCHANGED active
          /\ Finish(r)
  /\ UNCHANGED <<org, member, invite>>

\* The same for another organization, of which the account stays a member.
SwitchElsewhere(u) ==
  /\ "switch" \in workload
  /\ active[u] # "other"
  /\ active' = [active EXCEPT ![u] = "other"]
  /\ UNCHANGED <<org, member, invite, stage, ctx>>

\* A login or refresh read the users row.
ResolveArrive(r, u) ==
  /\ "switch" \in workload
  /\ active[u] = "this"
  /\ Arrive(r, "resolve", [Blank EXCEPT !.actor = u])
  /\ UNCHANGED <<org, member, active, invite>>

\* getMemberOrgContext
Resolve(r) ==
  /\ At(r, "resolve")
  /\ IF Role(ctx[r].actor) # "none" THEN Finish(r) ELSE Goto(r, "deactivate")
  /\ UNCHANGED <<org, member, active, invite>>

\* "User is no longer a member -- clear it gracefully", whatever it is by now.
Deactivate(r) ==
  /\ At(r, "deactivate")
  /\ active' = [active EXCEPT ![ctx[r].actor] = "none"]
  /\ Finish(r)
  /\ UNCHANGED <<org, member, invite>>

-----------------------------------------------------------------------------
(* Time and failure.                                                       *)

Lapse(i) ==
  /\ "lapse" \in workload
  /\ invite[i].status = "pending"
  /\ ~invite[i].lapsed
  /\ invite' = [invite EXCEPT ![i].lapsed = TRUE]
  /\ UNCHANGED <<org, member, active, stage, ctx>>

\* A handler stops at an await: a statement failed or the process restarted.
Abort(r) ==
  /\ "abort" \in workload
  /\ stage[r] # "idle"
  /\ invite' = [i \in Invitations |->
                  [invite[i] EXCEPT !.halted =
                     @ \/ (At(r, "acceptMark") /\ ctx[r].invite = i)]]
  /\ Finish(r)
  /\ UNCHANGED <<org, member, active>>

-----------------------------------------------------------------------------
MemberStep(r) ==
  \/ \E u \in Users : Create(r, u)
  \/ CreateOwner(r)
  \/ \E a, u \in Users, role \in {"member", "admin", "owner"} :
       RoleTarget(r, a, u, role)
  \/ RoleActor(r)
  \/ RoleWrite(r)
  \/ \E a, u \in Users : RemoveTarget(r, a, u)
  \/ RemoveCount(r)
  \/ RemoveActor(r)
  \/ RemoveActive(r)
  \/ RemoveClear(r)
  \/ RemoveWrite(r)

OwnerStep(r) ==
  \/ \E a, u \in Users : TransferActor(r, a, u)
  \/ TransferSuccessor(r)
  \/ TransferWrite(r)
  \/ \E a \in Users : DeleteActor(r, a)
  \/ DeleteClear(r)
  \/ DeleteWrite(r)

InviteStep(r) ==
  \/ \E u \in Users, role \in InvitedRoles : InviteArrive(r, u, role)
  \/ InviteFindPending(r)
  \/ \E i \in Invitations : InviteWrite(r, i)
  \/ \E u \in Users, i \in Invitations : AcceptFind(r, u, i)
  \/ AcceptExpire(r)
  \/ AcceptMember(r)
  \/ AcceptJoin(r)
  \/ AcceptMark(r)
  \/ \E i \in Invitations : RevokeFind(r, i)
  \/ RevokeWrite(r)

ActiveStep(r) ==
  \/ \E u \in Users : SwitchArrive(r, u)
  \/ SwitchWrite(r)
  \/ \E u \in Users : ResolveArrive(r, u)
  \/ Resolve(r)
  \/ Deactivate(r)

Environment ==
  \/ \E u \in Users : SwitchElsewhere(u)
  \/ \E i \in Invitations : Lapse(i)
  \/ \E r \in Requests : Abort(r)

Step ==
  \/ \E r \in Requests : \/ MemberStep(r)
                         \/ OwnerStep(r)
                         \/ InviteStep(r)
                         \/ ActiveStep(r)
  \/ Environment

Next == Step /\ UNCHANGED workload

Spec == Init /\ [][Next]_vars

-----------------------------------------------------------------------------
(* Properties.                                                             *)

\* Every variable has its type, and an organization that does not exist has
\* no members, no invitations and nobody has it active.
TypeOK ==
  /\ org \in {"absent", "live", "gone"}
  /\ member \in [Users -> [role : Roles, via : Invitations \cup {None}]]
  /\ active \in [Users -> {"none", "this", "other"}]
  /\ invite \in [Invitations -> [status : Statuses, user : Users \cup {None},
                                 role : Roles, lapsed : BOOLEAN,
                                 halted : BOOLEAN]]
  /\ stage \in [Requests -> Stages]
  /\ ctx \in [Requests -> [actor : Users \cup {None},
                           target : Users \cup {None}, seen : Roles,
                           owners : Nat, role : Roles,
                           invite : Invitations \cup {None},
                           switched : BOOLEAN]]
  /\ org # "live" =>
       /\ \A u \in Users : active[u] # "this"
       /\ \A u \in Users : member[u] = NotMember
       /\ \A i \in Invitations : invite[i].status \in {"absent", "deleted"}

\* Request r takes its last step, the write it has prepared.
Writes(r) ==
  /\ stage[r] \in {"roleWrite", "removeWrite", "transfer"}
  /\ stage'[r] = "idle"

\* What the request read no longer holds when it writes.
Stale(r) ==
  \/ Role(ctx[r].target) # ctx[r].seen
  \/ At(r, "transfer") /\ Role(ctx[r].actor) # "owner"
  \/ At(r, "removeWrite") /\ ctx[r].seen = "owner"
       /\ Cardinality(Owners) # ctx[r].owners

\* An organization with one owner keeps exactly one, whatever is asked of it:
\* only a request that acts on a role or a count another request has changed
\* since can leave it with none or two (org.service removeMember "Can't remove
\* the last owner", transferOwnership "Atomic swap").
SoleOwnerKept ==
  [][Cardinality(Owners) = 1 /\ Cardinality(Owners') # 1 /\ org' = "live" =>
       \E r \in Requests : Writes(r) /\ Stale(r)]_vars

\* Nobody is deposed by another: an owner loses the role by leaving, by handing
\* it over, with the organization, or to a request that read a lower role,
\* before the promotion (the rank tests of updateMemberRole and removeMember).
OwnerNotDeposed ==
  [][\A u \in Users :
       Role(u) = "owner" /\ member'[u].role # "owner" /\ org' = "live" =>
         \E r \in Requests :
           /\ Writes(r)
           /\ \/ ctx[r].actor = u
              \/ ctx[r].target = u /\ ctx[r].seen # "owner"]_vars

\* An invitation someone joined with is open to a second account only until
\* the request that used it marks it: it is never left pending, unless that
\* request stopped (acceptInvitation, "has already been used").
UsedInvitationCloses ==
  \A u \in Users :
    LET i == member[u].via
    IN  i # None /\ invite[i].status = "pending" =>
          \/ invite[i].halted
          \/ \E r \in Requests : At(r, "acceptMark") /\ ctx[r].invite = i

\* An invitation is closed once it is accepted, revoked or expired and no
\* acceptance that saw it pending is in flight.
Closed(i) ==
  /\ invite[i].status \in {"accepted", "revoked", "expired"}
  /\ \A r \in Requests :
       ctx[r].invite = i => stage[r] \notin {"acceptMember", "acceptJoin"}

\* Nobody joins through a closed invitation, and it never opens again.
InvitationStaysClosed ==
  [][\A i \in Invitations :
       Closed(i) =>
         /\ Closed(i)' \/ invite'[i].status = "deleted"
         /\ \A u \in Users : member'[u].via = i => member[u].via = i]_vars

\* Whoever is removed by another no longer has this organization active when
\* the membership goes, whatever logins, switches and removals overlap, unless
\* the account switched to it after the removal had cleared it or seen nothing
\* to clear (removeMember, "Clear activeOrgId if the removed user had this org
\* active").
RemovedNotActive ==
  \A r \in Requests :
    At(r, "removeWrite") /\ ctx[r].actor # ctx[r].target
      => active[ctx[r].target] # "this" \/ ctx[r].switched

\* Another organization is active, and no request is about to clear it because
\* it read that this one was.
Elsewhere(u) ==
  /\ active[u] = "other"
  /\ \A r \in Requests :
       /\ At(r, "removeClear") => ctx[r].target # u
       /\ stage[r] \in {"resolve", "deactivate"} => ctx[r].actor # u

\* What happens in this organization, removals and its deletion included, does
\* not touch an account that has another active, until it switches back.
ElsewhereKept ==
  [][\A u \in Users :
       Elsewhere(u) =>
         \/ Elsewhere(u)'
         \/ /\ active'[u] = "this"
            /\ \E r \in Requests : At(r, "activate") /\ ctx[r].actor = u]_vars

-----------------------------------------------------------------------------
(* What a comment says, and the code does not do.                          *)

\* org.service removeMember: "Can't remove the last owner".  An organization
\* that has an owner has one as long as it exists.
LastOwnerStays ==
  [][Owners # {} /\ org' = "live" => Owners' # {}]_vars
=============================================================================

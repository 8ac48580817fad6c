-------------------------- MODULE OrgMembership_proofs -------------------------
(***************************************************************************)
(* Theorems of OrgMembership, for any finite set of accounts, any sets of  *)
(* invitations and requests, and any workloads.                            *)
(***************************************************************************)
EXTENDS OrgMembership, FiniteSetTheorems, TLAPS

-----------------------------------------------------------------------------
(* The inductive invariant.                                                *)

Members == [role : Roles, via : Invitations \cup {None}]

InviteRows == [status : Statuses, user : Users \cup {None}, role : Roles,
               lapsed : BOOLEAN, halted : BOOLEAN]

Locals == [actor : Users \cup {None}, target : Users \cup {None}, seen : Roles,
           owners : Nat, role : Roles, invite : Invitations \cup {None},
           switched : BOOLEAN]

TypeInv ==
  /\ org \in {"absent", "live", "gone"}
  /\ member \in [Users -> Members]
  /\ active \in [Users -> {"none", "this", "other"}]
  /\ invite \in [Invitations -> InviteRows]
  /\ stage \in [Requests -> Stages]
  /\ ctx \in [Requests -> Locals]

\* Without the organization there is nothing that names it.
OrgInv ==
  org # "live" =>
    /\ \A u \in Users : active[u] # "this"
    /\ \A u \in Users : member[u] = NotMember
    /\ \A i \in Invitations : invite[i].status \in {"absent", "deleted"}

ActorStages ==
  {"addOwner", "roleActor", "roleWrite", "count", "removeActor", "removeRead",
   "removeClear", "removeWrite", "successor", "transfer", "acceptMember",
   "acceptJoin", "acceptMark", "expire", "activate", "resolve", "deactivate"}

TargetStages ==
  {"roleActor", "roleWrite", "count", "removeActor", "removeRead",
   "removeClear", "removeWrite", "successor", "transfer", "findPending",
   "inviteWrite"}

InviteStages ==
  {"acceptMember", "acceptJoin", "acceptMark", "expire", "revoke"}

\* What the tests a request has passed tell of the locals it carries.
Sound(s, c) ==
  /\ s \in ActorStages => c.actor \in Users
  /\ s \in TargetStages => c.target \in Users
  /\ s \in InviteStages =>
       c.invite \in Invitations /\ invite[c.invite].status # "absent"
  /\ s = "roleWrite" => c.seen # "owner" /\ c.role # "owner"
  /\ s \in {"removeActor", "removeRead", "removeClear", "removeWrite"} =>
       (c.seen = "owner" => c.owners > 1)
  /\ s \in {"removeRead", "removeClear", "removeWrite"} =>
       c.actor = c.target \/ c.seen # "owner"
  /\ s \in {"successor", "transfer"} => c.actor # c.target
  /\ s = "transfer" => c.seen # "none"
  /\ s \in {"findPending", "inviteWrite", "acceptMember", "acceptJoin"} =>
       c.role # "owner"

RequestInv == \A r \in Requests : Sound(stage[r], ctx[r])

\* Nobody is invited as an owner, and nobody joined by an invitation that was
\* never written.
InviteInv ==
  /\ \A i \in Invitations : invite[i].role # "owner"
  /\ \A u \in Users :
       member[u].via # None => invite[member[u].via].status # "absent"

\* Nobody has been the owner yet: there is none, and nobody hands over.
Unowned ==
  /\ Owners = {}
  /\ \A r \in Requests : stage[r] \notin {"successor", "transfer"}

\* One request creates the organization, and until it adds the first owner
\* nobody else can become one.
FirstOwnerInv ==
  /\ org = "absent" => Unowned /\ \A r \in Requests : ~At(r, "addOwner")
  /\ \A r \in Requests : At(r, "addOwner") => Unowned
  /\ \A q, r \in Requests : At(q, "addOwner") /\ At(r, "addOwner") => q = r

IInv ==
  /\ TypeInv /\ workload \in Workloads
  /\ OrgInv /\ RequestInv /\ InviteInv /\ UsedInvitationCloses
  /\ FirstOwnerInv

\* ROLE_RANK: the owner outranks everybody, and nobody the owner.
LEMMA RankFacts ==
  ASSUME NEW a \in Roles, NEW b \in Roles, Rank[a] < Rank[b]
  PROVE  a # "owner"
<1>1. Rank["none"] = 0 /\ Rank["member"] = 1 /\ Rank["admin"] = 2
      /\ Rank["owner"] = 3
  BY DEF Rank
<1>. QED
  BY <1>1 DEF Roles

LEMMA OwnersFinite ==
  IsFiniteSet(Owners) /\ Cardinality(Owners) \in Nat
<1>1. Owners \subseteq Users
  BY DEF Owners
<1>. QED
  BY <1>1, UsersAreFinite, FS_Subset, FS_CardinalityType

\* What the columns activeOrgId must be.
ActiveOK ==
  /\ active \in [Users -> {"none", "this", "other"}]
  /\ org # "live" => \A u \in Users : active[u] # "this"

LEMMA Blanked ==
  Blank \in Locals /\ "idle" \in Stages /\ Sound("idle", Blank)
BY DEF Blank, Locals, Roles, Stages, Sound, ActorStages, TargetStages,
       InviteStages

LEMMA IInvImplies == IInv => TypeOK /\ UsedInvitationCloses
BY DEF IInv, TypeInv, OrgInv, TypeOK, Members, InviteRows, Locals

LEMMA InitIInv == Init => IInv
<1>. SUFFICES ASSUME Init PROVE IInv
  OBVIOUS
<1>1. TypeInv
  BY Blanked DEF Init, TypeInv, Members, InviteRows, NotMember, NoInvite, Roles,
                 Statuses
<1>2. OrgInv
  BY DEF Init, OrgInv, NoInvite
<1>3. RequestInv
  BY Blanked DEF Init, RequestInv
<1>4. \A u \in Users : member[u] = NotMember
  BY DEF Init
<1>5. InviteInv /\ UsedInvitationCloses
  BY <1>4 DEF Init, InviteInv, UsedInvitationCloses, NotMember, NoInvite
<1>6. FirstOwnerInv
  BY <1>4 DEF Init, FirstOwnerInv, Unowned, Owners, Role, NotMember, At
<1>. QED
  BY <1>1, <1>2, <1>3, <1>5, <1>6 DEF Init, IInv

-----------------------------------------------------------------------------
(* A request that moves on.                                                *)

\* Request r goes on to s with the locals c.
Moves(r, s, c) ==
  /\ stage' = [stage EXCEPT ![r] = s]
  /\ ctx' = [ctx EXCEPT ![r] = c]

LEMMA MovesIs ==
  ASSUME IInv, NEW r \in Requests
  PROVE  /\ Finish(r) => Moves(r, "idle", Blank)
         /\ \A s : Goto(r, s) => Moves(r, s, ctx[r])
         /\ \A s, c : Arrive(r, s, c) => Moves(r, s, c) /\ stage[r] = "idle"
BY DEF IInv, TypeInv, Moves, Finish, Goto, Arrive

LEMMA MovedTypes ==
  ASSUME IInv, NEW r \in Requests, NEW s \in Stages, NEW c \in Locals,
         Moves(r, s, c)
  PROVE  /\ stage' \in [Requests -> Stages] /\ ctx' \in [Requests -> Locals]
         /\ stage'[r] = s /\ ctx'[r] = c
         /\ \A x \in Requests : x # r => stage'[x] = stage[x] /\ ctx'[x] = ctx[x]
BY DEF IInv, TypeInv, Moves

\* An invitation that was written does not come undone, and so neither do the
\* others' locals.
LEMMA MovedSound ==
  ASSUME IInv, NEW r \in Requests, NEW s \in Stages, NEW c \in Locals,
         Moves(r, s, c), Sound(s, c)',
         \A i \in Invitations :
           invite[i].status # "absent" => invite'[i].status # "absent"
  PROVE  RequestInv'
<1>1. ASSUME NEW x \in Requests PROVE Sound(stage[x], ctx[x])'
  <2>1. CASE x = r
    <3>1. stage'[x] = s /\ ctx'[x] = c
      BY <2>1, MovedTypes
    <3>. QED
      BY <3>1 DEF Sound
  <2>2. CASE x # r
    <3>1. stage'[x] = stage[x] /\ ctx'[x] = ctx[x] /\ Sound(stage[x], ctx[x])
      BY <2>2, MovedTypes DEF IInv, RequestInv
    <3>. QED
      BY <3>1 DEF Sound
  <2>. QED
    BY <2>1, <2>2
<1>. QED
  BY <1>1 DEF RequestInv

\* The requests that may take part in adding an owner.
LEMMA MovedFirst ==
  ASSUME IInv, NEW r \in Requests, NEW s \in Stages, NEW c \in Locals,
         Moves(r, s, c), org' = org \/ org' = "gone", Owners = {} => Owners' = {},
         s # "addOwner",
         s \in {"successor", "transfer"} => Owners # {} \/ stage[r] = "successor"
  PROVE  FirstOwnerInv'
<1>1. /\ stage'[r] = s
      /\ \A x \in Requests : x # r => stage'[x] = stage[x]
  BY MovedTypes
<1>2. Unowned => Unowned'
  BY <1>1 DEF Unowned
<1>3. \A x \in Requests : At(x, "addOwner")' => At(x, "addOwner")
  BY <1>1 DEF At
<1>4. org' = "absent" => org = "absent"
  OBVIOUS
<1>. QED
  BY <1>2, <1>3, <1>4 DEF IInv, FirstOwnerInv

\* A used invitation is still awaited by the request that used it.
LEMMA MovedUsed ==
  ASSUME IInv, NEW r \in Requests, NEW s \in Stages, NEW c \in Locals,
         Moves(r, s, c), stage[r] # "acceptMark", UNCHANGED invite,
         \A u \in Users : member'[u].via \in {member[u].via, None}
  PROVE  UsedInvitationCloses'
<1>1. \A x \in Requests : x # r => stage'[x] = stage[x] /\ ctx'[x] = ctx[x]
  BY MovedTypes
<1>2. ASSUME NEW u \in Users, NEW i, i = member'[u].via, i # None,
             invite'[i].status = "pending"
      PROVE  invite'[i].halted
             \/ \E x \in Requests : At(x, "acceptMark")' /\ ctx'[x].invite = i
  <2>1. i = member[u].via /\ invite[i].status = "pending"
    BY <1>2
  <2>2. invite[i].halted
        \/ \E x \in Requests : At(x, "acceptMark") /\ ctx[x].invite = i
    BY <1>2, <2>1 DEF IInv, UsedInvitationCloses
  <2>. QED
    BY <1>1, <2>2 DEF At
<1>. QED
  BY <1>2 DEF UsedInvitationCloses

\* A step of a request that writes at most who has the organization active.
LEMMA ReadStep ==
  ASSUME IInv, UNCHANGED <<org, member, invite, workload>>,
         ActiveOK',
         NEW r \in Requests, NEW s \in Stages, NEW c \in Locals,
         Moves(r, s, c), Sound(s, c), stage[r] # "acceptMark", s # "addOwner",
         s \in {"successor", "transfer"} => Owners # {} \/ stage[r] = "successor"
  PROVE  IInv'
<1>1. TypeInv'
  BY MovedTypes DEF IInv, TypeInv, ActiveOK
<1>2. OrgInv' /\ InviteInv'
  BY DEF IInv, OrgInv, InviteInv, ActiveOK
<1>3. RequestInv'
  <2>1. Sound(s, c)'
    BY DEF Sound
  <2>. QED
    BY <2>1, MovedSound
<1>4. Owners' = Owners
  BY DEF Owners, Role
<1>5. FirstOwnerInv' /\ UsedInvitationCloses'
  BY <1>4, MovedFirst, MovedUsed
<1>. QED
  BY <1>1, <1>2, <1>3, <1>5 DEF IInv

-----------------------------------------------------------------------------
(* Steps that only read, or write the active organization.                 *)

LEMMA InFlight ==
  ASSUME IInv, NEW r \in Requests
  PROVE  /\ Sound(stage[r], ctx[r]) /\ ctx[r] \in Locals /\ stage[r] \in Stages
         /\ ActiveOK /\ (UNCHANGED <<org, active>> => ActiveOK')
         /\ \A u \in Users : Role(u) \in Roles
BY DEF IInv, RequestInv, TypeInv, OrgInv, Role, Members, ActiveOK

\* A request that begins.
LEMMA ArriveStep ==
  ASSUME IInv, NEW r \in Requests, UNCHANGED <<org, member, active, invite, workload>>,
         NEW s \in Stages, NEW c \in Locals, Arrive(r, s, c), Sound(s, c),
         s # "addOwner", s \in {"successor", "transfer"} => Owners # {}
  PROVE  IInv'
BY InFlight, MovesIs, ReadStep

LEMMA ArrivalsKeep ==
  ASSUME IInv, UNCHANGED workload, NEW r \in Requests
  PROVE  /\ \A a, u \in Users, role \in {"member", "admin", "owner"} :
              RoleTarget(r, a, u, role) => IInv'
         /\ \A a, u \in Users : RemoveTarget(r, a, u) => IInv'
         /\ \A a, u \in Users : TransferActor(r, a, u) => IInv'
         /\ \A a \in Users : DeleteActor(r, a) => IInv'
         /\ \A u \in Users, role \in InvitedRoles :
              InviteArrive(r, u, role) => IInv'
         /\ \A u \in Users, i \in Invitations : AcceptFind(r, u, i) => IInv'
         /\ \A i \in Invitations : RevokeFind(r, i) => IInv'
         /\ \A u \in Users : SwitchArrive(r, u) \/ ResolveArrive(r, u) => IInv'
<1>. USE DEF Sound, ActorStages, TargetStages, InviteStages
<1>1. ASSUME NEW a \in Users, NEW u \in Users,
             NEW role \in {"member", "admin", "owner"}, RoleTarget(r, a, u, role)
      PROVE  IInv'
  <2>. DEFINE c == [Blank EXCEPT !.actor = a, !.target = u, !.seen = Role(u),
                                 !.role = role]
  <2>1. c \in Locals /\ c.actor = a /\ c.target = u
    BY InFlight DEF Blank, Locals, Roles
  <2>2. Arrive(r, "roleActor", c) /\ UNCHANGED <<org, member, active, invite>>
    BY <1>1 DEF RoleTarget
  <2>. HIDE DEF c
  <2>3. Sound("roleActor", c)
    BY <2>1
  <2>. QED
    BY <2>1, <2>2, <2>3, ArriveStep DEF Stages
<1>2. ASSUME NEW a \in Users, NEW u \in Users, RemoveTarget(r, a, u)
      PROVE  IInv'
  <2>. DEFINE c == [Blank EXCEPT !.actor = a, !.target = u, !.seen = Role(u)]
              s == IF Role(u) = "owner" THEN "count" ELSE AfterCount(c)
  <2>1. c \in Locals /\ c.actor = a /\ c.target = u /\ c.seen = Role(u)
    BY InFlight DEF Blank, Locals, Roles
  <2>2. Arrive(r, s, c) /\ UNCHANGED <<org, member, active, invite>>
    BY <1>2 DEF RemoveTarget
  <2>. HIDE DEF c
  <2>3. Sound(s, c) /\ s \in {"count", "removeWrite", "removeActor"}
    BY <2>1 DEF AfterCount
  <2>. HIDE DEF s
  <2>. QED
    BY <2>1, <2>2, <2>3, ArriveStep DEF Stages
<1>3. ASSUME NEW a \in Users, NEW u \in Users, TransferActor(r, a, u)
      PROVE  IInv'
  <2>. DEFINE c == [Blank EXCEPT !.actor = a, !.target = u]
  <2>1. c \in Locals /\ c.actor = a /\ c.target = u
    BY DEF Blank, Locals, Roles
  <2>2. /\ Arrive(r, "successor", c) /\ UNCHANGED <<org, member, active, invite>>
        /\ a # u /\ Owners # {}
    BY <1>3 DEF TransferActor, Owners
  <2>. HIDE DEF c
  <2>3. Sound("successor", c)
    BY <2>1, <2>2
  <2>. QED
    BY <2>1, <2>2, <2>3, ArriveStep DEF Stages
<1>4. ASSUME NEW a \in Users, DeleteActor(r, a)
      PROVE  IInv'
  <2>. DEFINE c == [Blank EXCEPT !.actor = a]
  <2>1. c \in Locals
    BY DEF Blank, Locals, Roles
  <2>2. Arrive(r, "deleteClear", c) /\ UNCHANGED <<org, member, active, invite>>
    BY <1>4 DEF DeleteActor
  <2>. HIDE DEF c
  <2>3. Sound("deleteClear", c)
    OBVIOUS
  <2>. QED
    BY <2>1, <2>2, <2>3, ArriveStep DEF Stages
<1>5. ASSUME NEW u \in Users, NEW role \in InvitedRoles, InviteArrive(r, u, role)
      PROVE  IInv'
  <2>. DEFINE c == [Blank EXCEPT !.target = u, !.role = role]
  <2>1. role \in {"member", "admin"}
    BY NoOwnerByInvitation
  <2>2. c \in Locals /\ c.target = u /\ c.role = role
    BY <2>1 DEF Blank, Locals, Roles
  <2>3. Arrive(r, "findPending", c) /\ UNCHANGED <<org, member, active, invite>>
    BY <1>5 DEF InviteArrive
  <2>. HIDE DEF c
  <2>4. Sound("findPending", c)
    BY <2>1, <2>2
  <2>. QED
    BY <2>2, <2>3, <2>4, ArriveStep DEF Stages
<1>6. ASSUME NEW u \in Users, NEW i \in Invitations, AcceptFind(r, u, i)
      PROVE  IInv'
  <2>. DEFINE c == [Blank EXCEPT !.actor = u, !.invite = i,
                                 !.role = invite[i].role]
              s == IF invite[i].lapsed THEN "expire" ELSE "acceptMember"
  <2>1. /\ invite[i].role \in Roles /\ invite[i].role # "owner"
        /\ invite[i].status = "pending"
    BY <1>6 DEF IInv, TypeInv, InviteRows, InviteInv, AcceptFind
  <2>2. c \in Locals /\ c.actor = u /\ c.invite = i /\ c.role = invite[i].role
    BY <2>1 DEF Blank, Locals, Roles
  <2>3. Arrive(r, s, c) /\ UNCHANGED <<org, member, active, invite>>
    BY <1>6 DEF AcceptFind
  <2>. HIDE DEF c
  <2>4. Sound(s, c) /\ s \in {"expire", "acceptMember"}
    BY <2>1, <2>2
  <2>. HIDE DEF s
  <2>. QED
    BY <2>2, <2>3, <2>4, ArriveStep DEF Stages
<1>7. ASSUME NEW i \in Invitations, RevokeFind(r, i)
      PROVE  IInv'
  <2>. DEFINE c == [Blank EXCEPT !.invite = i]
  <2>1. c \in Locals /\ c.invite = i /\ invite[i].status = "pending"
    BY <1>7 DEF Blank, Locals, Roles, RevokeFind
  <2>2. Arrive(r, "revoke", c) /\ UNCHANGED <<org, member, active, invite>>
    BY <1>7 DEF RevokeFind
  <2>. HIDE DEF c
  <2>3. Sound("revoke", c)
    BY <2>1
  <2>. QED
    BY <2>1, <2>2, <2>3, ArriveStep DEF Stages
<1>8. ASSUME NEW u \in Users, SwitchArrive(r, u) \/ ResolveArrive(r, u)
      PROVE  IInv'
  <2>. DEFINE c == [Blank EXCEPT !.actor = u]
  <2>1. c \in Locals /\ c.actor = u
    BY DEF Blank, Locals, Roles
  <2>2. PICK s \in {"activate", "resolve"} :
          Arrive(r, s, c) /\ UNCHANGED <<org, member, active, invite>>
    BY <1>8 DEF SwitchArrive, ResolveArrive
  <2>. HIDE DEF c
  <2>3. Sound(s, c)
    BY <2>1
  <2>. QED
    BY <2>1, <2>2, <2>3, ArriveStep DEF Stages
<1>. QED
  BY <1>1, <1>2, <1>3, <1>4, <1>5, <1>6, <1>7, <1>8

\* A request that goes on with the locals it has, or ends.
LEMMA OnStep ==
  ASSUME IInv, UNCHANGED <<org, member, invite, workload>>,
         ActiveOK',
         NEW r \in Requests, stage[r] # "acceptMark", NEW s \in Stages,
         Finish(r) \/ (Goto(r, s) /\ Sound(s, ctx[r])),
         s \notin {"addOwner", "successor", "transfer"}
  PROVE  IInv'
<1>1. CASE Finish(r)
  BY <1>1, Blanked, MovesIs, ReadStep
<1>2. CASE Goto(r, s) /\ Sound(s, ctx[r])
  BY <1>2, InFlight, MovesIs, ReadStep
<1>. QED
  BY <1>1, <1>2

\* The tests of a request against what it read.
LEMMA ReadsKeep ==
  ASSUME IInv, UNCHANGED workload, NEW r \in Requests,
         \/ RoleActor(r) \/ RemoveActor(r) \/ RemoveActive(r)
         \/ InviteFindPending(r) \/ AcceptMember(r) \/ Resolve(r)
  PROVE  IInv'
<1>. USE DEF Sound, ActorStages, TargetStages, InviteStages
<1>1. UNCHANGED <<org, member, active, invite>> /\ stage[r] # "acceptMark"
  BY DEF RoleActor, RemoveActor, RemoveActive, InviteFindPending, AcceptMember,
         Resolve, At
<1>2. CASE RoleActor(r)
  <2>1. ASSUME Goto(r, "roleWrite") PROVE Finish(r) \/ Sound("roleWrite", ctx[r])
    <3>1. CASE Finish(r)
      BY <3>1
    <3>2. CASE /\ Rank[ctx[r].seen] < Rank[Role(ctx[r].actor)]
               /\ Rank[ctx[r].role] < Rank[Role(ctx[r].actor)]
      <4>1. ctx[r].actor \in Users /\ ctx[r].target \in Users
        BY <1>2, InFlight DEF RoleActor, At
      <4>2. Role(ctx[r].actor) \in Roles
            /\ ctx[r].seen \in Roles /\ ctx[r].role \in Roles
        BY <4>1, InFlight DEF Locals
      <4>3. ctx[r].seen # "owner" /\ ctx[r].role # "owner"
        BY <3>2, <4>2, RankFacts
      <4>. QED
        BY <4>1, <4>3
    <3>. QED
      BY <1>2, <3>1, <3>2 DEF RoleActor
  <2>. QED
    BY <1>1, <1>2, <2>1, InFlight, OnStep DEF RoleActor, Stages
<1>3. CASE RemoveActor(r)
  <2>1. ASSUME Goto(r, "removeRead")
        PROVE  Finish(r) \/ Sound("removeRead", ctx[r])
    <3>1. CASE Finish(r)
      BY <3>1
    <3>2. CASE Rank[ctx[r].seen] < Rank[Role(ctx[r].actor)]
      <4>1. ctx[r].actor \in Users /\ ctx[r].target \in Users
        BY <1>3, InFlight DEF RemoveActor, At
      <4>2. Role(ctx[r].actor) \in Roles /\ ctx[r].seen \in Roles
        BY <4>1, InFlight DEF Locals
      <4>3. ctx[r].seen # "owner"
        BY <3>2, <4>2, RankFacts
      <4>. QED
        BY <4>1, <4>3
    <3>. QED
      BY <1>3, <3>1, <3>2 DEF RemoveActor
  <2>. QED
    BY <1>1, <1>3, <2>1, InFlight, OnStep DEF RemoveActor, Stages
<1>4. CASE InviteFindPending(r)
  <2>1. Sound("inviteWrite", ctx[r])
    BY <1>4, InFlight DEF InviteFindPending, At
  <2>. QED
    BY <1>1, <1>4, <2>1, InFlight, OnStep DEF InviteFindPending, Stages
<1>5. CASE AcceptMember(r)
  <2>1. Sound("acceptJoin", ctx[r])
    BY <1>5, InFlight DEF AcceptMember, At
  <2>. QED
    BY <1>1, <1>5, <2>1, InFlight, OnStep DEF AcceptMember, Stages
<1>6. CASE Resolve(r)
  <2>1. Sound("deactivate", ctx[r])
    BY <1>6, InFlight DEF Resolve, At
  <2>. QED
    BY <1>1, <1>6, <2>1, InFlight, OnStep DEF Resolve, Stages
<1>7. CASE RemoveActive(r)
  <2>1. PICK s \in {"removeClear", "removeWrite"} : Goto(r, s)
    BY <1>7 DEF RemoveActive
  <2>2. Sound(s, ctx[r])
    BY <1>7, InFlight DEF RemoveActive, At
  <2>. QED
    BY <1>1, <2>1, <2>2, InFlight, OnStep DEF Stages
<1>. QED
  BY <1>2, <1>3, <1>4, <1>5, <1>6, <1>7

\* The count of owners, and the role of the successor, are kept for later.
LEMMA CountsKeep ==
  ASSUME IInv, UNCHANGED workload, NEW r \in Requests,
         RemoveCount(r) \/ TransferSuccessor(r)
  PROVE  IInv'
<1>. USE DEF Sound, ActorStages, TargetStages, InviteStages
<1>1. UNCHANGED <<org, member, active, invite>> /\ stage[r] # "acceptMark"
  BY DEF RemoveCount, TransferSuccessor, At
<1>2. CASE Finish(r)
  BY <1>1, <1>2, InFlight, OnStep, Blanked
<1>3. CASE RemoveCount(r) /\ ~Finish(r)
  <2>. DEFINE n == Cardinality(Owners)
              c == [ctx[r] EXCEPT !.owners = n]
              s == AfterCount(ctx[r])
  <2>1. /\ ~(n <= 1) /\ n \in Nat /\ ctx[r] \in Locals
        /\ ctx[r].actor \in Users /\ ctx[r].target \in Users
    BY <1>3, InFlight, OwnersFinite DEF RemoveCount, At
  <2>2. stage' = [stage EXCEPT ![r] = s]
        /\ ctx' = [ctx EXCEPT ![r].owners = n]
    BY <1>3 DEF RemoveCount
  <2>. HIDE DEF n
  <2>3. /\ c \in Locals /\ c.actor = ctx[r].actor /\ c.target = ctx[r].target
        /\ c.owners = n
    BY <2>1 DEF Locals
  <2>4. Moves(r, s, c)
    BY <2>2 DEF IInv, TypeInv, Moves
  <2>5. s \in {"removeWrite", "removeActor"}
        /\ (s = "removeWrite" => ctx[r].target = ctx[r].actor)
    BY DEF AfterCount
  <2>. HIDE DEF c, s
  <2>6. Sound(s, c)
    BY <2>1, <2>3, <2>5
  <2>. QED
    BY <1>1, <2>3, <2>4, <2>5, <2>6, InFlight, ReadStep DEF Stages
<1>4. CASE TransferSuccessor(r) /\ ~Finish(r)
  <2>. DEFINE seen == Role(ctx[r].target)
              c == [ctx[r] EXCEPT !.seen = seen]
  <2>1. /\ seen # "none" /\ ctx[r] \in Locals /\ stage[r] = "successor"
        /\ ctx[r].actor \in Users /\ ctx[r].target \in Users
        /\ ctx[r].actor # ctx[r].target
    BY <1>4, InFlight DEF TransferSuccessor, At
  <2>2. stage' = [stage EXCEPT ![r] = "transfer"]
        /\ ctx' = [ctx EXCEPT ![r].seen = seen]
    BY <1>4 DEF TransferSuccessor
  <2>3. seen \in Roles
    BY <2>1, InFlight
  <2>. HIDE DEF seen
  <2>4. /\ c \in Locals /\ c.actor = ctx[r].actor /\ c.target = ctx[r].target
        /\ c.seen = seen
    BY <2>1, <2>3 DEF Locals
  <2>5. Moves(r, "transfer", c)
    BY <2>2 DEF IInv, TypeInv, Moves
  <2>. HIDE DEF c
  <2>6. Sound("transfer", c)
    BY <2>1, <2>4
  <2>. QED
    BY <1>1, <2>1, <2>4, <2>5, <2>6, InFlight, ReadStep DEF Stages
<1>. QED
  BY <1>2, <1>3, <1>4

\* Locals that differ at most in what is remembered of a switch.
Alike(c, d) ==
  /\ d \in Locals
  /\ d.actor = c.actor /\ d.target = c.target /\ d.seen = c.seen
  /\ d.owners = c.owners /\ d.role = c.role /\ d.invite = c.invite

\* An account switches to the organization, which the others' locals may note.
LEMMA SwitchWriteIs ==
  ASSUME IInv, NEW r \in Requests, SwitchWrite(r), org = "live"
  PROVE  /\ stage' = [stage EXCEPT ![r] = "resolve"]
         /\ active' = [active EXCEPT ![ctx[r].actor] = "this"]
         /\ UNCHANGED <<org, member, invite>>
         /\ ctx' \in [Requests -> Locals]
         /\ \A x \in Requests : Alike(ctx[x], ctx'[x])
         /\ \A x \in Requests :
              ctx'[x].switched = (ctx[x].switched
                \/ (At(x, "removeWrite") /\ ctx[x].target = ctx[r].actor))
<1>1. /\ stage' = [stage EXCEPT ![r] = "resolve"]
      /\ active' = [active EXCEPT ![ctx[r].actor] = "this"]
      /\ ctx' = [q \in Requests |->
                   [ctx[q] EXCEPT !.switched =
                      @ \/ (At(q, "removeWrite") /\ ctx[q].target = ctx[r].actor)]]
      /\ UNCHANGED <<org, member, invite>>
  BY DEF SwitchWrite
<1>2. ASSUME NEW x \in Requests
      PROVE  /\ Alike(ctx[x], ctx'[x])
             /\ ctx'[x].switched = (ctx[x].switched
                  \/ (At(x, "removeWrite") /\ ctx[x].target = ctx[r].actor))
  <2>. DEFINE b == ctx[x].switched
                     \/ (At(x, "removeWrite") /\ ctx[x].target = ctx[r].actor)
  <2>1. b \in BOOLEAN
    OBVIOUS
  <2>2. ctx'[x] = [ctx[x] EXCEPT !.switched = b]
    BY <1>1
  <2>3. ctx[x] \in Locals
    BY InFlight
  <2>. HIDE DEF b
  <2>4. Alike(ctx[x], ctx'[x]) /\ ctx'[x].switched = b
    BY <2>1, <2>2, <2>3 DEF Alike, Locals
  <2>. QED
    BY <2>4 DEF b
<1>3. ctx' \in [Requests -> Locals]
  <2>1. ctx' = [x \in Requests |-> ctx'[x]]
    BY <1>1
  <2>2. \A x \in Requests : ctx'[x] \in Locals
    BY <1>2 DEF Alike
  <2>. QED
    BY <2>1, <2>2
<1>. QED
  BY <1>1, <1>2, <1>3

LEMMA SwitchWriteKeeps ==
  ASSUME IInv, UNCHANGED workload, NEW r \in Requests, SwitchWrite(r)
  PROVE  IInv'
<1>1. /\ stage[r] = "activate" /\ UNCHANGED <<org, member, invite>>
      /\ ctx[r].actor \in Users
  BY InFlight DEF SwitchWrite, At, Sound, ActorStages
<1>2. CASE org # "live"
  BY <1>1, <1>2, InFlight, OnStep, Blanked DEF SwitchWrite
<1>3. CASE org = "live"
  <2>1. /\ stage'[r] = "resolve" /\ stage' \in [Requests -> Stages]
        /\ \A x \in Requests : x # r => stage'[x] = stage[x]
        /\ active' = [active EXCEPT ![ctx[r].actor] = "this"]
        /\ ctx' \in [Requests -> Locals]
        /\ \A x \in Requests : Alike(ctx[x], ctx'[x])
    BY <1>3, SwitchWriteIs DEF IInv, TypeInv, Stages
  <2>2. TypeInv'
    BY <1>1, <2>1 DEF IInv, TypeInv
  <2>3. OrgInv' /\ InviteInv'
    BY <1>1, <1>3 DEF IInv, OrgInv, InviteInv
  <2>4. ASSUME NEW x \in Requests PROVE Sound(stage[x], ctx[x])'
    <3>1. /\ Sound(stage[x], ctx[x]) /\ Alike(ctx[x], ctx'[x])
          /\ invite' = invite
      BY <1>1, <2>1, InFlight
    <3>2. CASE x # r
      <4>1. stage'[x] = stage[x]
        BY <2>1, <3>2
      <4>. QED
        BY <3>1, <4>1 DEF Sound, Alike
    <3>3. CASE x = r
      BY <1>1, <2>1, <3>1, <3>3
         DEF Sound, Alike, ActorStages, TargetStages, InviteStages
    <3>. QED
      BY <3>2, <3>3
  <2>5. RequestInv'
    BY <2>4 DEF RequestInv
  <2>6. UsedInvitationCloses'
    BY <1>1, <2>1 DEF IInv, UsedInvitationCloses, At, Alike
  <2>7. FirstOwnerInv'
    BY <1>1, <1>3, <2>1 DEF IInv, FirstOwnerInv, Unowned, Owners, Role, At
  <2>. QED
    BY <2>2, <2>3, <2>5, <2>6, <2>7 DEF IInv
<1>. QED
  BY <1>2, <1>3

LEMMA SwitchElsewhereKeeps ==
  ASSUME IInv, UNCHANGED workload, NEW u \in Users, SwitchElsewhere(u)
  PROVE  IInv'
<1>1. /\ active' = [active EXCEPT ![u] = "other"]
      /\ UNCHANGED <<org, member, invite, stage, ctx>>
  BY DEF SwitchElsewhere
<1>2. TypeInv' /\ OrgInv'
  BY <1>1 DEF IInv, TypeInv, OrgInv
<1>. QED
  BY <1>1, <1>2 DEF IInv, RequestInv, Sound, InviteInv, UsedInvitationCloses,
                    FirstOwnerInv, Unowned, Owners, Role, At

\* Who has the organization active.
LEMMA ActiveKeeps ==
  ASSUME IInv, UNCHANGED workload, NEW r \in Requests,
         RemoveClear(r) \/ DeleteClear(r) \/ Deactivate(r)
  PROVE  IInv'
<1>. USE DEF Sound, ActorStages, TargetStages, InviteStages
<1>1. /\ UNCHANGED <<org, member, invite>> /\ stage[r] # "acceptMark"
      /\ ActiveOK
  BY InFlight DEF RemoveClear, DeleteClear, Deactivate, At
<1>2. CASE RemoveClear(r)
  <2>1. Sound("removeWrite", ctx[r])
    BY <1>2, InFlight DEF RemoveClear, At
  <2>2. ActiveOK'
    BY <1>1, <1>2 DEF RemoveClear, ActiveOK
  <2>. QED
    BY <1>1, <1>2, <2>1, <2>2, OnStep DEF RemoveClear, Stages
<1>3. CASE DeleteClear(r)
  <2>1. ActiveOK'
    BY <1>1, <1>3 DEF DeleteClear, Cleared, ActiveOK
  <2>. QED
    BY <1>1, <1>3, <2>1, OnStep DEF DeleteClear, Stages
<1>4. CASE Deactivate(r)
  <2>1. ActiveOK'
    BY <1>1, <1>4 DEF Deactivate, ActiveOK
  <2>. QED
    BY <1>1, <1>4, <2>1, OnStep, Blanked DEF Deactivate
<1>. QED
  BY <1>2, <1>3, <1>4

-----------------------------------------------------------------------------
(* Steps that write the members.                                           *)

\* The organization, and the request that is to add its first owner.
LEMMA CreateKeeps ==
  ASSUME IInv, UNCHANGED workload, NEW r \in Requests, NEW u \in Users,
         Create(r, u)
  PROVE  IInv'
<1>. DEFINE c == [Blank EXCEPT !.actor = u]
<1>1. c \in Locals /\ c.actor = u
  BY DEF Blank, Locals, Roles
<1>2. /\ Arrive(r, "addOwner", c) /\ org = "absent" /\ org' = "live"
      /\ UNCHANGED <<member, active, invite>>
  BY DEF Create
<1>. HIDE DEF c
<1>3. Moves(r, "addOwner", c) /\ "addOwner" \in Stages /\ stage[r] = "idle"
  BY <1>2, MovesIs DEF Stages
<1>4. TypeInv'
  BY <1>1, <1>2, <1>3, MovedTypes DEF IInv, TypeInv
<1>5. RequestInv'
  <2>1. Sound("addOwner", c)'
    BY <1>1 DEF Sound, ActorStages, TargetStages, InviteStages
  <2>. QED
    BY <1>1, <1>2, <1>3, <2>1, MovedSound
<1>6. OrgInv' /\ InviteInv'
  BY <1>2 DEF IInv, OrgInv, InviteInv
<1>7. UsedInvitationCloses'
  BY <1>1, <1>2, <1>3, MovedUsed
<1>8. FirstOwnerInv'
  <2>1. Unowned /\ \A x \in Requests : ~At(x, "addOwner")
    BY <1>2 DEF IInv, FirstOwnerInv
  <2>2. /\ stage'[r] = "addOwner"
        /\ \A x \in Requests : x # r => stage'[x] = stage[x]
    BY <1>1, <1>3, MovedTypes
  <2>3. Owners' = Owners
    BY <1>2 DEF Owners, Role
  <2>. QED
    BY <1>2, <2>1, <2>2, <2>3 DEF FirstOwnerInv, Unowned, At
<1>. QED
  BY <1>4, <1>5, <1>6, <1>7, <1>8 DEF IInv

\* A request that ends with a write of rows of the members.
LEMMA RowsWritten ==
  ASSUME IInv, UNCHANGED <<org, active, invite, workload>>,
         NEW r \in Requests, stage[r] # "acceptMark", Finish(r),
         member' \in [Users -> Members], org # "live" => member' = member,
         \A u \in Users : member'[u].via \in {member[u].via, None}
  PROVE  /\ TypeInv' /\ OrgInv' /\ RequestInv' /\ InviteInv'
         /\ UsedInvitationCloses' /\ Moves(r, "idle", Blank)
<1>1. Moves(r, "idle", Blank)
  BY MovesIs
<1>2. TypeInv'
  BY <1>1, Blanked, MovedTypes DEF IInv, TypeInv
<1>3. OrgInv'
  BY DEF IInv, OrgInv
<1>4. RequestInv'
  <2>1. Sound("idle", Blank)'
    BY DEF Sound, ActorStages, TargetStages, InviteStages
  <2>. QED
    BY <1>1, <2>1, Blanked, MovedSound
<1>5. InviteInv'
  BY DEF IInv, InviteInv
<1>6. UsedInvitationCloses'
  BY <1>1, Blanked, MovedUsed
<1>. QED
  BY <1>1, <1>2, <1>3, <1>4, <1>5, <1>6

LEMMA CreateOwnerKeeps ==
  ASSUME IInv, UNCHANGED workload, NEW r \in Requests, CreateOwner(r)
  PROVE  IInv'
<1>1. /\ At(r, "addOwner") /\ Finish(r)
      /\ UNCHANGED <<org, active, invite>>
      /\ ctx[r].actor \in Users
  BY InFlight DEF CreateOwner, At, Sound, ActorStages
<1>2. member \in [Users -> Members]
  BY DEF IInv, TypeInv
<1>3. /\ member' \in [Users -> Members] /\ (org # "live" => member' = member)
      /\ \A u \in Users : member'[u].via = member[u].via
  BY <1>1, <1>2 DEF CreateOwner, Members, Roles
<1>4. /\ TypeInv' /\ OrgInv' /\ RequestInv' /\ InviteInv'
      /\ UsedInvitationCloses' /\ Moves(r, "idle", Blank)
  BY <1>1, <1>3, RowsWritten DEF At
<1>5. FirstOwnerInv'
  <2>1. /\ stage'[r] = "idle"
        /\ \A x \in Requests : x # r => stage'[x] = stage[x]
    BY <1>4, Blanked, MovedTypes
  <2>2. \A x \in Requests : ~At(x, "addOwner")'
    BY <1>1, <2>1 DEF At, IInv, FirstOwnerInv
  <2>3. org' # "absent"
    BY <1>1 DEF IInv, FirstOwnerInv
  <2>. QED
    BY <2>2, <2>3 DEF FirstOwnerInv
<1>. QED
  BY <1>4, <1>5 DEF IInv

\* What updateMemberRole, removeMember and transferOwnership write.
LEMMA RoleRows ==
  ASSUME IInv, NEW r \in Requests, RoleWrite(r)
  PROVE  /\ ctx[r].target \in Users /\ ctx[r].role # "owner"
         /\ ctx[r].seen # "owner"
         /\ member' \in [Users -> Members] /\ (org # "live" => member' = member)
         /\ \A u \in Users : member'[u].via = member[u].via
         /\ \A u \in Users : u # ctx[r].target => member'[u] = member[u]
         /\ member'[ctx[r].target].role # "owner"
<1>1. /\ ctx[r].target \in Users /\ ctx[r].role # "owner"
      /\ ctx[r].seen # "owner" /\ ctx[r].role \in Roles
  BY InFlight DEF RoleWrite, At, Sound, TargetStages, Locals
<1>2. /\ member \in [Users -> Members]
      /\ org # "live" => \A u \in Users : Role(u) = "none"
  BY DEF IInv, TypeInv, OrgInv, Role, NotMember
<1>. QED
  BY <1>1, <1>2 DEF RoleWrite, Members, Role

LEMMA RemoveRows ==
  ASSUME IInv, NEW r \in Requests, RemoveWrite(r)
  PROVE  /\ ctx[r].target \in Users
         /\ ctx[r].actor = ctx[r].target \/ ctx[r].seen # "owner"
         /\ ctx[r].seen = "owner" => ctx[r].owners > 1
         /\ member' \in [Users -> Members] /\ (org # "live" => member' = member)
         /\ \A u \in Users : member'[u].via \in {member[u].via, None}
         /\ \A u \in Users : u # ctx[r].target => member'[u] = member[u]
         /\ member'[ctx[r].target].role # "owner"
<1>1. /\ ctx[r].target \in Users
      /\ ctx[r].actor = ctx[r].target \/ ctx[r].seen # "owner"
      /\ ctx[r].seen = "owner" => ctx[r].owners > 1
  BY InFlight DEF RemoveWrite, At, Sound, TargetStages
<1>2. /\ member \in [Users -> Members]
      /\ org # "live" => \A u \in Users : member[u] = NotMember
  BY DEF IInv, TypeInv, OrgInv
<1>3. NotMember \in Members /\ NotMember.role = "none" /\ NotMember.via = None
  BY DEF NotMember, Members, Roles
<1>4. member' = [member EXCEPT ![ctx[r].target] = NotMember]
  BY DEF RemoveWrite
<1>5. /\ member' \in [Users -> Members]
      /\ \A u \in Users : u # ctx[r].target => member'[u] = member[u]
      /\ member'[ctx[r].target] = NotMember
  BY <1>1, <1>2, <1>3, <1>4
<1>6. org # "live" => member' = member
  BY <1>2, <1>4, <1>5
<1>7. \A u \in Users : member'[u].via \in {member[u].via, None}
  BY <1>3, <1>5
<1>. QED
  BY <1>1, <1>3, <1>5, <1>6, <1>7

LEMMA TransferRows ==
  ASSUME IInv, NEW r \in Requests, TransferWrite(r)
  PROVE  /\ ctx[r].actor \in Users /\ ctx[r].target \in Users
         /\ ctx[r].actor # ctx[r].target /\ ctx[r].seen # "none"
         /\ member' \in [Users -> Members] /\ (org # "live" => member' = member)
         /\ \A u \in Users : member'[u].via = member[u].via
         /\ \A u \in Users :
              u \notin {ctx[r].actor, ctx[r].target} => member'[u] = member[u]
         /\ member'[ctx[r].actor].role # "owner"
         /\ Role(ctx[r].target) # "none" => member'[ctx[r].target].role = "owner"
<1>1. /\ ctx[r].actor \in Users /\ ctx[r].target \in Users
      /\ ctx[r].actor # ctx[r].target /\ ctx[r].seen # "none"
  BY InFlight DEF TransferWrite, At, Sound, ActorStages, TargetStages
<1>2. /\ member \in [Users -> Members]
      /\ org # "live" => \A u \in Users : Role(u) = "none"
  BY DEF IInv, TypeInv, OrgInv, Role, NotMember
<1>3. /\ member' \in [Users -> Members]
      /\ \A u \in Users : member'[u].via = member[u].via
      /\ \A u \in Users :
           u \notin {ctx[r].actor, ctx[r].target} => member'[u] = member[u]
  BY <1>1, <1>2 DEF TransferWrite, Members, Roles, Role
<1>4. /\ member'[ctx[r].actor].role # "owner"
      /\ Role(ctx[r].target) # "none" => member'[ctx[r].target].role = "owner"
  BY <1>1, <1>2 DEF TransferWrite, Members, Roles, Role
<1>5. org # "live" => member' = member
  <2>1. org # "live" => \A u \in Users : member'[u] = member[u]
    BY <1>2 DEF TransferWrite
  <2>. QED
    BY <1>2, <1>3, <2>1
<1>. QED
  BY <1>1, <1>3, <1>4, <1>5

\* None of them makes an owner where there is none, but for the transfer, which
\* an owner has to begin.
LEMMA RolesKeep ==
  ASSUME IInv, UNCHANGED workload, NEW r \in Requests,
         RoleWrite(r) \/ RemoveWrite(r) \/ TransferWrite(r)
  PROVE  IInv'
<1>1. /\ UNCHANGED <<org, active, invite>> /\ Finish(r)
      /\ stage[r] # "acceptMark"
      /\ TransferWrite(r) => stage[r] = "transfer"
  BY DEF RoleWrite, RemoveWrite, TransferWrite, At
<1>2. /\ member' \in [Users -> Members] /\ (org # "live" => member' = member)
      /\ \A u \in Users : member'[u].via \in {member[u].via, None}
  BY RoleRows, RemoveRows, TransferRows
<1>3. /\ TypeInv' /\ OrgInv' /\ RequestInv' /\ InviteInv'
      /\ UsedInvitationCloses' /\ Moves(r, "idle", Blank)
  BY <1>1, <1>2, RowsWritten
<1>4. CASE RoleWrite(r) \/ RemoveWrite(r)
  <2>1. Owners' \subseteq Owners
    BY <1>4, RoleRows, RemoveRows DEF Owners, Role
  <2>2. FirstOwnerInv'
    BY <1>1, <1>3, <2>1, Blanked, MovedFirst
  <2>. QED
    BY <1>1, <1>3, <2>2 DEF IInv
<1>5. CASE TransferWrite(r)
  <2>1. ~Unowned
    BY <1>1, <1>5 DEF Unowned
  <2>2. org # "absent" /\ \A x \in Requests : ~At(x, "addOwner")
    BY <2>1 DEF IInv, FirstOwnerInv
  <2>3. \A x \in Requests : stage'[x] \in {stage[x], "idle"}
    BY <1>3, Blanked, MovedTypes
  <2>4. FirstOwnerInv'
    BY <1>1, <2>2, <2>3 DEF FirstOwnerInv, At
  <2>. QED
    BY <1>1, <1>3, <2>4 DEF IInv
<1>. QED
  BY <1>4, <1>5

\* The organization goes, and everything that names it.
LEMMA DeleteKeeps ==
  ASSUME IInv, UNCHANGED workload, NEW r \in Requests, DeleteWrite(r)
  PROVE  IInv'
<1>1. /\ org' = "gone" /\ active' = Cleared /\ Finish(r) /\ stage[r] = "delete"
      /\ member' = [u \in Users |-> NotMember]
      /\ invite' = [i \in Invitations |->
                      IF invite[i].status = "absent" THEN invite[i]
                      ELSE [NoInvite EXCEPT !.status = "deleted"]]
  BY DEF DeleteWrite, At
<1>2. Moves(r, "idle", Blank)
  BY <1>1, MovesIs
<1>3. /\ [NoInvite EXCEPT !.status = "deleted"] \in InviteRows
      /\ [NoInvite EXCEPT !.status = "deleted"].status = "deleted"
      /\ [NoInvite EXCEPT !.status = "deleted"].role = "none"
      /\ NotMember \in Members /\ NotMember.role = "none" /\ NotMember.via = None
  BY DEF NoInvite, InviteRows, Statuses, Roles, NotMember, Members
<1>4. /\ invite' \in [Invitations -> InviteRows]
      /\ member' \in [Users -> Members]
      /\ \A u \in Users : member'[u] = NotMember
      /\ \A i \in Invitations :
           \/ invite'[i] = invite[i] /\ invite[i].status = "absent"
           \/ /\ invite'[i].status = "deleted" /\ invite[i].status # "absent"
              /\ invite'[i].role = "none"
  BY <1>1, <1>3 DEF IInv, TypeInv
<1>5. TypeInv'
  BY <1>1, <1>2, <1>4, Blanked, MovedTypes DEF IInv, TypeInv, Cleared
<1>6. OrgInv' /\ InviteInv' /\ UsedInvitationCloses'
  BY <1>1, <1>3, <1>4
     DEF IInv, TypeInv, OrgInv, InviteInv, UsedInvitationCloses, Cleared
<1>7. RequestInv'
  <2>1. Sound("idle", Blank)'
    BY DEF Sound, ActorStages, TargetStages, InviteStages
  <2>. QED
    BY <1>2, <1>4, <2>1, Blanked, MovedSound
<1>8. FirstOwnerInv'
  <2>1. Owners' = {}
    BY <1>3, <1>4 DEF Owners, Role
  <2>. QED
    BY <1>1, <1>2, <2>1, Blanked, MovedFirst
<1>. QED
  BY <1>5, <1>6, <1>7, <1>8 DEF IInv

-----------------------------------------------------------------------------
(* Steps that accept, and steps that write an invitation.                  *)

\* Whoever joins was nobody, and joins by an invitation that was written.
LEMMA JoinKeeps ==
  ASSUME IInv, UNCHANGED workload, NEW r \in Requests, AcceptJoin(r)
  PROVE  IInv'
<1>. DEFINE c == ctx[r]
            joins == org = "live" /\ Role(c.actor) = "none"
<1>1. /\ stage[r] = "acceptJoin" /\ UNCHANGED <<org, active, invite>>
      /\ c \in Locals /\ c.actor \in Users /\ c.role # "owner"
      /\ c.invite \in Invitations /\ invite[c.invite].status # "absent"
  BY InFlight DEF AcceptJoin, At, Sound, ActorStages, InviteStages
<1>2. CASE ~joins
  <2>1. UNCHANGED member /\ Finish(r)
    BY <1>2 DEF AcceptJoin
  <2>. QED
    BY <1>1, <2>1, InFlight, OnStep, Blanked
<1>3. CASE joins
  <2>1. /\ member' = [member EXCEPT ![c.actor] =
                        [role |-> c.role, via |-> c.invite]]
        /\ Moves(r, "acceptMark", c) /\ "acceptMark" \in Stages
    BY <1>3, MovesIs DEF AcceptJoin, Stages
  <2>2. member \in [Users -> Members]
        /\ [role |-> c.role, via |-> c.invite] \in Members
    BY <1>1 DEF IInv, TypeInv, Locals, Members
  <2>3. /\ member' \in [Users -> Members]
        /\ \A u \in Users : u # c.actor => member'[u] = member[u]
        /\ member'[c.actor].role = c.role /\ member'[c.actor].via = c.invite
    BY <1>1, <2>1, <2>2
  <2>4. /\ stage'[r] = "acceptMark" /\ ctx'[r] = c
        /\ \A x \in Requests : x # r => stage'[x] = stage[x] /\ ctx'[x] = ctx[x]
    BY <1>1, <2>1, MovedTypes
  <2>5. TypeInv'
    BY <1>1, <2>1, <2>3, MovedTypes DEF IInv, TypeInv
  <2>6. OrgInv'
    BY <1>1, <1>3 DEF OrgInv
  <2>7. RequestInv'
    <3>1. Sound("acceptMark", c)'
      BY <1>1, <2>4 DEF Sound, ActorStages, TargetStages, InviteStages
    <3>2. Sound("acceptMark", c)
      BY <1>1 DEF Sound, ActorStages, TargetStages, InviteStages
    <3>3. ASSUME NEW x \in Requests PROVE Sound(stage[x], ctx[x])'
      <4>1. CASE x = r
        BY <3>2, <4>1, <1>1, <2>4 DEF Sound
      <4>2. CASE x # r
        <5>1. Sound(stage[x], ctx[x])
              /\ stage'[x] = stage[x] /\ ctx'[x] = ctx[x]
          BY <4>2, <2>4, InFlight
        <5>. QED
          BY <5>1, <1>1 DEF Sound
      <4>. QED
        BY <4>1, <4>2
    <3>. QED
      BY <3>3 DEF RequestInv
  <2>8. InviteInv'
    BY <1>1, <2>3 DEF IInv, InviteInv
  <2>9. UsedInvitationCloses'
    <3>1. ASSUME NEW u \in Users, NEW i, i = member'[u].via, i # None,
                 invite'[i].status = "pending"
          PROVE  invite'[i].halted
                 \/ \E x \in Requests : At(x, "acceptMark")' /\ ctx'[x].invite = i
      <4>1. CASE u = c.actor
        BY <3>1, <4>1, <2>3, <2>4 DEF At
      <4>2. CASE u # c.actor
        <5>1. i = member[u].via /\ invite[i].status = "pending"
          BY <3>1, <4>2, <1>1, <2>3
        <5>2. invite[i].halted
              \/ \E x \in Requests : At(x, "acceptMark") /\ ctx[x].invite = i
          BY <3>1, <5>1 DEF IInv, UsedInvitationCloses
        <5>. QED
          BY <1>1, <2>4, <5>2 DEF At
      <4>. QED
        BY <4>1, <4>2
    <3>. QED
      BY <3>1 DEF UsedInvitationCloses
  <2>10. FirstOwnerInv'
    <3>1. Owners' = Owners
      BY <1>1, <1>3, <2>3 DEF Owners, Role
    <3>. QED
      BY <1>1, <2>1, <3>1, MovedFirst
  <2>. QED
    BY <1>1, <2>5, <2>6, <2>7, <2>8, <2>9, <2>10 DEF IInv
<1>. QED
  BY <1>2, <1>3

\* A request that ends with a write of invitations: none comes undone, and a
\* used one that is still pending is awaited or halted.
LEMMA InvitesWritten ==
  ASSUME IInv, UNCHANGED <<org, member, active, workload>>,
         NEW r \in Requests, Finish(r),
         invite' \in [Invitations -> InviteRows],
         \A i \in Invitations :
           /\ org # "live" => invite'[i].status \in {"absent", "deleted"}
           /\ invite[i].status # "absent" => invite'[i].status # "absent"
           /\ invite'[i].role # "owner"
           /\ invite'[i].status = "pending" /\ invite[i].status # "absent" =>
                /\ invite[i].status = "pending"
                /\ \/ invite[i].halted
                   \/ At(r, "acceptMark") /\ ctx[r].invite = i
                   => invite'[i].halted
  PROVE  IInv'
<1>1. Moves(r, "idle", Blank)
  BY MovesIs
<1>2. \A x \in Requests : x # r => stage'[x] = stage[x] /\ ctx'[x] = ctx[x]
  BY <1>1, Blanked, MovedTypes
<1>3. TypeInv'
  BY <1>1, Blanked, MovedTypes DEF IInv, TypeInv
<1>4. OrgInv'
  BY DEF IInv, OrgInv
<1>5. RequestInv'
  <2>1. Sound("idle", Blank)'
    BY DEF Sound, ActorStages, TargetStages, InviteStages
  <2>. QED
    BY <1>1, <2>1, Blanked, MovedSound
<1>6. \A u \in Users : member[u].via # None => member[u].via \in Invitations
  BY DEF IInv, TypeInv, Members
<1>7. InviteInv'
  BY <1>6 DEF IInv, InviteInv
<1>8. UsedInvitationCloses'
  <2>1. ASSUME NEW u \in Users, NEW i, i = member[u].via, i # None,
               invite'[i].status = "pending"
        PROVE  invite'[i].halted
               \/ \E x \in Requests : At(x, "acceptMark")' /\ ctx'[x].invite = i
    <3>1. i \in Invitations /\ invite[i].status # "absent"
      BY <1>6, <2>1 DEF IInv, InviteInv
    <3>2. /\ invite[i].status = "pending"
          /\ \/ invite[i].halted
             \/ At(r, "acceptMark") /\ ctx[r].invite = i
             => invite'[i].halted
      BY <2>1, <3>1
    <3>3. invite[i].halted
          \/ \E x \in Requests : At(x, "acceptMark") /\ ctx[x].invite = i
      BY <2>1, <3>2 DEF IInv, UsedInvitationCloses
    <3>. QED
      BY <1>2, <3>2, <3>3 DEF At
  <2>. QED
    BY <2>1 DEF UsedInvitationCloses
<1>9. FirstOwnerInv'
  <2>1. Owners' = Owners
    BY DEF Owners, Role
  <2>. QED
    BY <1>1, <2>1, Blanked, MovedFirst
<1>. QED
  BY <1>3, <1>4, <1>5, <1>7, <1>8, <1>9 DEF IInv

\* An update of the status by key.
LEMMA StatusIs ==
  ASSUME IInv, NEW i \in Invitations,
         NEW s \in {"accepted", "revoked", "expired"}, SetStatus(i, s)
  PROVE  /\ invite' \in [Invitations -> InviteRows]
         /\ \A j \in Invitations : j # i => invite'[j] = invite[j]
         /\ invite'[i].status \in {s, "deleted"}
         /\ invite[i].status = "deleted" => invite'[i].status = "deleted"
         /\ invite'[i].role = invite[i].role
<1>1. invite \in [Invitations -> InviteRows]
  BY DEF IInv, TypeInv
<1>. DEFINE t == IF invite[i].status = "deleted" THEN "deleted" ELSE s
<1>2. invite' = [invite EXCEPT ![i] = [invite[i] EXCEPT !.status = t]]
  BY <1>1 DEF SetStatus
<1>3. t \in {s, "deleted"} /\ (invite[i].status = "deleted" => t = "deleted")
      /\ t \in Statuses
  BY DEF Statuses
<1>. HIDE DEF t
<1>4. /\ [invite[i] EXCEPT !.status = t] \in InviteRows
      /\ [invite[i] EXCEPT !.status = t].status = t
      /\ [invite[i] EXCEPT !.status = t].role = invite[i].role
  BY <1>1, <1>3 DEF InviteRows
<1>. QED
  BY <1>1, <1>2, <1>3, <1>4

LEMMA MarksKeep ==
  ASSUME IInv, UNCHANGED workload, NEW r \in Requests,
         AcceptExpire(r) \/ AcceptMark(r) \/ RevokeWrite(r)
  PROVE  IInv'
<1>1. /\ stage[r] \in {"expire", "acceptMark", "revoke"}
      /\ Finish(r) /\ UNCHANGED <<org, member, active>>
  BY DEF AcceptExpire, AcceptMark, RevokeWrite, At
<1>2. PICK s \in {"accepted", "revoked", "expired"} : SetStatus(ctx[r].invite, s)
  BY DEF AcceptExpire, AcceptMark, RevokeWrite
<1>3. ctx[r].invite \in Invitations /\ invite[ctx[r].invite].status # "absent"
  BY <1>1, InFlight DEF Sound, InviteStages
<1>4. \A j \in Invitations :
        /\ invite[j].role # "owner"
        /\ org # "live" => invite[j].status \in {"absent", "deleted"}
  BY DEF IInv, InviteInv, OrgInv
<1>5. /\ invite' \in [Invitations -> InviteRows]
      /\ \A j \in Invitations : j # ctx[r].invite => invite'[j] = invite[j]
      /\ invite'[ctx[r].invite].status
           \in {"accepted", "revoked", "expired", "deleted"}
      /\ invite[ctx[r].invite].status = "deleted" =>
           invite'[ctx[r].invite].status = "deleted"
      /\ invite'[ctx[r].invite].role = invite[ctx[r].invite].role
  BY <1>2, <1>3, StatusIs
<1>6. ASSUME NEW i \in Invitations
      PROVE  /\ org # "live" => invite'[i].status \in {"absent", "deleted"}
             /\ invite[i].status # "absent" => invite'[i].status # "absent"
             /\ invite'[i].role # "owner"
             /\ invite'[i].status = "pending" /\ invite[i].status # "absent" =>
                  /\ invite[i].status = "pending"
                  /\ \/ invite[i].halted
                     \/ At(r, "acceptMark") /\ ctx[r].invite = i
                     => invite'[i].halted
  <2>1. CASE i = ctx[r].invite
    BY <2>1, <1>3, <1>4, <1>5
  <2>2. CASE i # ctx[r].invite
    BY <2>2, <1>4, <1>5
  <2>. QED
    BY <2>1, <2>2
<1>. QED
  BY <1>1, <1>5, <1>6, InvitesWritten

LEMMA InviteWriteKeeps ==
  ASSUME IInv, UNCHANGED workload, NEW r \in Requests, NEW i \in Invitations,
         InviteWrite(r, i)
  PROVE  IInv'
<1>1. /\ stage[r] = "inviteWrite" /\ Finish(r)
      /\ UNCHANGED <<org, member, active>>
      /\ invite[i].status = "absent" /\ ctx[r] \in Locals
      /\ ctx[r].role # "owner" /\ ctx[r].target \in Users
  BY InFlight DEF InviteWrite, At, Sound, TargetStages
<1>. DEFINE row == [status |-> "pending", user |-> ctx[r].target,
                    role |-> ctx[r].role, lapsed |-> FALSE, halted |-> FALSE]
<1>2. row \in InviteRows /\ row.status = "pending" /\ row.role = ctx[r].role
  BY <1>1 DEF InviteRows, Statuses, Locals
<1>3. /\ invite \in [Invitations -> InviteRows]
      /\ \A j \in Invitations :
           /\ invite[j].role # "owner"
           /\ org # "live" => invite[j].status \in {"absent", "deleted"}
  BY DEF IInv, TypeInv, InviteInv, OrgInv
<1>4. invite' = IF org = "live" THEN [invite EXCEPT ![i] = row] ELSE invite
  BY DEF InviteWrite
<1>. HIDE DEF row
<1>5. /\ invite' \in [Invitations -> InviteRows]
      /\ \A j \in Invitations :
           invite'[j] = IF org = "live" /\ j = i THEN row ELSE invite[j]
  BY <1>2, <1>3, <1>4
<1>6. ~At(r, "acceptMark")
  BY <1>1 DEF At
<1>7. ASSUME NEW j \in Invitations
      PROVE  /\ org # "live" => invite'[j].status \in {"absent", "deleted"}
             /\ invite[j].status # "absent" => invite'[j].status # "absent"
             /\ invite'[j].role # "owner"
             /\ invite'[j].status = "pending" /\ invite[j].status # "absent" =>
                  /\ invite[j].status = "pending"
                  /\ invite[j].halted => invite'[j].halted
  BY <1>1, <1>2, <1>3, <1>5
<1>. QED
  BY <1>1, <1>5, <1>6, <1>7, InvitesWritten

LEMMA AbortKeeps ==
  ASSUME IInv, UNCHANGED workload, NEW r \in Requests, Abort(r)
  PROVE  IInv'
<1>1. Finish(r) /\ UNCHANGED <<org, member, active>>
  BY DEF Abort
<1>2. /\ invite \in [Invitations -> InviteRows]
      /\ \A j \in Invitations :
           /\ invite[j].role # "owner"
           /\ org # "live" => invite[j].status \in {"absent", "deleted"}
  BY DEF IInv, TypeInv, InviteInv, OrgInv
<1>3. ASSUME NEW i \in Invitations
      PROVE  /\ invite'[i] \in InviteRows
             /\ invite'[i].status = invite[i].status
             /\ invite'[i].role = invite[i].role
             /\ \/ invite[i].halted
                \/ At(r, "acceptMark") /\ ctx[r].invite = i
                => invite'[i].halted
  <2>. DEFINE h == invite[i].halted \/ (At(r, "acceptMark") /\ ctx[r].invite = i)
  <2>1. h \in BOOLEAN
    OBVIOUS
  <2>2. invite'[i] = [invite[i] EXCEPT !.halted = h]
    BY DEF Abort
  <2>3. ASSUME invite[i].halted \/ (At(r, "acceptMark") /\ ctx[r].invite = i)
        PROVE  h = TRUE
    BY <2>3
  <2>. HIDE DEF h
  <2>4. /\ invite'[i] \in InviteRows
        /\ invite'[i].status = invite[i].status
        /\ invite'[i].role = invite[i].role
        /\ invite'[i].halted = h
    BY <1>2, <2>1, <2>2 DEF InviteRows
  <2>. QED
    BY <2>3, <2>4
<1>4. invite' \in [Invitations -> InviteRows]
  <2>1. invite' = [i \in Invitations |-> invite'[i]]
    BY DEF Abort
  <2>. QED
    BY <1>3, <2>1
<1>. QED
  BY <1>1, <1>2, <1>3, <1>4, InvitesWritten

LEMMA LapseKeeps ==
  ASSUME IInv, UNCHANGED workload, NEW i \in Invitations, Lapse(i)
  PROVE  IInv'
<1>1. UNCHANGED <<org, member, active, stage, ctx>>
      /\ invite \in [Invitations -> InviteRows]
  BY DEF Lapse, IInv, TypeInv
<1>2. /\ invite' \in [Invitations -> InviteRows]
      /\ \A j \in Invitations :
           /\ invite'[j].status = invite[j].status
           /\ invite'[j].role = invite[j].role
           /\ invite'[j].halted = invite[j].halted
  BY <1>1 DEF Lapse, InviteRows
<1>3. TypeInv'
  BY <1>1, <1>2 DEF IInv, TypeInv
<1>4. OrgInv' /\ FirstOwnerInv'
  BY <1>1, <1>2 DEF IInv, OrgInv, FirstOwnerInv, Unowned, Owners, Role, At
<1>5. RequestInv'
  BY <1>1, <1>2 DEF IInv, RequestInv, Sound
<1>6. \A u \in Users : member[u].via # None => member[u].via \in Invitations
  BY DEF IInv, TypeInv, Members
<1>7. InviteInv' /\ UsedInvitationCloses'
  BY <1>1, <1>2, <1>6 DEF IInv, InviteInv, UsedInvitationCloses, At
<1>. QED
  BY <1>3, <1>4, <1>5, <1>7 DEF IInv

LEMMA StutterKeeps ==
  ASSUME IInv, UNCHANGED vars
  PROVE  IInv'
BY DEF vars, IInv, TypeInv, OrgInv, RequestInv, Sound, InviteInv,
       UsedInvitationCloses, FirstOwnerInv, Unowned, Owners, Role, At

LEMMA NextKeeps ==
  ASSUME IInv, Next
  PROVE  IInv'
<1>1. ASSUME NEW r \in Requests, MemberStep(r) PROVE IInv'
  BY <1>1, CreateKeeps, CreateOwnerKeeps, ArrivalsKeep, ReadsKeep, CountsKeep,
     ActiveKeeps, RolesKeep DEF MemberStep, Next
<1>2. ASSUME NEW r \in Requests, OwnerStep(r) PROVE IInv'
  BY <1>2, ArrivalsKeep, CountsKeep, ActiveKeeps, RolesKeep, DeleteKeeps
     DEF OwnerStep, Next
<1>3. ASSUME NEW r \in Requests, InviteStep(r) PROVE IInv'
  BY <1>3, ArrivalsKeep, ReadsKeep, InviteWriteKeeps, MarksKeep, JoinKeeps
     DEF InviteStep, Next
<1>4. ASSUME NEW r \in Requests, ActiveStep(r) PROVE IInv'
  BY <1>4, ArrivalsKeep, ReadsKeep, ActiveKeeps, SwitchWriteKeeps
     DEF ActiveStep, Next
<1>5. CASE Environment
  BY <1>5, LapseKeeps, AbortKeeps, SwitchElsewhereKeeps DEF Environment, Next
<1>. QED
  BY <1>1, <1>2, <1>3, <1>4, <1>5 DEF Next, Step

-----------------------------------------------------------------------------
(* What a step may do.                                                     *)

\* The members' rows are written by five actions, and go with the organization.
LEMMA MembersStep ==
  ASSUME Next
  PROVE  \/ UNCHANGED member
         \/ org' = "gone"
         \/ \E r \in Requests : \/ CreateOwner(r) \/ RoleWrite(r)
                                \/ RemoveWrite(r) \/ TransferWrite(r)
                                \/ AcceptJoin(r)
<1>1. ASSUME NEW r \in Requests, MemberStep(r)
      PROVE  UNCHANGED member \/ CreateOwner(r) \/ RoleWrite(r) \/ RemoveWrite(r)
  BY <1>1 DEF MemberStep, Create, RoleTarget, RoleActor, RemoveTarget,
              RemoveCount, RemoveActor, RemoveActive, RemoveClear
<1>2. ASSUME NEW r \in Requests, OwnerStep(r)
      PROVE  UNCHANGED member \/ org' = "gone" \/ TransferWrite(r)
  BY <1>2 DEF OwnerStep, TransferActor, TransferSuccessor, DeleteActor,
              DeleteClear, DeleteWrite
<1>3. ASSUME NEW r \in Requests, InviteStep(r)
      PROVE  UNCHANGED member \/ AcceptJoin(r)
  BY <1>3 DEF InviteStep, InviteArrive, InviteFindPending, InviteWrite,
              AcceptFind, AcceptExpire, AcceptMember, AcceptMark, RevokeFind,
              RevokeWrite
<1>4. ASSUME NEW r \in Requests, ActiveStep(r)
      PROVE  UNCHANGED member
  BY <1>4 DEF ActiveStep, SwitchArrive, SwitchWrite, ResolveArrive, Resolve,
              Deactivate
<1>5. Environment => UNCHANGED member
  BY DEF Environment, SwitchElsewhere, Lapse, Abort
<1>. QED
  BY <1>1, <1>2, <1>3, <1>4, <1>5 DEF Next, Step

\* Whoever joins, or becomes the first owner, was nobody and the others stay.
LEMMA NewMember ==
  ASSUME IInv, NEW r \in Requests, CreateOwner(r) \/ AcceptJoin(r)
  PROVE  /\ \A u \in Users : member'[u] # member[u] => Role(u) = "none"
         /\ \A u \in Users :
              AcceptJoin(r) /\ member'[u] # member[u] =>
                /\ member'[u].role # "owner"
                /\ member'[u].via = ctx[r].invite
<1>1. /\ ctx[r].actor \in Users /\ member \in [Users -> Members]
      /\ AcceptJoin(r) => ctx[r].role # "owner"
  BY InFlight DEF CreateOwner, AcceptJoin, At, Sound, ActorStages, IInv, TypeInv
<1>. QED
  BY <1>1 DEF CreateOwner, AcceptJoin

\* The write a request has prepared is its last step.
LEMMA LastStep ==
  ASSUME IInv, NEW r \in Requests,
         RoleWrite(r) \/ RemoveWrite(r) \/ TransferWrite(r)
  PROVE  Writes(r)
BY Blanked, MovesIs, MovedTypes
   DEF RoleWrite, RemoveWrite, TransferWrite, At, Writes

\* An owner who is deposed left, handed over, or was promoted meanwhile.
LEMMA Deposed ==
  ASSUME IInv, Next, NEW u \in Users, Role(u) = "owner",
         member'[u].role # "owner", org' = "live"
  PROVE  \E r \in Requests :
           /\ Writes(r)
           /\ \/ ctx[r].actor = u
              \/ ctx[r].target = u /\ ctx[r].seen # "owner"
<1>1. PICK r \in Requests : \/ CreateOwner(r) \/ RoleWrite(r) \/ RemoveWrite(r)
                            \/ TransferWrite(r) \/ AcceptJoin(r)
  BY MembersStep DEF Role
<1>2. member'[u] # member[u]
  BY DEF Role
<1>3. CASE CreateOwner(r) \/ AcceptJoin(r)
  BY <1>2, <1>3, NewMember
<1>4. CASE RoleWrite(r)
  BY <1>2, <1>4, RoleRows, LastStep
<1>5. CASE RemoveWrite(r)
  BY <1>2, <1>5, RemoveRows, LastStep
<1>6. CASE TransferWrite(r)
  BY <1>2, <1>6, TransferRows, LastStep
<1>. QED
  BY <1>1, <1>3, <1>4, <1>5, <1>6

\* The one owner: a request that read what still holds leaves one.
LEMMA SoleOwner ==
  ASSUME IInv, Next, Cardinality(Owners) = 1, Cardinality(Owners') # 1,
         org' = "live"
  PROVE  \E r \in Requests : Writes(r) /\ Stale(r)
<1>1. PICK o \in Users : Owners = {o}
  <2>1. \E o : Owners = {o}
    BY OwnersFinite, FS_Singleton
  <2>. QED
    BY <2>1 DEF Owners
<1>2. \A p : Owners' # {p}
  BY FS_Singleton
<1>3. Role(o) = "owner" /\ \A u \in Users : Role(u) = "owner" => u = o
  BY <1>1 DEF Owners
<1>4. \A p \in Users : \E u \in Users : ~(member'[u].role = "owner" <=> u = p)
  <2>1. Owners' = {u \in Users : member'[u].role = "owner"}
    BY DEF Owners, Role
  <2>. QED
    BY <1>2, <2>1
<1>5. PICK r \in Requests : \/ CreateOwner(r) \/ RoleWrite(r) \/ RemoveWrite(r)
                            \/ TransferWrite(r) \/ AcceptJoin(r)
  BY <1>3, <1>4, MembersStep DEF Role
<1>6. CASE CreateOwner(r)
  BY <1>1, <1>6 DEF CreateOwner, IInv, FirstOwnerInv, Unowned
<1>7. CASE AcceptJoin(r)
  BY <1>3, <1>4, <1>7, NewMember DEF Role
<1>8. CASE RoleWrite(r)
  <2>1. ctx[r].target = o
    BY <1>3, <1>4, <1>8, RoleRows DEF Role
  <2>. QED
    BY <1>3, <1>8, <2>1, RoleRows, LastStep DEF Stale
<1>9. CASE RemoveWrite(r)
  <2>1. ctx[r].target = o
    BY <1>3, <1>4, <1>9, RemoveRows DEF Role
  <2>2. ctx[r].seen = "owner" => Cardinality(Owners) # ctx[r].owners
    BY <1>9, RemoveRows
  <2>. QED
    BY <1>3, <1>9, <2>1, <2>2, LastStep DEF Stale, RemoveWrite
<1>10. CASE TransferWrite(r)
  <2>1. ASSUME ~Stale(r) PROVE FALSE
    <3>1. /\ Role(ctx[r].actor) = "owner" /\ Role(ctx[r].target) # "none"
          /\ ctx[r].actor \in Users /\ ctx[r].target \in Users
      BY <1>10, <2>1, TransferRows DEF Stale, TransferWrite
    <3>2. \A u \in Users : member'[u].role = "owner" <=> u = ctx[r].target
      BY <1>3, <1>10, <3>1, TransferRows DEF Role
    <3>. QED
      BY <1>4, <3>1, <3>2
  <2>. QED
    BY <1>10, <2>1, LastStep
<1>. QED
  BY <1>5, <1>6, <1>7, <1>8, <1>9, <1>10

\* activeOrgId is written by the actions named here, and goes with the
\* organization.
LEMMA ActiveWriters ==
  ASSUME Next
  PROVE  \/ UNCHANGED active
         \/ \E u \in Users : SwitchElsewhere(u)
         \/ \E r \in Requests : \/ RemoveClear(r) \/ DeleteClear(r)
                                \/ DeleteWrite(r) \/ SwitchWrite(r)
                                \/ Deactivate(r)
<1>1. ASSUME NEW r \in Requests
      PROVE  /\ MemberStep(r) => UNCHANGED active \/ RemoveClear(r)
             /\ OwnerStep(r) =>
                  UNCHANGED active \/ DeleteClear(r) \/ DeleteWrite(r)
             /\ InviteStep(r) => UNCHANGED active
             /\ ActiveStep(r) =>
                  UNCHANGED active \/ Deactivate(r) \/ SwitchWrite(r)
  BY DEF MemberStep, Create, CreateOwner, RoleTarget, RoleActor, RoleWrite,
         RemoveTarget, RemoveCount, RemoveActor, RemoveActive, RemoveWrite,
         OwnerStep, TransferActor, TransferSuccessor, TransferWrite,
         DeleteActor, InviteStep, InviteArrive, InviteFindPending, InviteWrite,
         AcceptFind, AcceptExpire, AcceptMember, AcceptJoin, AcceptMark,
         RevokeFind, RevokeWrite, ActiveStep, SwitchArrive, ResolveArrive,
         Resolve
<1>2. Environment => UNCHANGED active \/ \E u \in Users : SwitchElsewhere(u)
  BY DEF Environment, Lapse, Abort
<1>. QED
  BY <1>1, <1>2 DEF Next, Step

\* This organization becomes active by a switch to it, and another is cleared
\* only by a request that is at its write.
LEMMA ActiveEffects ==
  ASSUME IInv, Next, NEW u \in Users
  PROVE  /\ active'[u] = "this" /\ active[u] # "this" =>
              \E r \in Requests : /\ SwitchWrite(r) /\ org = "live"
                                  /\ ctx[r].actor = u /\ At(r, "activate")
         /\ active[u] = "other" /\ active'[u] = "none" =>
              \E r \in Requests :
                \/ At(r, "removeClear") /\ ctx[r].target = u
                \/ At(r, "deactivate") /\ ctx[r].actor = u
<1>1. /\ active \in [Users -> {"none", "this", "other"}]
      /\ \A r \in Requests :
           /\ At(r, "removeClear") => ctx[r].target \in Users
           /\ stage[r] \in {"activate", "deactivate"} => ctx[r].actor \in Users
  BY InFlight DEF IInv, TypeInv, At, Sound, ActorStages, TargetStages
<1>2. CASE UNCHANGED active
  BY <1>2
<1>3. ASSUME NEW v \in Users, SwitchElsewhere(v)
      PROVE  active'[u] = active[u] \/ active'[u] = "other"
  BY <1>1, <1>3 DEF SwitchElsewhere
<1>4. ASSUME NEW r \in Requests, RemoveClear(r)
      PROVE  /\ At(r, "removeClear")
             /\ \/ active'[u] = active[u]
                \/ ctx[r].target = u /\ active'[u] = "none"
  BY <1>1, <1>4 DEF RemoveClear
<1>5. ASSUME NEW r \in Requests, DeleteClear(r) \/ DeleteWrite(r)
      PROVE  active'[u] = active[u] \/ (active[u] = "this" /\ active'[u] = "none")
  BY <1>1, <1>5 DEF DeleteClear, DeleteWrite, Cleared
<1>6. ASSUME NEW r \in Requests, SwitchWrite(r)
      PROVE  /\ At(r, "activate")
             /\ \/ active'[u] = active[u]
                \/ ctx[r].actor = u /\ active'[u] = "this" /\ org = "live"
  BY <1>1, <1>6 DEF SwitchWrite, At
<1>7. ASSUME NEW r \in Requests, Deactivate(r)
      PROVE  /\ At(r, "deactivate")
             /\ \/ active'[u] = active[u]
                \/ ctx[r].actor = u /\ active'[u] = "none"
  BY <1>1, <1>7 DEF Deactivate, At
<1>. QED
  BY <1>2, <1>3, <1>4, <1>5, <1>6, <1>7, ActiveWriters

\* A request comes to accept an invitation only having seen it pending.
Accepting == {"acceptMember", "acceptJoin"}

\* Request r does not begin to accept invitation i.
NotNow(r, i) ==
  stage'[r] \in Accepting /\ ctx'[r].invite = i =>
    \/ stage[r] \in Accepting /\ ctx[r].invite = i
    \/ invite[i].status = "pending"

LEMMA NotNowArrived ==
  ASSUME IInv, NEW r \in Requests, NEW i \in Invitations, NEW s, NEW c,
         Arrive(r, s, c),
         s \notin Accepting \/ (c.invite = i => invite[i].status = "pending")
  PROVE  \A x \in Requests : NotNow(x, i)
BY DEF IInv, TypeInv, Arrive, NotNow

LEMMA NotNowGone ==
  ASSUME IInv, NEW r \in Requests, NEW i \in Invitations, NEW s,
         Finish(r) \/ Goto(r, s), s \notin Accepting \/ stage[r] \in Accepting
  PROVE  \A x \in Requests : NotNow(x, i)
BY DEF IInv, TypeInv, Finish, Goto, NotNow, Accepting

LEMMA AcceptingStep ==
  ASSUME IInv, Next, NEW i \in Invitations
  PROVE  \A x \in Requests : NotNow(x, i)
<1>. USE DEF Accepting
<1>1. ASSUME NEW r \in Requests,
             \/ \E u \in Users : Create(r, u)
             \/ \E a, u \in Users, role \in {"member", "admin", "owner"} :
                  RoleTarget(r, a, u, role)
             \/ \E a, u \in Users : RemoveTarget(r, a, u)
             \/ \E a, u \in Users : TransferActor(r, a, u)
             \/ \E a \in Users : DeleteActor(r, a)
             \/ \E u \in Users, role \in InvitedRoles : InviteArrive(r, u, role)
             \/ \E u \in Users, j \in Invitations : AcceptFind(r, u, j)
             \/ \E j \in Invitations : RevokeFind(r, j)
             \/ \E u \in Users : SwitchArrive(r, u) \/ ResolveArrive(r, u)
      PROVE  \A x \in Requests : NotNow(x, i)
  <2>1. CASE \E a, u \in Users : RemoveTarget(r, a, u)
    BY <2>1, NotNowArrived DEF RemoveTarget, AfterCount
  <2>2. CASE \E u \in Users, j \in Invitations : AcceptFind(r, u, j)
    BY <2>2, NotNowArrived DEF AcceptFind, Blank
  <2>. QED
    BY <1>1, <2>1, <2>2, NotNowArrived
       DEF Create, RoleTarget, TransferActor, DeleteActor, InviteArrive,
           RevokeFind, SwitchArrive, ResolveArrive
<1>2. ASSUME NEW r \in Requests,
             \/ CreateOwner(r) \/ RoleActor(r) \/ RoleWrite(r) \/ RemoveActor(r)
             \/ RemoveActive(r) \/ RemoveClear(r) \/ RemoveWrite(r) \/ TransferWrite(r)
             \/ DeleteClear(r) \/ DeleteWrite(r) \/ InviteFindPending(r)
             \/ \E j \in Invitations : InviteWrite(r, j)
             \/ AcceptExpire(r) \/ AcceptMember(r) \/ AcceptJoin(r)
             \/ AcceptMark(r) \/ RevokeWrite(r) \/ Resolve(r)
             \/ Deactivate(r) \/ Abort(r)
      PROVE  \A x \in Requests : NotNow(x, i)
  BY <1>2, NotNowGone
     DEF CreateOwner, RoleActor, RoleWrite, RemoveActor, RemoveActive,
         RemoveClear, RemoveWrite, TransferWrite, DeleteClear, DeleteWrite,
         InviteFindPending, InviteWrite, AcceptExpire, AcceptMember, AcceptJoin,
         AcceptMark, RevokeWrite, Resolve, Deactivate, Abort, At
<1>3. ASSUME NEW r \in Requests, RemoveCount(r) \/ TransferSuccessor(r)
      PROVE  \A x \in Requests : NotNow(x, i)
  <2>1. /\ stage'[r] \notin Accepting
        /\ \A x \in Requests : x # r => stage'[x] = stage[x] /\ ctx'[x] = ctx[x]
    BY <1>3 DEF RemoveCount, TransferSuccessor, Finish, AfterCount, IInv, TypeInv
  <2>. QED
    BY <2>1 DEF NotNow
<1>4. CASE UNCHANGED <<stage, ctx>>
  BY <1>4 DEF NotNow
<1>5. ASSUME NEW r \in Requests, SwitchWrite(r)
      PROVE  \A x \in Requests : NotNow(x, i)
  <2>1. CASE org = "live"
    <3>1. /\ stage'[r] \notin Accepting
          /\ \A x \in Requests : x # r => stage'[x] = stage[x]
          /\ \A x \in Requests : ctx'[x].invite = ctx[x].invite
      BY <1>5, <2>1, SwitchWriteIs DEF Alike, IInv, TypeInv
    <3>. QED
      BY <3>1 DEF NotNow
  <2>2. CASE org # "live"
    BY <1>5, <2>2, NotNowGone DEF SwitchWrite
  <2>. QED
    BY <2>1, <2>2
<1>6. CASE Environment
  <2>1. UNCHANGED <<stage, ctx>> \/ \E r \in Requests : Abort(r)
    BY <1>6 DEF Environment, SwitchElsewhere, Lapse
  <2>. QED
    BY <1>2, <1>4, <2>1
<1>7. ASSUME NEW r \in Requests, MemberStep(r) \/ OwnerStep(r)
      PROVE  \A x \in Requests : NotNow(x, i)
  BY <1>1, <1>2, <1>3, <1>7 DEF MemberStep, OwnerStep
<1>8. ASSUME NEW r \in Requests, InviteStep(r) \/ ActiveStep(r)
      PROVE  \A x \in Requests : NotNow(x, i)
  BY <1>1, <1>2, <1>5, <1>8 DEF InviteStep, ActiveStep
<1>. QED
  BY <1>6, <1>7, <1>8 DEF Next, Step

\* A status that is final stays, or goes with the organization.
LEMMA StatusStep ==
  ASSUME IInv, Next, NEW i \in Invitations,
         invite[i].status \in {"accepted", "revoked", "expired"}
  PROVE  invite'[i].status \in {"accepted", "revoked", "expired", "deleted"}
<1>1. ASSUME NEW r \in Requests,
             AcceptExpire(r) \/ AcceptMark(r) \/ RevokeWrite(r)
      PROVE  invite'[i].status \in {"accepted", "revoked", "expired", "deleted"}
  <2>1. PICK s \in {"accepted", "revoked", "expired"} :
          SetStatus(ctx[r].invite, s)
    BY <1>1 DEF AcceptExpire, AcceptMark, RevokeWrite
  <2>2. ctx[r].invite \in Invitations
    BY <1>1, InFlight
       DEF AcceptExpire, AcceptMark, RevokeWrite, At, Sound, InviteStages
  <2>. QED
    BY <2>1, <2>2, StatusIs
<1>2. ASSUME NEW r \in Requests,
             \/ \E j \in Invitations : InviteWrite(r, j)
             \/ DeleteWrite(r) \/ Abort(r)
             \/ \E j \in Invitations : Lapse(j)
      PROVE  invite'[i].status \in {"accepted", "revoked", "expired", "deleted"}
  BY <1>2 DEF InviteWrite, DeleteWrite, Abort, Lapse, IInv, TypeInv, InviteRows,
              NoInvite
<1>3. CASE UNCHANGED invite
  BY <1>3
<1>4. ASSUME NEW r \in Requests,
             MemberStep(r) \/ OwnerStep(r) \/ InviteStep(r) \/ ActiveStep(r)
      PROVE  \/ UNCHANGED invite
             \/ AcceptExpire(r) \/ AcceptMark(r) \/ RevokeWrite(r)
             \/ DeleteWrite(r)
             \/ \E j \in Invitations : InviteWrite(r, j)
  BY <1>4
     DEF MemberStep, Create, CreateOwner, RoleTarget, RoleActor, RoleWrite,
         RemoveTarget, RemoveCount, RemoveActor, RemoveActive, RemoveClear,
         RemoveWrite, OwnerStep, TransferActor, TransferSuccessor, TransferWrite,
         DeleteActor, DeleteClear, InviteStep, InviteArrive, InviteFindPending,
         AcceptFind, AcceptMember, AcceptJoin, RevokeFind, ActiveStep,
         SwitchArrive, SwitchWrite, ResolveArrive, Resolve, Deactivate
<1>5. ASSUME NEW j \in Invitations, Lapse(j)
      PROVE  invite'[i].status \in {"accepted", "revoked", "expired", "deleted"}
  BY <1>5 DEF Lapse, IInv, TypeInv, InviteRows
<1>. QED
  BY <1>1, <1>2, <1>3, <1>4, <1>5 DEF Next, Step, Environment, SwitchElsewhere

\* What is closed stays closed, and nobody joins by it.
LEMMA StaysClosed ==
  ASSUME IInv, Next, NEW i \in Invitations, Closed(i)
  PROVE  /\ Closed(i)' \/ invite'[i].status = "deleted"
         /\ \A u \in Users : member'[u].via = i => member[u].via = i
<1>1. /\ invite[i].status \in {"accepted", "revoked", "expired"}
      /\ \A r \in Requests : ctx[r].invite = i => stage[r] \notin Accepting
  BY DEF Closed, Accepting
<1>2. \A r \in Requests : ctx'[r].invite = i => stage'[r] \notin Accepting
  BY <1>1, AcceptingStep DEF NotNow
<1>3. invite'[i].status \in {"accepted", "revoked", "expired", "deleted"}
  BY <1>1, StatusStep
<1>4. ASSUME NEW u \in Users, member'[u].via = i, member[u].via # i
      PROVE  FALSE
  <2>1. i # None
    BY NoneIsNothing
  <2>2. member' # member
    BY <1>4
  <2>3. CASE org' = "gone"
    <3>1. member'[u].via = None
      BY <2>3, NextKeeps DEF IInv, OrgInv, NotMember
    <3>. QED
      BY <1>4, <2>1, <3>1
  <2>4. CASE \E r \in Requests : RoleWrite(r) \/ RemoveWrite(r) \/ TransferWrite(r)
    BY <1>4, <2>1, <2>4, RoleRows, RemoveRows, TransferRows
  <2>5. ASSUME NEW r \in Requests, CreateOwner(r) PROVE FALSE
    BY <1>4, <2>5 DEF CreateOwner, IInv, TypeInv, Members
  <2>6. ASSUME NEW r \in Requests, AcceptJoin(r) PROVE FALSE
    <3>1. ctx[r].invite = i
      BY <1>4, <2>6, NewMember
    <3>. QED
      BY <1>1, <2>6, <3>1 DEF AcceptJoin, At, Accepting
  <2>. QED
    BY <2>2, <2>3, <2>4, <2>5, <2>6, MembersStep
<1>. QED
  BY <1>2, <1>3, <1>4 DEF Closed, Accepting

-----------------------------------------------------------------------------
(* Which organization is active.                                           *)

\* The awaits before which a request has read or written activeOrgId.
Watched == {"removeClear", "removeWrite", "resolve", "deactivate"}

\* Request r does not come to such an await.
Unmoved(r) ==
  \/ stage'[r] = stage[r] /\ ctx'[r] = ctx[r]
  \/ stage'[r] \notin Watched

LEMMA UnmovedArrived ==
  ASSUME IInv, NEW r \in Requests, NEW s, NEW c, Arrive(r, s, c),
         s \notin Watched
  PROVE  \A x \in Requests : Unmoved(x)
BY DEF IInv, TypeInv, Arrive, Unmoved

LEMMA UnmovedGone ==
  ASSUME IInv, NEW r \in Requests, NEW s, Finish(r) \/ Goto(r, s),
         s \notin Watched
  PROVE  \A x \in Requests : Unmoved(x)
BY DEF IInv, TypeInv, Finish, Goto, Unmoved, Watched

\* The steps that bring a request to such an await.
Notices(r) ==
  \/ \E a, u \in Users : RemoveTarget(r, a, u)
  \/ RemoveCount(r)
  \/ RemoveActive(r)
  \/ RemoveClear(r)
  \/ SwitchWrite(r)
  \/ \E u \in Users : ResolveArrive(r, u)
  \/ Resolve(r)

LEMMA WatchedStep ==
  ASSUME IInv, Next
  PROVE  \/ \A x \in Requests : Unmoved(x)
         \/ \E r \in Requests : Notices(r)
<1>. USE DEF Watched
<1>1. ASSUME NEW r \in Requests,
             \/ \E u \in Users : Create(r, u)
             \/ \E a, u \in Users, role \in {"member", "admin", "owner"} :
                  RoleTarget(r, a, u, role)
             \/ \E a, u \in Users : TransferActor(r, a, u)
             \/ \E a \in Users : DeleteActor(r, a)
             \/ \E u \in Users, role \in InvitedRoles : InviteArrive(r, u, role)
             \/ \E u \in Users, j \in Invitations : AcceptFind(r, u, j)
             \/ \E j \in Invitations : RevokeFind(r, j)
             \/ \E u \in Users : SwitchArrive(r, u)
      PROVE  \A x \in Requests : Unmoved(x)
  <2>1. CASE \E u \in Users, j \in Invitations : AcceptFind(r, u, j)
    BY <2>1, UnmovedArrived DEF AcceptFind
  <2>2. CASE \E a, u \in Users, role \in {"member", "admin", "owner"} :
               RoleTarget(r, a, u, role)
    BY <2>2, UnmovedArrived DEF RoleTarget
  <2>3. CASE \E a, u \in Users : TransferActor(r, a, u)
    BY <2>3, UnmovedArrived DEF TransferActor
  <2>4. CASE \E a \in Users : DeleteActor(r, a)
    BY <2>4, UnmovedArrived DEF DeleteActor
  <2>5. CASE \E u \in Users, role \in InvitedRoles : InviteArrive(r, u, role)
    BY <2>5, UnmovedArrived DEF InviteArrive
  <2>6. CASE \/ \E u \in Users : Create(r, u) \/ SwitchArrive(r, u)
             \/ \E j \in Invitations : RevokeFind(r, j)
    BY <2>6, UnmovedArrived DEF Create, RevokeFind, SwitchArrive
  <2>. QED
    BY <1>1, <2>1, <2>2, <2>3, <2>4, <2>5, <2>6
<1>2. ASSUME NEW r \in Requests,
             \/ CreateOwner(r) \/ RoleActor(r) \/ RoleWrite(r) \/ RemoveActor(r)
             \/ RemoveWrite(r) \/ TransferWrite(r)
             \/ DeleteClear(r) \/ DeleteWrite(r) \/ InviteFindPending(r)
             \/ \E j \in Invitations : InviteWrite(r, j)
             \/ AcceptExpire(r) \/ AcceptMember(r) \/ AcceptJoin(r)
             \/ AcceptMark(r) \/ RevokeWrite(r) \/ Deactivate(r) \/ Abort(r)
      PROVE  \A x \in Requests : Unmoved(x)
  BY <1>2, UnmovedGone
     DEF CreateOwner, RoleActor, RoleWrite, RemoveActor, RemoveWrite,
         TransferWrite, DeleteClear, DeleteWrite, InviteFindPending, InviteWrite,
         AcceptExpire, AcceptMember, AcceptJoin, AcceptMark, RevokeWrite,
         Deactivate, Abort
<1>3. ASSUME NEW r \in Requests, TransferSuccessor(r)
      PROVE  \A x \in Requests : Unmoved(x)
  BY <1>3 DEF TransferSuccessor, Finish, Unmoved, IInv, TypeInv
<1>4. CASE UNCHANGED <<stage, ctx>>
  BY <1>4 DEF Unmoved
<1>5. CASE Environment
  <2>1. UNCHANGED <<stage, ctx>> \/ \E r \in Requests : Abort(r)
    BY <1>5 DEF Environment, SwitchElsewhere, Lapse
  <2>. QED
    BY <1>2, <1>4, <2>1
<1>6. ASSUME NEW r \in Requests, MemberStep(r) \/ OwnerStep(r)
      PROVE  Notices(r) \/ \A x \in Requests : Unmoved(x)
  BY <1>1, <1>2, <1>3, <1>6 DEF MemberStep, OwnerStep, Notices
<1>7. ASSUME NEW r \in Requests, InviteStep(r) \/ ActiveStep(r)
      PROVE  Notices(r) \/ \A x \in Requests : Unmoved(x)
  BY <1>1, <1>2, <1>7 DEF InviteStep, ActiveStep, Notices
<1>. QED
  BY <1>5, <1>6, <1>7 DEF Next, Step

\* A request is about to remove somebody else: it was before, or it has just
\* dealt with activeOrgId.
LEMMA AboutToRemove ==
  ASSUME IInv, Next, NEW x \in Requests, stage'[x] = "removeWrite",
         ctx'[x].actor # ctx'[x].target
  PROVE  \/ /\ stage[x] = "removeWrite"
            /\ Alike(ctx[x], ctx'[x])
            /\ ctx[x].switched => ctx'[x].switched
         \/ active'[ctx'[x].target] # "this"
<1>1. /\ stage \in [Requests -> Stages] /\ ctx \in [Requests -> Locals]
      /\ active \in [Users -> {"none", "this", "other"}]
      /\ ctx' \in [Requests -> Locals]
  BY NextKeeps DEF IInv, TypeInv
<1>2. CASE Unmoved(x)
  BY <1>1, <1>2 DEF Unmoved, Watched, Alike, Locals
<1>3. ASSUME NEW r \in Requests, NEW a \in Users, NEW u \in Users,
             RemoveTarget(r, a, u)
      PROVE  Unmoved(x)
  <2>1. CASE x # r
    BY <1>1, <1>3, <2>1 DEF RemoveTarget, Arrive, Unmoved
  <2>2. CASE x = r
    <3>1. /\ ctx'[x].actor = a /\ ctx'[x].target = u
          /\ stage'[x] \in {"count", IF u = a THEN "removeWrite" ELSE "removeActor"}
      BY <1>1, <1>3, <2>2 DEF RemoveTarget, Arrive, AfterCount, Blank
    <3>. QED
      BY <3>1
  <2>. QED
    BY <2>1, <2>2
<1>4. ASSUME NEW r \in Requests, RemoveCount(r) PROVE Unmoved(x)
  <2>1. CASE x # r
    BY <1>1, <1>4, <2>1 DEF RemoveCount, Finish, Unmoved
  <2>2. CASE x = r
    BY <1>1, <1>4, <2>2 DEF RemoveCount, Finish, AfterCount, Unmoved, Watched, Locals
  <2>. QED
    BY <2>1, <2>2
<1>5. ASSUME NEW r \in Requests, RemoveActive(r) \/ RemoveClear(r)
      PROVE  Unmoved(x) \/ active'[ctx'[x].target] # "this"
  <2>1. CASE x # r
    BY <1>1, <1>5, <2>1 DEF RemoveActive, RemoveClear, Goto, Unmoved
  <2>2. CASE x = r
    <3>1. ctx'[x] = ctx[x] /\ ctx[x].target \in Users
      BY <1>5, <2>2, InFlight
         DEF RemoveActive, RemoveClear, Goto, At, Sound, TargetStages
    <3>2. CASE RemoveActive(r)
      BY <1>1, <2>2, <3>1, <3>2 DEF RemoveActive, Goto
    <3>3. CASE RemoveClear(r)
      BY <1>1, <2>2, <3>1, <3>3 DEF RemoveClear
    <3>. QED
      BY <1>5, <3>2, <3>3
  <2>. QED
    BY <2>1, <2>2
<1>6. ASSUME NEW r \in Requests, SwitchWrite(r)
      PROVE  \/ Unmoved(x)
             \/ /\ stage[x] = "removeWrite" /\ Alike(ctx[x], ctx'[x])
                /\ ctx[x].switched => ctx'[x].switched
  <2>1. CASE org # "live"
    BY <1>6, <2>1, UnmovedGone DEF SwitchWrite, Watched
  <2>2. CASE org = "live"
    <3>1. x # r
      BY <1>1, <1>6, <2>2, SwitchWriteIs
    <3>. QED
      BY <1>1, <1>6, <2>2, <3>1, SwitchWriteIs
  <2>. QED
    BY <2>1, <2>2
<1>7. ASSUME NEW r \in Requests,
             (\E u \in Users : ResolveArrive(r, u)) \/ Resolve(r)
      PROVE  Unmoved(x)
  BY <1>1, <1>7 DEF ResolveArrive, Resolve, Arrive, Goto, Finish, Unmoved
<1>. QED
  BY <1>2, <1>3, <1>4, <1>5, <1>6, <1>7, WatchedStep DEF Notices

LEMMA RemovedStep ==
  ASSUME IInv, RemovedNotActive, Next
  PROVE  RemovedNotActive'
<1>. SUFFICES ASSUME NEW x \in Requests, stage'[x] = "removeWrite",
                     ctx'[x].actor # ctx'[x].target,
                     active'[ctx'[x].target] = "this", ~ctx'[x].switched
              PROVE  FALSE
  BY DEF RemovedNotActive, At
<1>1. /\ stage[x] = "removeWrite" /\ Alike(ctx[x], ctx'[x]) /\ ~ctx[x].switched
  BY AboutToRemove
<1>2. /\ ctx'[x].target = ctx[x].target /\ ctx[x].target \in Users
      /\ active[ctx[x].target] # "this"
  BY <1>1, InFlight DEF Alike, Sound, TargetStages, RemovedNotActive, At
<1>3. PICK r \in Requests : SwitchWrite(r) /\ org = "live"
                              /\ ctx[r].actor = ctx[x].target
  BY <1>2, ActiveEffects
<1>. QED
  BY <1>1, <1>2, <1>3, SwitchWriteIs DEF At

\* A request that is about to clear an account's active organization was
\* before, or this one is or was active.
LEMMA AboutToClear ==
  ASSUME IInv, Next, NEW x \in Requests, NEW u \in Users,
         active[u] # "this", active'[u] # "this"
  PROVE  /\ stage'[x] = "removeClear" /\ ctx'[x].target = u =>
              stage[x] = "removeClear" /\ ctx[x].target = u
         /\ stage'[x] \in {"resolve", "deactivate"} /\ ctx'[x].actor = u =>
              stage[x] \in {"resolve", "deactivate"} /\ ctx[x].actor = u
<1>. DEFINE P == /\ stage'[x] = "removeClear" /\ ctx'[x].target = u =>
                      stage[x] = "removeClear" /\ ctx[x].target = u
                 /\ stage'[x] \in {"resolve", "deactivate"} /\ ctx'[x].actor = u =>
                      stage[x] \in {"resolve", "deactivate"} /\ ctx[x].actor = u
<1>1. /\ stage \in [Requests -> Stages] /\ ctx \in [Requests -> Locals]
      /\ active \in [Users -> {"none", "this", "other"}]
  BY DEF IInv, TypeInv
<1>2. CASE Unmoved(x)
  BY <1>2 DEF Unmoved, Watched
<1>3. ASSUME NEW r \in Requests, NEW a \in Users, NEW v \in Users,
             RemoveTarget(r, a, v)
      PROVE  P
  BY <1>1, <1>3 DEF RemoveTarget, Arrive, AfterCount
<1>4. ASSUME NEW r \in Requests, RemoveCount(r) PROVE P
  BY <1>1, <1>4 DEF RemoveCount, Finish, AfterCount
<1>5. ASSUME NEW r \in Requests, RemoveActive(r) PROVE P
  BY <1>1, <1>5 DEF RemoveActive, Goto
<1>6. ASSUME NEW r \in Requests, RemoveClear(r) PROVE P
  BY <1>1, <1>6 DEF RemoveClear, Goto
<1>7. ASSUME NEW r \in Requests, SwitchWrite(r) PROVE P
  <2>1. CASE org # "live"
    BY <1>2, <1>7, <2>1, UnmovedGone DEF SwitchWrite, Watched
  <2>2. CASE org = "live"
    <3>1. /\ stage' = [stage EXCEPT ![r] = "resolve"]
          /\ active' = [active EXCEPT ![ctx[r].actor] = "this"]
          /\ ctx'[x].actor = ctx[x].actor /\ ctx'[x].target = ctx[x].target
      BY <1>7, <2>2, SwitchWriteIs DEF Alike
    <3>2. ctx[r].actor # u
      BY <1>1, <3>1
    <3>. QED
      BY <1>1, <3>1, <3>2
  <2>. QED
    BY <2>1, <2>2
<1>8. ASSUME NEW r \in Requests, NEW v \in Users, ResolveArrive(r, v) PROVE P
  BY <1>1, <1>8 DEF ResolveArrive, Arrive, Blank
<1>9. ASSUME NEW r \in Requests, Resolve(r) PROVE P
  BY <1>1, <1>9 DEF Resolve, Goto, Finish, At
<1>. QED
  BY <1>2, <1>3, <1>4, <1>5, <1>6, <1>7, <1>8, <1>9, WatchedStep DEF Notices

LEMMA ElsewhereStep ==
  ASSUME IInv, Next, NEW u \in Users, Elsewhere(u)
  PROVE  \/ Elsewhere(u)'
         \/ /\ active'[u] = "this"
            /\ \E r \in Requests : At(r, "activate") /\ ctx[r].actor = u
<1>1. active[u] = "other" /\ active'[u] \in {"none", "this", "other"}
  BY NextKeeps DEF Elsewhere, IInv, TypeInv
<1>2. CASE active'[u] = "this"
  BY <1>1, <1>2, ActiveEffects
<1>3. active'[u] # "none"
  BY <1>1, ActiveEffects DEF Elsewhere, At
<1>4. CASE active'[u] = "other"
  BY <1>1, <1>4, AboutToClear DEF Elsewhere, At
<1>. QED
  BY <1>1, <1>2, <1>3, <1>4

-----------------------------------------------------------------------------
(* The theorems.                                                           *)

\* What the requests hold between their awaits stays true of the tables.
THEOREM Inductive == Spec => []IInv
<1>1. IInv /\ [Next]_vars => IInv'
  BY NextKeeps, StutterKeeps
<1>. QED
  BY <1>1, InitIInv, PTL DEF Spec

\* The tables and the requests keep their types, and an organization that is
\* deleted leaves no member, no invitation and nobody who has it active.
THEOREM TypeSafe == Spec => []TypeOK
<1>1. IInv => TypeOK
  BY IInvImplies
<1>. QED
  BY <1>1, Inductive, PTL

\* An invitation that was used is left pending by no handler that finishes.
THEOREM UsedCloses == Spec => []UsedInvitationCloses
<1>1. IInv => UsedInvitationCloses
  BY IInvImplies
<1>. QED
  BY <1>1, Inductive, PTL

\* With one owner there is one owner, as long as no request acts on a role or a
\* count that is out of date.
THEOREM OneOwner == Spec => SoleOwnerKept
<1>1. IInv /\ [Next]_vars
        => [Cardinality(Owners) = 1 /\ Cardinality(Owners') # 1 /\ org' = "live" =>
              \E r \in Requests : Writes(r) /\ Stale(r)]_vars
  BY SoleOwner
<1>. QED
  BY <1>1, Inductive, PTL DEF Spec, SoleOwnerKept

\* No owner is deposed by another member.
THEOREM OwnersStay == Spec => OwnerNotDeposed
<1>1. IInv /\ [Next]_vars
        => [\A u \in Users :
              Role(u) = "owner" /\ member'[u].role # "owner" /\ org' = "live" =>
                \E r \in Requests :
                  /\ Writes(r)
                  /\ \/ ctx[r].actor = u
                     \/ ctx[r].target = u /\ ctx[r].seen # "owner"]_vars
  BY Deposed
<1>. QED
  BY <1>1, Inductive, PTL DEF Spec, OwnerNotDeposed

\* A closed invitation admits nobody.
THEOREM ClosedForGood == Spec => InvitationStaysClosed
<1>1. IInv /\ [Next]_vars
        => [\A i \in Invitations :
              Closed(i) =>
                /\ Closed(i)' \/ invite'[i].status = "deleted"
                /\ \A u \in Users : member'[u].via = i => member[u].via = i]_vars
  <2>1. CASE UNCHANGED vars
    BY <2>1 DEF vars
  <2>. QED
    BY <2>1, StaysClosed
<1>. QED
  BY <1>1, Inductive, PTL DEF Spec, InvitationStaysClosed

\* Whoever is removed by another has not got the organization active, or has
\* switched to it behind the removal.
THEOREM RemovedInactive == Spec => []RemovedNotActive
<1>1. Init => RemovedNotActive
  BY DEF Init, RemovedNotActive, At
<1>2. IInv /\ RemovedNotActive /\ [Next]_vars => RemovedNotActive'
  <2>1. CASE UNCHANGED vars
    BY <2>1 DEF vars, RemovedNotActive, At
  <2>. QED
    BY <2>1, RemovedStep
<1>. QED
  BY <1>1, <1>2, Inductive, PTL DEF Spec

\* What happens in this organization leaves another one active.
THEOREM OthersKept == Spec => ElsewhereKept
<1>1. IInv /\ [Next]_vars
        => [\A u \in Users :
              Elsewhere(u) =>
                \/ Elsewhere(u)'
                \/ /\ active'[u] = "this"
                   /\ \E r \in Requests : At(r, "activate") /\ ctx[r].actor = u]_vars
  BY ElsewhereStep
<1>. QED
  BY <1>1, Inductive, PTL DEF Spec, ElsewhereKept
=============================================================================

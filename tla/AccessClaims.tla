------------------------------ MODULE AccessClaims ------------------------------
(***************************************************************************)
(* Authority: the seeded roles and permissions, which accounts have which  *)
(* role, the claims that access tokens carry for 15 minutes, the           *)
(* permissions frozen into API keys, and what is then allowed on the       *)
(* strength of a claim alone: assigning and removing roles, creating and   *)
(* deleting accounts, creating keys and setting an organization's MFA      *)
(* policy.                                                                 *)
(*                                                                         *)
(* A claim is never looked up again, so it outlives the rows it was read   *)
(* from.  Handlers run from await to await, as in AuthSessions, in one of  *)
(* several server processes, each of which seeds the database before it    *)
(* serves.  Refresh tokens, lockout, MFA, disabling and the limit on keys  *)
(* are in the other modules; who changes members' roles is OrgMembership.  *)
(***************************************************************************)
EXTENDS Integers, FiniteSets, Sequences

CONSTANTS
  Users,      \* accounts that may exist
  Existing,   \* those that may exist at the start
  Tokens,     \* access tokens outstanding at once
  Keys,       \* API keys that may be created
  Servers,    \* server processes
  Requests,   \* requests in flight at once
  Workloads,  \* each a set of operations of one behaviour, and of the roles
              \* it assigns and removes
  None        \* SQL null, and "not there" in a request's context

ASSUME NoneIsNothing == None \notin Users \cup Tokens \cup Keys \cup Servers
ASSUME ExistingAreUsers == Existing \subseteq Users /\ Existing # {}

VARIABLES
  seeded,     \* the rows of roles, permissions and role_permissions
  server,     \* server[n]: what process n does, and its seed statements so far
  account,    \* account[u]: the users row
  holds,      \* user_roles, as pairs of an account and a role
  member,     \* member[u]: u's role in the organization, from org_members
  active,     \* accounts whose activeOrgId is that organization
  policy,     \* the org_mfa_policies row: the value, and who set it
  token,      \* token[t]: an access token and its claims
  key,        \* key[k]: the api_keys row
  stage,      \* stage[r]: the await request r is suspended at
  ctx,        \* ctx[r]: the local variables of r's handler
  workload,   \* the operations of this behaviour; never changes
  held        \* history: held[u], the authority u's rows have ever carried

tables == <<seeded, account, holds, member, active, policy, key>>
vars == <<tables, server, token, stage, ctx, workload, held>>

\* moderator adds only reads, and is left out.
Roles == {"user", "admin"}

\* "write" is write:users and write:roles, which the same role carries;
\* "profile" is read:profile and write:profile.
Permissions == {"profile", "write"}

OrgRoles == {"none", "member", "owner"}

\* The rows seedSystemData inserts, in its order: roles, permissions, mappings.
SeedPlan ==
  <<<<"user">>, <<"admin">>, <<"profile">>, <<"write">>,
    <<"user", "profile">>, <<"admin", "profile">>, <<"admin", "write">>>>
Seeds == {SeedPlan[n] : n \in DOMAIN SeedPlan}

\* History: an operator made the account an administrator, an administrator
\* took its default role away, or the request that was to give it stopped.
NoAccount == [status |-> "absent", born |-> "none", promoted |-> FALSE,
              stripped |-> FALSE, halted |-> FALSE]

NoClaims == [user |-> None, perms |-> {}, org |-> "none"]
NoToken == [status |-> "none", claims |-> NoClaims]
NoKey == [status |-> "absent", user |-> None, perms |-> {}]

Blank ==
  [server |-> None, user |-> None, by |-> None, role |-> "user",
   inOrg |-> FALSE, perms |-> {}, org |-> "none"]

Stages ==
  {"idle", "findDefault", "assignDefault", "assign", "deleteUser", "rolesRead",
   "orgRead", "deactivate", "issue", "activate", "keyInsert"}

Live(u) == account[u].status = "live"

\* findUserRolesWithPermissions
Carried(u) ==
  {p \in Permissions : \E role \in Roles : <<u, role>> \in holds
                                           /\ <<role, p>> \in seeded}

\* What the rows of u amount to: permissions, and a role in the organization.
Authority(u) == Carried(u) \cup ({member[u]} \ {"none"})

\* The accounts of this behaviour's start: none, one or all of Existing.
AtStart ==
  IF "boot" \in workload THEN {}
  ELSE IF "alone" \in workload THEN {CHOOSE u \in Existing : TRUE}
  ELSE Existing

\* Either the first boot, on an empty database, or one server that has served.
Init ==
  /\ workload \in Workloads
  /\ LET first == "boot" \in workload
     IN  /\ seeded = IF first THEN {} ELSE Seeds
         /\ server = [n \in Servers |->
                        IF first \/ n # CHOOSE m \in Servers : TRUE
                        THEN [state |-> "down", at |-> 0]
                        ELSE [state |-> "up", at |-> Len(SeedPlan)]]
         /\ account = [u \in Users |->
                         IF u \notin AtStart THEN NoAccount
                         ELSE [NoAccount EXCEPT !.status = "live",
                                                !.born = "registered"]]
         /\ holds = AtStart \X {"user"}
  /\ member = [u \in Users |-> "none"]
  /\ active = {}
  /\ policy = [required |-> FALSE, by |-> None]
  /\ token = [t \in Tokens |-> NoToken]
  /\ key = [k \in Keys |-> NoKey]
  /\ stage = [r \in Requests |-> "idle"]
  /\ ctx = [r \in Requests |-> Blank]
  /\ held = [u \in Users |-> Authority(u)]

-----------------------------------------------------------------------------
(* Starting a server.                                                      *)

Others == <<account, holds, member, active, policy, key, token>>

Boot(n) ==
  /\ "boot" \in workload
  /\ server[n].state = "down"
  /\ server' = [server EXCEPT ![n] = [state |-> "seeding", at |-> 0]]
  /\ UNCHANGED <<seeded, Others, stage, ctx>>

\* The n-th server runs its next statement.  Rows there already are kept.
Seed(n) ==
  /\ server[n].state = "seeding"
  /\ server[n].at < Len(SeedPlan)
  /\ server' = [server EXCEPT ![n].at = @ + 1]
  /\ seeded' = seeded \cup {SeedPlan[server[n].at + 1]}
  /\ UNCHANGED <<Others, stage, ctx>>

SeedRow(n) == Seed(n) /\ Len(SeedPlan[server[n].at + 1]) = 1

\* Both rows of the pair are looked up, and found.
SeedMapping(n) == Seed(n) /\ Len(SeedPlan[server[n].at + 1]) = 2

\* Seeded fault: the seed is not awaited.
ListenUnseeded(n) ==
  /\ server[n].state = "seeding"
  /\ server' = [server EXCEPT ![n].state = "up"]
  /\ UNCHANGED <<seeded, Others, stage, ctx>>

Listen(n) ==
  /\ server[n].state = "seeding"
  /\ server[n].at = Len(SeedPlan)
  /\ server' = [server EXCEPT ![n].state = "up"]
  /\ UNCHANGED <<seeded, Others, stage, ctx>>

-----------------------------------------------------------------------------
(* Stepping a request.                                                     *)

At(r, s) == stage[r] = s

\* Request r of a kind this workload has reaches a server, and runs up to s.
Arrive(r, op, locals, s) ==
  /\ op \in workload
  /\ At(r, "idle")
  /\ \E n \in Servers :
       /\ server[n].state = "up"
       /\ ctx' = [ctx EXCEPT ![r] = [locals EXCEPT !.server = n]]
  /\ stage' = [stage EXCEPT ![r] = s]

Goto(r, s) ==
  /\ stage' = [stage EXCEPT ![r] = s]
  /\ UNCHANGED ctx

GotoWith(r, s, locals) ==
  /\ stage' = [stage EXCEPT ![r] = s]
  /\ ctx' = [ctx EXCEPT ![r] = locals]

\* The handler returned or threw.
Finish(r) == GotoWith(r, "idle", Blank)

Issued(t) == token[t].status = "issued"

\* authenticate: the claims of an access token that has not expired, or the
\* permissions of a key.  A key has no role anywhere; the organization it was
\* made with is whatever its maker named, and without a role in it nothing is
\* allowed on its strength (authorizeOrgRole).
Principals ==
  {token[t].claims : t \in {t \in Tokens : Issued(t)}}
  \cup {[user |-> key[k].user, perms |-> key[k].perms, org |-> "none"] :
          k \in {k \in Keys : key[k].status = "active"}}

\* authorize
Authorized(c, permission) == permission \in c.perms

-----------------------------------------------------------------------------
(* New accounts and their default role.                                    *)

Unborn == {u \in Users : account[u].status = "absent"}

\* A users row is inserted, and the handler goes on to s.
Born(r, op, born, s) ==
  /\ Unborn # {}
  /\ LET u == CHOOSE u \in Unborn : TRUE
     IN  /\ account' = [account EXCEPT ![u].status = "live", ![u].born = born]
         /\ Arrive(r, op, [Blank EXCEPT !.user = u], s)
  /\ UNCHANGED <<seeded, server, holds, member, active, policy, key, token>>

Register(r) == Born(r, "register", "registered", "findDefault")

AdminCreate(r) ==
  /\ \E c \in Principals : Authorized(c, "write")
  /\ Born(r, "adminCreate", "registered", "findDefault")

\* oauthLogin gives its new account no role, and logs it in.
OAuthCreate(r) == Born(r, "oauth", "oauth", "rolesRead")

\* assignDefaultRole only logs that there is no such role.
FindDefault(r) ==
  /\ At(r, "findDefault")
  /\ IF <<"user">> \in seeded THEN Goto(r, "assignDefault") ELSE Finish(r)
  /\ UNCHANGED <<tables, server, token>>

AssignDefault(r) ==
  /\ At(r, "assignDefault")
  /\ holds' = IF Live(ctx[r].user) THEN holds \cup {<<ctx[r].user, "user">>}
              ELSE holds
  /\ Finish(r)
  /\ UNCHANGED <<seeded, server, account, member, active, policy, key, token>>

-----------------------------------------------------------------------------
(* Assigning and removing roles.                                           *)

\* dev-make-admin, run by an operator: the row names nobody as its giver.
MakeAdmin(u) ==
  /\ "promote" \in workload
  /\ Live(u)
  /\ <<"admin">> \in seeded
  /\ holds' = holds \cup {<<u, "admin">>}
  /\ account' = [account EXCEPT ![u].promoted = TRUE]
  /\ UNCHANGED <<seeded, server, member, active, policy, key, token, stage, ctx>>

\* The account and the role are looked up; the claim is not.
AssignFind(r, c, u, role) ==
  /\ role \in workload
  /\ Authorized(c, "write")
  /\ Live(u)
  /\ <<role>> \in seeded
  /\ Arrive(r, "assign", [Blank EXCEPT !.user = u, !.by = c.user, !.role = role],
            "assign")
  /\ UNCHANGED <<tables, server, token>>

\* The foreign keys refuse a row that names an account deleted since, be it as
\* the holder or as the giver.
Assign(r) ==
  /\ At(r, "assign")
  /\ holds' = IF Live(ctx[r].user) /\ Live(ctx[r].by)
              THEN holds \cup {<<ctx[r].user, ctx[r].role>>} ELSE holds
  /\ Finish(r)
  /\ UNCHANGED <<seeded, server, account, member, active, policy, key, token>>

\* One statement; nothing is looked up first.
RemoveRole(u, role) ==
  /\ {"remove", role} \subseteq workload
  /\ \E c \in Principals : Authorized(c, "write")
  /\ holds' = holds \ {<<u, role>>}
  /\ account' = [account EXCEPT ![u].stripped = @ \/ (role = "user" /\ Live(u))]
  /\ UNCHANGED <<seeded, server, member, active, policy, key, token, stage, ctx>>

-----------------------------------------------------------------------------
(* Access tokens.                                                          *)

\* A login or refresh that has read the users row.
Login(r, u) ==
  /\ Live(u)
  /\ Arrive(r, "login", [Blank EXCEPT !.user = u, !.inOrg = u \in active],
            "rolesRead")
  /\ UNCHANGED <<tables, server, token>>

\* setActiveOrg has found the membership ...
SwitchFind(r, c) ==
  /\ c.user \in Users
  /\ member[c.user] # "none"
  /\ Arrive(r, "switch", [Blank EXCEPT !.user = c.user, !.inOrg = TRUE],
            "activate")
  /\ UNCHANGED <<tables, server, token>>

\* ... and makes the organization the active one.
Activate(r) ==
  /\ At(r, "activate")
  /\ IF Live(ctx[r].user)
     THEN active' = active \cup {ctx[r].user} /\ Goto(r, "rolesRead")
     ELSE UNCHANGED active /\ Finish(r)
  /\ UNCHANGED <<seeded, server, account, holds, member, policy, key, token>>

\* Seeded fault: permissions are carried over from the tokens already issued.
RolesReadCarriedOver(r) ==
  /\ At(r, "rolesRead")
  /\ LET u == ctx[r].user
         mine == {t \in Tokens : Issued(t) /\ token[t].claims.user = u}
     IN  GotoWith(r, "orgRead",
           [ctx[r] EXCEPT !.perms =
              Carried(u) \cup UNION {token[t].claims.perms : t \in mine}])
  /\ UNCHANGED <<tables, server, token>>

\* getUserRolesAndPermissions
RolesRead(r) ==
  /\ At(r, "rolesRead")
  /\ GotoWith(r, "orgRead", [ctx[r] EXCEPT !.perms = Carried(ctx[r].user)])
  /\ UNCHANGED <<tables, server, token>>

\* resolveOrgContext, for the active organization of the users row read before.
OrgRead(r) ==
  /\ At(r, "orgRead")
  /\ LET role == IF ctx[r].inOrg THEN member[ctx[r].user] ELSE "none"
     IN  GotoWith(r, IF ctx[r].inOrg /\ role = "none" THEN "deactivate"
                     ELSE "issue", [ctx[r] EXCEPT !.org = role])
  /\ UNCHANGED <<tables, server, token>>

Deactivate(r) ==
  /\ At(r, "deactivate")
  /\ active' = active \ {ctx[r].user}
  /\ Goto(r, "issue")
  /\ UNCHANGED <<seeded, server, account, holds, member, policy, key, token>>

\* A refresh token cannot be stored for an account that is gone, and then no
\* access token is handed out.
Issue(r) ==
  /\ At(r, "issue")
  /\ IF Live(ctx[r].user)
     THEN \E t \in Tokens :
            /\ ~Issued(t)
            /\ token' = [token EXCEPT ![t] =
                 [status |-> "issued",
                  claims |-> [user |-> ctx[r].user, perms |-> ctx[r].perms,
                              org |-> ctx[r].org]]]
     ELSE UNCHANGED token
  /\ Finish(r)
  /\ UNCHANGED <<tables, server>>

TokenExpires(t) ==
  /\ Issued(t)
  /\ token' = [token EXCEPT ![t] = NoToken]
  /\ UNCHANGED <<tables, server, stage, ctx>>

-----------------------------------------------------------------------------
(* Acting on a claim.                                                      *)

\* Seeded fault: what is asked for is not compared with the caller's claims.
MayGrantAnything(c, perms) == perms # {}

\* createKey: some permissions, all of them the caller's.
MayGrant(c, perms) == perms # {} /\ perms \subseteq c.perms

\* requireInteractiveAuth: a key cannot create keys.
KeyFind(r, t, perms) ==
  /\ Issued(t)
  /\ MayGrant(token[t].claims, perms)
  /\ Arrive(r, "key", [Blank EXCEPT !.user = token[t].claims.user,
                                    !.perms = perms], "keyInsert")
  /\ UNCHANGED <<tables, server, token>>

KeyInsert(r) ==
  /\ At(r, "keyInsert")
  /\ IF Live(ctx[r].user)
     THEN \E k \in Keys :
            /\ key[k].status = "absent"
            /\ key' = [key EXCEPT ![k] = [status |-> "active",
                                          user |-> ctx[r].user,
                                          perms |-> ctx[r].perms]]
     ELSE UNCHANGED key
  /\ Finish(r)
  /\ UNCHANGED <<seeded, server, account, holds, member, active, policy, token>>

RevokeKey(k) ==
  /\ key[k].status = "active"
  /\ key' = [key EXCEPT ![k].status = "revoked"]
  /\ UNCHANGED <<seeded, server, account, holds, member, active, policy, token,
                 stage, ctx>>

\* forceDelete: not oneself.
DeleteFind(r, c, u) ==
  /\ Authorized(c, "write")
  /\ u # c.user
  /\ Live(u)
  /\ Arrive(r, "delete", [Blank EXCEPT !.user = u], "deleteUser")
  /\ UNCHANGED <<tables, server, token>>

\* Seeded fault: user_roles does not cascade.
DeleteUserKeepsRoles(r) ==
  /\ At(r, "deleteUser")
  /\ LET u == ctx[r].user
     IN  /\ account' = [account EXCEPT ![u].status = "gone"]
         /\ member' = [member EXCEPT ![u] = "none"]
         /\ active' = active \ {u}
         /\ key' = [k \in Keys |-> IF key[k].user = u
                                   THEN [key[k] EXCEPT !.status = "deleted"]
                                   ELSE key[k]]
  /\ Finish(r)
  /\ UNCHANGED <<seeded, server, holds, policy, token>>

\* Roles, memberships and keys go with the row; access tokens do not.
DeleteUser(r) ==
  /\ At(r, "deleteUser")
  /\ LET u == ctx[r].user
     IN  /\ account' = [account EXCEPT ![u].status = "gone"]
         /\ holds' = {h \in holds : h[1] # u}
         /\ member' = [member EXCEPT ![u] = "none"]
         /\ active' = active \ {u}
         /\ key' = [k \in Keys |-> IF key[k].user = u
                                   THEN [key[k] EXCEPT !.status = "deleted"]
                                   ELSE key[k]]
  /\ Finish(r)
  /\ UNCHANGED <<seeded, server, policy, token>>

\* A statement of OrgMembership's operations: someone joins, changes role or
\* leaves.  The active organization may still be this one.
MemberWrite(u, role) ==
  /\ "org" \in workload
  /\ Live(u)
  /\ member' = [member EXCEPT ![u] = role]
  /\ UNCHANGED <<seeded, server, account, holds, active, policy, key, token,
                 stage, ctx>>

\* resolveOrgFromParam and authorizeOrgRole('owner'), both from the claims.
PolicyAllowed(c) == c.org = "owner"

SetPolicy(c, required) ==
  /\ "org" \in workload
  /\ PolicyAllowed(c)
  /\ policy' = [required |-> required, by |-> c.user]
  /\ UNCHANGED <<seeded, server, account, holds, member, active, key, token,
                 stage, ctx>>

-----------------------------------------------------------------------------
(* Failure.                                                                *)

\* What is left behind by requests that stop where they are.
Stopped(S) ==
  /\ account' = [u \in Users |->
                   [account[u] EXCEPT !.halted =
                      @ \/ \E r \in S :
                             /\ ctx[r].user = u
                             /\ stage[r] \in {"findDefault", "assignDefault"}]]
  /\ stage' = [r \in Requests |-> IF r \in S THEN "idle" ELSE stage[r]]
  /\ ctx' = [r \in Requests |-> IF r \in S THEN Blank ELSE ctx[r]]
  /\ UNCHANGED <<seeded, holds, member, active, policy, key, token>>

\* A statement fails: the handler throws.
Abort(r) ==
  /\ "stop" \in workload
  /\ ~At(r, "idle")
  /\ Stopped({r})
  /\ UNCHANGED server

\* The process ends, in the middle of its seed or of its requests.
Exit(n) ==
  /\ "stop" \in workload
  /\ server[n].state # "down"
  /\ server' = [server EXCEPT ![n] = [state |-> "down", at |-> 0]]
  /\ Stopped({r \in Requests : ctx[r].server = n})

-----------------------------------------------------------------------------

ServerStep(n) ==
  Boot(n) \/ SeedRow(n) \/ SeedMapping(n) \/ Listen(n) \/ Exit(n)

TokenStep(r) ==
  RolesRead(r) \/ OrgRead(r) \/ Deactivate(r) \/ Issue(r)

RequestStep(r) ==
  \/ Register(r) \/ AdminCreate(r) \/ OAuthCreate(r)
  \/ FindDefault(r) \/ AssignDefault(r)
  \/ \E c \in Principals, u \in Users :
       \/ \E role \in Roles : AssignFind(r, c, u, role)
       \/ DeleteFind(r, c, u)
  \/ Assign(r) \/ DeleteUser(r)
  \/ \E u \in Users : Login(r, u)
  \/ \E c \in Principals : SwitchFind(r, c)
  \/ Activate(r) \/ TokenStep(r)
  \/ \E t \in Tokens, perms \in SUBSET Permissions : KeyFind(r, t, perms)
  \/ KeyInsert(r)
  \/ Abort(r)

OtherStep ==
  \/ \E u \in Users :
       \/ MakeAdmin(u)
       \/ \E role \in Roles : RemoveRole(u, role)
       \/ \E role \in OrgRoles : MemberWrite(u, role)
  \/ \E t \in Tokens : TokenExpires(t)
  \/ \E k \in Keys : RevokeKey(k)
  \/ \E c \in Principals, required \in BOOLEAN : SetPolicy(c, required)

Step ==
  \/ \E n \in Servers : ServerStep(n)
  \/ \E r \in Requests : RequestStep(r)
  \/ OtherStep

Next ==
  /\ Step
  /\ held' = [u \in Users |-> held[u] \cup Authority(u)']
  /\ UNCHANGED workload

Spec == Init /\ [][Next]_vars

\* An access token expires after 15 minutes, and a request that reads claims
\* has its statements answered, unless it stops.
FairSpec ==
  /\ Spec
  /\ \A t \in Tokens : WF_token(TokenExpires(t))
  /\ \A r \in Requests : WF_stage(TokenStep(r))

-----------------------------------------------------------------------------
(* Correctness.                                                            *)

\* Types, and what the schema and the start-up promise over all handlers: who
\* holds a role, belongs to the organization or has a key in force exists, and
\* a process that serves finds every row of the seed.
TypeOK ==
  /\ seeded \subseteq Seeds
  /\ server \in [Servers -> [state : {"down", "seeding", "up"},
                             at : 0..Len(SeedPlan)]]
  /\ account \in [Users ->
       [status : {"absent", "live", "gone"},
        born : {"none", "registered", "oauth"}, promoted : BOOLEAN,
        stripped : BOOLEAN, halted : BOOLEAN]]
  /\ holds \subseteq Users \X Roles
  /\ member \in [Users -> OrgRoles]
  /\ active \subseteq Users
  /\ policy \in [required : BOOLEAN, by : Users \cup {None}]
  /\ token \in [Tokens ->
       [status : {"none", "issued"},
        claims : [user : Users \cup {None}, perms : SUBSET Permissions,
                  org : OrgRoles]]]
  /\ key \in [Keys ->
       [status : {"absent", "active", "revoked", "deleted"},
        user : Users \cup {None}, perms : SUBSET Permissions]]
  /\ stage \in [Requests -> Stages]
  /\ ctx \in [Requests ->
       [server : Servers \cup {None}, user : Users \cup {None},
        by : Users \cup {None}, role : Roles, inOrg : BOOLEAN,
        perms : SUBSET Permissions, org : OrgRoles]]
  /\ workload \in Workloads
  /\ \A h \in holds : Live(h[1])
  /\ \A u \in Users : member[u] # "none" \/ u \in active => Live(u)
  /\ \A k \in Keys : key[k].status = "active" => Live(key[k].user)
  /\ \A n \in Servers : server[n].state = "up" => Seeds \subseteq seeded

\* seed.ts and register: an account that registered has the default role, on
\* whatever server and however early, unless the request stopped before giving
\* it or an administrator took it away.
DefaultRoleGiven ==
  \A u \in Users :
    Live(u) /\ account[u].born = "registered" =>
      \/ <<u, "user">> \in holds
      \/ account[u].stripped \/ account[u].halted
      \/ \E r \in Requests :
           /\ ctx[r].user = u
           /\ stage[r] \in {"findDefault", "assignDefault"}

\* Nobody comes by authority they never had: what an access token claims or a
\* key was given, and what the policy was set on, its account once held; and
\* the power to give roles goes back to an account that an operator promoted,
\* through however many hands and however stale the claims.
AuthorityTraced ==
  /\ \A t \in Tokens :
       LET c == token[t].claims
       IN  Issued(t) => c.perms \cup ({c.org} \ {"none"}) \subseteq held[c.user]
  /\ \A k \in Keys :
       key[k].status = "active" => key[k].perms \subseteq held[key[k].user]
  /\ policy.by # None => "owner" \in held[policy.by]
  /\ (\E u \in Users : "write" \in held[u]) =>
       \E u \in Users : account[u].promoted

Claimed(u) ==
  UNION {token[t].claims.perms \cup {token[t].claims.org} :
           t \in {t \in Tokens : Issued(t) /\ token[t].claims.user = u}}

\* Authority that is taken away lapses: whatever logins and refreshes were in
\* flight, in the end no access token of the account claims it, unless it is
\* given again.  (A key keeps it until it is revoked.)
RevokedLapses ==
  \A u \in Users, a \in {"write", "owner"} :
    a \notin Authority(u) ~> (a \in Authority(u) \/ a \notin Claimed(u))
=============================================================================

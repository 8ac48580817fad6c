-------------------------- MODULE AccessClaims_proofs --------------------------
(***************************************************************************)
(* Theorems of AccessClaims, for any sets of accounts, tokens, keys,       *)
(* servers and requests, and any workloads.                                *)
(***************************************************************************)
EXTENDS AccessClaims, TLAPS

-----------------------------------------------------------------------------
(* The inductive invariant.                                                *)

Accounts == [status : {"absent", "live", "gone"},
             born : {"none", "registered", "oauth"}, promoted : BOOLEAN,
             stripped : BOOLEAN, halted : BOOLEAN]

Claims == [user : Users \cup {None}, perms : SUBSET Permissions, org : OrgRoles]

KeyRows == [status : {"absent", "active", "revoked", "deleted"},
            user : Users \cup {None}, perms : SUBSET Permissions]

Locals == [server : Servers \cup {None}, user : Users \cup {None},
           by : Users \cup {None}, role : Roles, inOrg : BOOLEAN,
           perms : SUBSET Permissions, org : OrgRoles]

TableTypes ==
  /\ seeded \subseteq Seeds
  /\ account \in [Users -> Accounts]
  /\ holds \subseteq Users \X Roles
  /\ member \in [Users -> OrgRoles]
  /\ active \subseteq Users
  /\ policy \in [required : BOOLEAN, by : Users \cup {None}]
  /\ key \in [Keys -> KeyRows]

OtherTypes ==
  /\ server \in [Servers -> [state : {"down", "seeding", "up"},
                             at : 0..Len(SeedPlan)]]
  /\ token \in [Tokens -> [status : {"none", "issued"}, claims : Claims]]
  /\ stage \in [Requests -> Stages]
  /\ ctx \in [Requests -> Locals]
  /\ workload \in Workloads
  /\ held \in [Users -> SUBSET (Permissions \cup OrgRoles)]

\* Authority names what u's rows have carried at some time.
Traced(perms, role, u) ==
  /\ u \in Users
  /\ perms \subseteq held[u]
  /\ role # "none" => role \in held[u]

Promoted == \E u \in Users : account[u].promoted

\* A process has the rows of its seed so far.
SeedInv ==
  \A n \in Servers :
    /\ server[n].state = "seeding" =>
         \A i \in 1..server[n].at : SeedPlan[i] \in seeded
    /\ server[n].state = "up" => Seeds \subseteq seeded

\* Rows belong to accounts that exist, and their authority is on record.
RowInv ==
  /\ \A h \in holds : Live(h[1])
  /\ \A u \in Users : member[u] # "none" \/ u \in active => Live(u)
  /\ \A u \in Users : Authority(u) \subseteq held[u]

KeyInv ==
  \A k \in Keys :
    key[k].status = "active" =>
      Traced(key[k].perms, "none", key[k].user) /\ Live(key[k].user)

TokenInv ==
  \A t \in Tokens :
    Issued(t) => Traced(token[t].claims.perms, token[t].claims.org,
                        token[t].claims.user)

PolicyInv == policy.by # None => "owner" \in held[policy.by]

\* A request in flight reached a server, so that every row of the seed is
\* there; it works for an account, with authority that account has had; and it
\* assigns a role for an account only after someone was promoted.
RequestInv(r) ==
  ~At(r, "idle") =>
    /\ Seeds \subseteq seeded
    /\ Traced(ctx[r].perms, ctx[r].org, ctx[r].user)
    /\ At(r, "assign") => ctx[r].by \in Users /\ Promoted

\* The power to give roles starts with an operator.
PowerInv ==
  \A u \in Users : "write" \in held[u] \/ <<u, "admin">> \in holds => Promoted

\* Request r has still to give u its default role.
Giving(r, u) ==
  ctx[r].user = u /\ stage[r] \in {"findDefault", "assignDefault"}

RoleInv(u) ==
  Live(u) /\ account[u].born = "registered" =>
    \/ <<u, "user">> \in holds
    \/ account[u].stripped \/ account[u].halted
    \/ \E r \in Requests : Giving(r, u)

IInv ==
  /\ TableTypes /\ OtherTypes
  /\ SeedInv /\ RowInv /\ KeyInv /\ TokenInv /\ PolicyInv /\ PowerInv
  /\ \A r \in Requests : RequestInv(r)
  /\ \A u \in Users : RoleInv(u)

\* What every step adds to the record.
Recorded ==
  held' = [u \in Users |-> held[u] \cup Authority(u)']

-----------------------------------------------------------------------------
(* The seed.                                                               *)

LEMMA PlanFacts ==
  /\ Len(SeedPlan) = 7
  /\ Seeds = {SeedPlan[i] : i \in 1..7}
  /\ <<"user">> \in Seeds
  /\ \A role \in Roles : <<role, "write">> \in Seeds => role = "admin"
<1>1. Len(SeedPlan) = 7 /\ DOMAIN SeedPlan = 1..7
  BY DEF SeedPlan
<1>2. Seeds = {SeedPlan[i] : i \in 1..7}
  BY <1>1 DEF Seeds
<1>3. SeedPlan[1] = <<"user">>
  BY DEF SeedPlan
<1>4. <<"user", "write">> \notin Seeds
  <2>1. ASSUME NEW i \in 1..7 PROVE SeedPlan[i] # <<"user", "write">>
    BY DEF SeedPlan
  <2>. QED
    BY <1>2, <2>1
<1>. QED
  BY <1>1, <1>2, <1>3, <1>4 DEF Roles

LEMMA IInvImplies == IInv => TypeOK /\ DefaultRoleGiven /\ AuthorityTraced
<1>. SUFFICES ASSUME IInv PROVE TypeOK /\ DefaultRoleGiven /\ AuthorityTraced
  OBVIOUS
<1>1. TypeOK
  <2>1. \A n \in Servers : server[n].state = "up" => Seeds \subseteq seeded
    BY DEF IInv, SeedInv
  <2>2. \A k \in Keys : key[k].status = "active" => Live(key[k].user)
    BY DEF IInv, KeyInv
  <2>3. /\ \A h \in holds : Live(h[1])
        /\ \A u \in Users : member[u] # "none" \/ u \in active => Live(u)
    BY DEF IInv, RowInv
  <2>4. TableTypes /\ OtherTypes
    BY DEF IInv
  <2>. QED
    BY <2>1, <2>2, <2>3, <2>4
       DEF TypeOK, TableTypes, OtherTypes, Accounts, Claims, KeyRows, Locals
<1>2. DefaultRoleGiven
  BY DEF IInv, RoleInv, Giving, DefaultRoleGiven
<1>3. AuthorityTraced
  <2>1. ASSUME NEW t \in Tokens, Issued(t)
        PROVE  token[t].claims.perms \cup ({token[t].claims.org} \ {"none"})
                 \subseteq held[token[t].claims.user]
    BY <2>1 DEF IInv, TokenInv, Traced
  <2>2. ASSUME NEW k \in Keys, key[k].status = "active"
        PROVE  key[k].perms \subseteq held[key[k].user]
    BY <2>2 DEF IInv, KeyInv, Traced
  <2>3. policy.by # None => "owner" \in held[policy.by]
    BY DEF IInv, PolicyInv
  <2>4. (\E u \in Users : "write" \in held[u]) =>
          \E u \in Users : account[u].promoted
    BY DEF IInv, PowerInv, Promoted
  <2>. QED
    BY <2>1, <2>2, <2>3, <2>4 DEF AuthorityTraced
<1>. QED
  BY <1>1, <1>2, <1>3

LEMMA InitIInv == Init => IInv
<1>. SUFFICES ASSUME Init PROVE IInv
  OBVIOUS
<1>. DEFINE first == "boot" \in workload
            start == AtStart
<1>1. start \subseteq Users /\ (first => start = {})
  <2>1. (CHOOSE u \in Existing : TRUE) \in Existing
    BY ExistingAreUsers
  <2>2. CASE "boot" \in workload
    BY <2>2 DEF AtStart
  <2>3. CASE "boot" \notin workload
    BY <2>1, <2>3, ExistingAreUsers DEF AtStart
  <2>. QED
    BY <2>2, <2>3
<1>2. /\ seeded = IF first THEN {} ELSE Seeds
      /\ holds = start \X {"user"}
      /\ account = [u \in Users |->
                      IF u \notin start THEN NoAccount
                      ELSE [NoAccount EXCEPT !.status = "live",
                                             !.born = "registered"]]
  BY DEF Init
<1>. HIDE DEF start, first
<1>3. \A u \in Users :
        /\ account[u] \in Accounts /\ ~account[u].promoted
        /\ Live(u) <=> u \in start
  BY <1>2 DEF NoAccount, Accounts, Live
<1>4. account \in [Users -> Accounts]
  BY <1>2, <1>3
<1>5. server \in [Servers -> [state : {"down", "seeding", "up"},
                              at : 0..Len(SeedPlan)]]
      /\ \A n \in Servers : /\ server[n].state # "seeding"
                            /\ server[n].state = "up" => seeded = Seeds
  BY PlanFacts DEF Init
<1>6. TableTypes
  BY <1>1, <1>2, <1>4 DEF Init, TableTypes, Roles, OrgRoles, KeyRows, NoKey
<1>7. \A u \in Users : member[u] = "none" /\ held[u] = Authority(u)
  BY DEF Init
<1>8. \A u \in Users : Authority(u) = Carried(u)
  BY <1>7 DEF Authority
<1>9. \A u \in Users : Carried(u) \subseteq Permissions
  BY DEF Carried
<1>10. held \in [Users -> SUBSET (Permissions \cup OrgRoles)]
  BY <1>7, <1>8, <1>9 DEF Init
<1>11. OtherTypes
  BY <1>5, <1>10 DEF Init, OtherTypes, NoToken, NoClaims, Claims, Stages, Blank,
                     Locals, OrgRoles, Roles
<1>12. SeedInv
  BY <1>5 DEF SeedInv
<1>13. RowInv
  <2>1. \A h \in holds : h[1] \in start
    BY <1>2
  <2>. QED
    BY <1>1, <1>3, <1>7, <2>1 DEF Init, RowInv
<1>14. KeyInv /\ TokenInv /\ PolicyInv
  BY DEF Init, KeyInv, TokenInv, PolicyInv, NoKey, NoToken, Issued
<1>15. PowerInv
  <2>1. ASSUME NEW u \in Users PROVE <<u, "admin">> \notin holds
    BY <1>2
  <2>2. ASSUME NEW u \in Users, "write" \in held[u] PROVE FALSE
    <3>1. PICK role \in Roles : <<u, role>> \in holds /\ <<role, "write">> \in seeded
      BY <1>7, <1>8, <2>2 DEF Carried
    <3>2. role = "user" /\ <<role, "write">> \in Seeds
      BY <1>2, <3>1
    <3>. QED
      BY <3>2, PlanFacts
  <2>. QED
    BY <2>1, <2>2 DEF PowerInv
<1>16. \A r \in Requests : RequestInv(r)
  BY DEF Init, RequestInv, At
<1>17. \A u \in Users : RoleInv(u)
  BY <1>2, <1>3 DEF RoleInv
<1>. QED
  BY <1>6, <1>11, <1>12, <1>13, <1>14, <1>15, <1>16, <1>17 DEF IInv

-----------------------------------------------------------------------------
(* What a step leaves alone.                                               *)

\* What is on record stays, and the power to give roles comes with the role of
\* an administrator.
LEMMA HeldGrows ==
  ASSUME IInv, TableTypes', Recorded
  PROVE  /\ held' \in [Users -> SUBSET (Permissions \cup OrgRoles)]
         /\ \A u \in Users :
              /\ held[u] \subseteq held'[u]
              /\ Authority(u)' \subseteq held'[u]
              /\ "write" \in held'[u] =>
                   "write" \in held[u] \/ <<u, "admin">> \in holds'
<1>1. ASSUME NEW u \in Users
      PROVE  /\ Authority(u)' \subseteq Permissions \cup OrgRoles
             /\ "write" \in Authority(u)' => <<u, "admin">> \in holds'
  <2>1. Carried(u)' \subseteq Permissions
    BY DEF Carried
  <2>2. member'[u] \in OrgRoles
    BY DEF TableTypes
  <2>3. "write" \notin OrgRoles
    BY DEF OrgRoles
  <2>4. ASSUME "write" \in Carried(u)' PROVE <<u, "admin">> \in holds'
    <3>1. PICK role \in Roles :
            <<u, role>> \in holds' /\ <<role, "write">> \in seeded'
      BY <2>4 DEF Carried
    <3>2. <<role, "write">> \in Seeds
      BY <3>1 DEF TableTypes
    <3>. QED
      BY <3>1, <3>2, PlanFacts
  <2>. QED
    BY <2>1, <2>2, <2>3, <2>4 DEF Authority
<1>2. held \in [Users -> SUBSET (Permissions \cup OrgRoles)]
  BY DEF IInv, OtherTypes
<1>3. \A u \in Users : held'[u] = held[u] \cup Authority(u)'
  BY DEF Recorded
<1>4. \A u \in Users : held'[u] \subseteq Permissions \cup OrgRoles
  BY <1>1, <1>2, <1>3
<1>5. held' \in [Users -> SUBSET (Permissions \cup OrgRoles)]
  BY <1>4 DEF Recorded
<1>. QED
  BY <1>1, <1>3, <1>5

\* The parts of the invariant that a step does not touch.
LEMMA Kept ==
  ASSUME IInv, TableTypes', Recorded, seeded \subseteq seeded',
         Promoted => Promoted'
  PROVE  /\ key' = key /\ (\A u \in Users : Live(u) => Live(u)') => KeyInv'
         /\ token' = token => TokenInv'
         /\ policy' = policy => PolicyInv'
         /\ server' = server => SeedInv'
         /\ (\A u \in Users : <<u, "admin">> \in holds' =>
               <<u, "admin">> \in holds \/ Promoted') => PowerInv'
         /\ \A r \in Requests :
              stage'[r] = stage[r] /\ ctx'[r] = ctx[r] => RequestInv(r)'
<1>1. \A u \in Users : /\ held[u] \subseteq held'[u]
                       /\ "write" \in held'[u] =>
                            "write" \in held[u] \/ <<u, "admin">> \in holds'
  BY HeldGrows
<1>2. ASSUME key' = key, \A u \in Users : Live(u) => Live(u)'
      PROVE  KeyInv'
  <2>1. ASSUME NEW k \in Keys, key[k].status = "active"
        PROVE  Traced(key[k].perms, "none", key[k].user)' /\ Live(key[k].user)'
    <3>1. Traced(key[k].perms, "none", key[k].user) /\ Live(key[k].user)
      BY <2>1 DEF IInv, KeyInv
    <3>. QED
      BY <1>1, <1>2, <3>1 DEF Traced, Live
  <2>. QED
    BY <1>2, <2>1 DEF KeyInv, Traced, Live
<1>3. ASSUME token' = token
      PROVE  TokenInv'
  BY <1>1, <1>3 DEF IInv, TokenInv, Traced, Issued
<1>4. ASSUME policy' = policy
      PROVE  PolicyInv'
  <2>1. policy.by \in Users \cup {None}
    BY DEF IInv, TableTypes
  <2>. QED
    BY <1>1, <1>4, <2>1 DEF IInv, PolicyInv
<1>5. ASSUME server' = server
      PROVE  SeedInv'
  BY <1>5 DEF IInv, SeedInv
<1>6. ASSUME \A u \in Users : <<u, "admin">> \in holds' =>
               <<u, "admin">> \in holds \/ Promoted'
      PROVE  PowerInv'
  BY <1>1, <1>6 DEF IInv, PowerInv
<1>7. ASSUME NEW r \in Requests, stage'[r] = stage[r], ctx'[r] = ctx[r]
      PROVE  RequestInv(r)'
  <2>1. RequestInv(r)
    BY DEF IInv
  <2>. QED
    BY <1>1, <1>7, <2>1 DEF RequestInv, Traced, At
<1>. QED
  BY <1>2, <1>3, <1>4, <1>5, <1>6, <1>7

\* An account that has its default role keeps it, and one that waits for it
\* still waits.
LEMMA RoleKept ==
  ASSUME NEW u \in Users, RoleInv(u), Live(u)' => Live(u),
         account'[u].born = account[u].born,
         account[u].stripped => account'[u].stripped,
         account[u].halted => account'[u].halted,
         <<u, "user">> \in holds => <<u, "user">> \in holds',
         \A r \in Requests :
           Giving(r, u) => \/ Giving(r, u)' \/ account'[u].halted
                           \/ <<u, "user">> \in holds'
  PROVE  RoleInv(u)'
<1>1. CASE ~Live(u)' \/ account[u].born # "registered"
  BY <1>1 DEF RoleInv
<1>2. CASE Live(u)' /\ account[u].born = "registered"
  BY <1>2 DEF RoleInv
<1>. QED
  BY <1>1, <1>2

\* Request r goes on to s with the locals c, having written rows that name
\* accounts, or a token or a key with authority on record.
LEMMA WriteStep ==
  ASSUME IInv, Recorded, UNCHANGED <<seeded, server, account, workload>>,
         TableTypes', TokenInv', KeyInv', PolicyInv',
         token' \in [Tokens -> [status : {"none", "issued"}, claims : Claims]],
         holds \subseteq holds',
         \A h \in holds' \ holds :
           Live(h[1]) /\ (h[2] = "admin" => Promoted),
         \A u \in Users : member'[u] # "none" \/ u \in active' => Live(u),
         NEW r \in Requests, NEW s \in Stages, NEW c \in Locals,
         GotoWith(r, s, c),
         s # "idle" => /\ Seeds \subseteq seeded
                       /\ Traced(c.perms, c.org, c.user)
                       /\ s = "assign" => c.by \in Users /\ Promoted,
         \A u \in Users :
           Giving(r, u) => \/ c.user = u /\ s \in {"findDefault", "assignDefault"}
                           \/ Live(u) => <<u, "user">> \in holds'
  PROVE  IInv'
<1>1. /\ stage' \in [Requests -> Stages] /\ ctx' \in [Requests -> Locals]
      /\ stage'[r] = s /\ ctx'[r] = c
      /\ \A x \in Requests : x # r => stage'[x] = stage[x] /\ ctx'[x] = ctx[x]
  BY DEF IInv, OtherTypes, GotoWith
<1>2. (Promoted <=> Promoted') /\ \A u : Live(u)' <=> Live(u)
  BY DEF Promoted, Live
<1>3. \A u \in Users : <<u, "admin">> \in holds' =>
                           <<u, "admin">> \in holds \/ Promoted'
  BY <1>2
<1>4. SeedInv' /\ PowerInv' /\ \A x \in Requests : x # r => RequestInv(x)'
  BY <1>1, <1>2, <1>3, Kept
<1>5. OtherTypes'
  BY <1>1, HeldGrows DEF IInv, OtherTypes
<1>6. RowInv'
  BY <1>2, HeldGrows DEF IInv, RowInv
<1>7. RequestInv(r)'
  BY <1>1, <1>2, HeldGrows DEF RequestInv, Traced, At
<1>8. ASSUME NEW u \in Users
      PROVE  RoleInv(u)'
  <2>1. RoleInv(u)
    BY DEF IInv
  <2>2. ASSUME NEW x \in Requests, Giving(x, u)
        PROVE  Giving(x, u)' \/ (Live(u) => <<u, "user">> \in holds')
    BY <1>1, <2>2 DEF Giving
  <2>3. CASE Live(u) => <<u, "user">> \in holds'
    BY <1>2, <2>3 DEF RoleInv
  <2>. QED
    BY <1>2, <2>1, <2>2, <2>3, RoleKept
<1>. QED
  BY <1>4, <1>5, <1>6, <1>7, <1>8 DEF IInv

\* Request r goes on to s with the locals c, and that is all.
LEMMA LocalStep ==
  ASSUME IInv, Recorded, UNCHANGED <<tables, server, token, workload>>,
         NEW r \in Requests, NEW s \in Stages, NEW c \in Locals,
         GotoWith(r, s, c),
         s # "idle" => /\ Seeds \subseteq seeded
                       /\ Traced(c.perms, c.org, c.user)
                       /\ s = "assign" => c.by \in Users /\ Promoted,
         \A u \in Users :
           Giving(r, u) => c.user = u /\ s \in {"findDefault", "assignDefault"}
  PROVE  IInv'
<1>1. UNCHANGED <<seeded, account, holds, member, active, policy, key>>
      /\ UNCHANGED <<server, token, workload>>
  BY DEF tables
<1>2. /\ TableTypes'
      /\ token' \in [Tokens -> [status : {"none", "issued"}, claims : Claims]]
      /\ \A u \in Users : member'[u] # "none" \/ u \in active' => Live(u)
  BY <1>1 DEF IInv, TableTypes, OtherTypes, RowInv
<1>3. (Promoted <=> Promoted') /\ \A u : Live(u)' <=> Live(u)
  BY <1>1 DEF Promoted, Live
<1>4. TokenInv' /\ KeyInv' /\ PolicyInv'
  BY <1>1, <1>2, <1>3, Kept
<1>. QED
  BY <1>1, <1>2, <1>4, WriteStep

\* A server that is up takes a request.
LEMMA Arrival ==
  ASSUME IInv, NEW r \in Requests, NEW op, NEW c \in Locals, NEW s \in Stages,
         Arrive(r, op, c, s)
  PROVE  /\ Seeds \subseteq seeded
         /\ \E n \in Servers : GotoWith(r, s, [c EXCEPT !.server = n])
         /\ At(r, "idle")
BY DEF IInv, SeedInv, Arrive, GotoWith

LEMMA ArriveStep ==
  ASSUME IInv, Recorded, UNCHANGED <<tables, server, token, workload>>,
         NEW r \in Requests, NEW op, NEW c \in Locals, NEW s \in Stages,
         Arrive(r, op, c, s), Traced(c.perms, c.org, c.user),
         s = "assign" => c.by \in Users /\ Promoted
  PROVE  IInv'
<1>1. PICK n \in Servers : GotoWith(r, s, [c EXCEPT !.server = n])
  BY Arrival
<1>. DEFINE d == [c EXCEPT !.server = n]
<1>2. /\ d \in Locals
      /\ d.perms = c.perms /\ d.org = c.org /\ d.user = c.user /\ d.by = c.by
  BY DEF Locals
<1>3. Seeds \subseteq seeded /\ \A u \in Users : ~Giving(r, u)
  BY Arrival DEF Giving, At
<1>4. GotoWith(r, s, d)
  BY <1>1
<1>. HIDE DEF d
<1>. QED
  BY <1>2, <1>3, <1>4, LocalStep

-----------------------------------------------------------------------------
(* Steps of a request.                                                     *)

\* Whoever is let in has claims that are on record; and whoever may give roles
\* came by it from an operator.
LEMMA PrincipalClaims ==
  ASSUME IInv, NEW c \in Principals
  PROVE  /\ Traced(c.perms, c.org, c.user)
         /\ Authorized(c, "write") => Promoted
         /\ c.org # "none" => \E t \in Tokens : c = token[t].claims
<1>. DEFINE OnRecord == /\ Traced(c.perms, c.org, c.user)
                        /\ c.org # "none" => \E t \in Tokens : c = token[t].claims
<1>1. ASSUME NEW t \in Tokens, Issued(t), c = token[t].claims
      PROVE  OnRecord
  BY <1>1 DEF IInv, TokenInv
<1>2. ASSUME NEW k \in Keys, key[k].status = "active",
             c = [user |-> key[k].user, perms |-> key[k].perms, org |-> "none"]
      PROVE  OnRecord
  BY <1>2 DEF IInv, KeyInv
<1>3. OnRecord
  BY <1>1, <1>2 DEF Principals
<1>4. Authorized(c, "write") => Promoted
  BY <1>3 DEF Authorized, Traced, IInv, PowerInv
<1>. QED
  BY <1>3, <1>4

\* A request arrives to assign a role, delete an account, log in or switch.
LEMMA ArrivalsKeep ==
  ASSUME IInv, Recorded, UNCHANGED workload, NEW r \in Requests
  PROVE  /\ \A c \in Principals, u \in Users, role \in Roles :
              AssignFind(r, c, u, role) => IInv'
         /\ \A c \in Principals, u \in Users : DeleteFind(r, c, u) => IInv'
         /\ \A u \in Users : Login(r, u) => IInv'
         /\ \A c \in Principals : SwitchFind(r, c) => IInv'
<1>1. ASSUME NEW c \in Principals, NEW u \in Users, NEW role \in Roles,
             AssignFind(r, c, u, role)
      PROVE  IInv'
  <2>. DEFINE d == [Blank EXCEPT !.user = u, !.by = c.user, !.role = role]
  <2>1. c.user \in Users /\ Promoted
    BY <1>1, PrincipalClaims DEF AssignFind, Traced
  <2>2. d \in Locals /\ Traced(d.perms, d.org, d.user) /\ d.by = c.user
    BY <2>1 DEF Blank, Locals, Traced, OrgRoles
  <2>3. Arrive(r, "assign", d, "assign")
        /\ UNCHANGED <<tables, server, token>>
    BY <1>1 DEF AssignFind
  <2>. HIDE DEF d
  <2>. QED
    BY <2>1, <2>2, <2>3, ArriveStep DEF Stages
<1>2. ASSUME NEW c \in Principals, NEW u \in Users, DeleteFind(r, c, u)
      PROVE  IInv'
  <2>. DEFINE d == [Blank EXCEPT !.user = u]
  <2>1. d \in Locals /\ Traced(d.perms, d.org, d.user)
    BY DEF Blank, Locals, Traced, Roles, OrgRoles
  <2>2. Arrive(r, "delete", d, "deleteUser")
        /\ UNCHANGED <<tables, server, token>>
    BY <1>2 DEF DeleteFind
  <2>. HIDE DEF d
  <2>. QED
    BY <2>1, <2>2, ArriveStep DEF Stages
<1>3. ASSUME NEW u \in Users, Login(r, u)
      PROVE  IInv'
  <2>. DEFINE b == u \in active
              d == [Blank EXCEPT !.user = u, !.inOrg = b]
  <2>1. b \in BOOLEAN
    OBVIOUS
  <2>2. Arrive(r, "login", d, "rolesRead")
        /\ UNCHANGED <<tables, server, token>>
    BY <1>3 DEF Login
  <2>. HIDE DEF b
  <2>3. d \in Locals /\ Traced(d.perms, d.org, d.user)
    BY <2>1 DEF Blank, Locals, Traced, Roles, OrgRoles
  <2>. HIDE DEF d
  <2>. QED
    BY <2>2, <2>3, ArriveStep DEF Stages
<1>4. ASSUME NEW c \in Principals, SwitchFind(r, c)
      PROVE  IInv'
  <2>. DEFINE d == [Blank EXCEPT !.user = c.user, !.inOrg = TRUE]
  <2>1. c.user \in Users
    BY <1>4 DEF SwitchFind
  <2>2. d \in Locals /\ Traced(d.perms, d.org, d.user)
    BY <2>1 DEF Blank, Locals, Traced, Roles, OrgRoles
  <2>3. Arrive(r, "switch", d, "activate")
        /\ UNCHANGED <<tables, server, token>>
    BY <1>4 DEF SwitchFind
  <2>. HIDE DEF d
  <2>. QED
    BY <2>2, <2>3, ArriveStep DEF Stages
<1>. QED
  BY <1>1, <1>2, <1>3, <1>4

\* A key may only be asked for what the caller's token claims.
LEMMA KeyFindKeeps ==
  ASSUME IInv, Recorded, UNCHANGED workload, NEW r \in Requests,
         NEW t \in Tokens, NEW perms \in SUBSET Permissions,
         KeyFind(r, t, perms)
  PROVE  IInv'
<1>. DEFINE u == token[t].claims.user
            d == [Blank EXCEPT !.user = u, !.perms = perms]
<1>1. Traced(token[t].claims.perms, token[t].claims.org, u)
  BY DEF KeyFind, IInv, TokenInv
<1>2. perms \subseteq token[t].claims.perms
  BY DEF KeyFind, MayGrant
<1>3. u \in Users /\ Traced(perms, "none", u)
  BY <1>1, <1>2 DEF Traced
<1>4. Arrive(r, "key", d, "keyInsert") /\ UNCHANGED <<tables, server, token>>
  BY DEF KeyFind
<1>. HIDE DEF u
<1>5. d \in Locals /\ Traced(d.perms, d.org, d.user)
  BY <1>3 DEF Blank, Locals, Roles, OrgRoles
<1>. HIDE DEF d
<1>. QED
  BY <1>4, <1>5, ArriveStep DEF Stages

\* What a request in flight works with.
LEMMA InFlight ==
  ASSUME IInv, NEW r \in Requests, ~At(r, "idle")
  PROVE  /\ Seeds \subseteq seeded /\ <<"user">> \in seeded
         /\ Traced(ctx[r].perms, ctx[r].org, ctx[r].user)
         /\ ctx[r].user \in Users /\ ctx[r] \in Locals
         /\ At(r, "assign") => ctx[r].by \in Users /\ Promoted
BY PlanFacts DEF IInv, RequestInv, Traced, OtherTypes

LEMMA Blanked ==
  Blank \in Locals /\ "idle" \in Stages
BY DEF Blank, Locals, Stages, Roles, OrgRoles

\* A step that only moves the request on.
LEMMA GotoIs ==
  ASSUME IInv, NEW r \in Requests, NEW s, Goto(r, s)
  PROVE  GotoWith(r, s, ctx[r])
BY DEF IInv, OtherTypes, Goto, GotoWith

\* The reads of a request: the default role, the permissions, the membership.
LEMMA ReadsKeep ==
  ASSUME IInv, Recorded, UNCHANGED workload, NEW r \in Requests
  PROVE  /\ FindDefault(r) => IInv'
         /\ RolesRead(r) => IInv'
         /\ OrgRead(r) => IInv'
<1>1. ASSUME FindDefault(r) PROVE IInv'
  <2>1. ~At(r, "idle") /\ UNCHANGED <<tables, server, token>>
    BY <1>1 DEF FindDefault, At
  <2>2. GotoWith(r, "assignDefault", ctx[r])
    BY <1>1, <2>1, InFlight, GotoIs DEF FindDefault
  <2>. QED
    BY <2>1, <2>2, InFlight, LocalStep DEF Stages, Giving
<1>2. ASSUME RolesRead(r) PROVE IInv'
  <2>. DEFINE u == ctx[r].user
              d == [ctx[r] EXCEPT !.perms = Carried(u)]
  <2>1. ~At(r, "idle") /\ UNCHANGED <<tables, server, token>>
        /\ \A x \in Users : ~Giving(r, x)
    BY <1>2 DEF RolesRead, At, Giving
  <2>2. u \in Users /\ ctx[r] \in Locals /\ Traced(ctx[r].perms, ctx[r].org, u)
    BY <2>1, InFlight
  <2>3. Carried(u) \subseteq held[u] /\ Carried(u) \in SUBSET Permissions
    BY <2>2 DEF IInv, RowInv, Authority, Carried
  <2>4. d \in Locals
    BY <2>2, <2>3 DEF Locals
  <2>5. d.perms = Carried(u) /\ d.org = ctx[r].org /\ d.user = u
    BY <2>2 DEF Locals
  <2>6. Traced(d.perms, d.org, d.user)
    BY <2>2, <2>3, <2>5 DEF Traced
  <2>7. GotoWith(r, "orgRead", d)
    BY <1>2 DEF RolesRead
  <2>. HIDE DEF d
  <2>. QED
    BY <2>1, <2>4, <2>6, <2>7, InFlight, LocalStep DEF Stages
<1>3. ASSUME OrgRead(r) PROVE IInv'
  <2>. DEFINE u == ctx[r].user
              role == IF ctx[r].inOrg THEN member[u] ELSE "none"
              d == [ctx[r] EXCEPT !.org = role]
  <2>1. ~At(r, "idle") /\ UNCHANGED <<tables, server, token>>
        /\ \A x \in Users : ~Giving(r, x)
    BY <1>3 DEF OrgRead, At, Giving
  <2>2. u \in Users /\ ctx[r] \in Locals /\ Traced(ctx[r].perms, ctx[r].org, u)
    BY <2>1, InFlight
  <2>3. role \in OrgRoles /\ (role # "none" => role \in held[u])
    BY <2>2 DEF IInv, RowInv, TableTypes, Authority, OrgRoles
  <2>4. GotoWith(r, IF ctx[r].inOrg /\ role = "none" THEN "deactivate"
                    ELSE "issue", d)
    BY <1>3 DEF OrgRead
  <2>. HIDE DEF role
  <2>5. d \in Locals
    BY <2>2, <2>3 DEF Locals
  <2>6. d.perms = ctx[r].perms /\ d.org = role /\ d.user = u
    BY <2>2 DEF Locals
  <2>7. Traced(d.perms, d.org, d.user)
    BY <2>2, <2>3, <2>6 DEF Traced
  <2>8. PICK s \in {"deactivate", "issue"} : GotoWith(r, s, d)
    BY <2>4
  <2>. HIDE DEF d
  <2>. QED
    BY <2>1, <2>5, <2>7, <2>8, InFlight, LocalStep DEF Stages
<1>. QED
  BY <1>1, <1>2, <1>3

-----------------------------------------------------------------------------
(* Writes of a request.                                                    *)

\* Rows of user_roles or an active organization are written for an account
\* that is there, and the request moves on.
LEMMA TableStep ==
  ASSUME IInv, Recorded,
         UNCHANGED <<seeded, server, account, member, policy, key, token,
                     workload>>,
         NEW r \in Requests, ~At(r, "idle"),
         holds \subseteq holds', holds' \subseteq Users \X Roles,
         \A h \in holds' \ holds :
           Live(h[1]) /\ (h[2] = "admin" => Promoted),
         active' \subseteq Users, \A u \in active' \ active : Live(u),
         NEW s \in Stages, s # "assign", NEW c \in Locals, GotoWith(r, s, c),
         s # "idle" => c = ctx[r],
         \A u \in Users : Giving(r, u) /\ Live(u) => <<u, "user">> \in holds'
  PROVE  IInv'
<1>1. TableTypes'
      /\ token' \in [Tokens -> [status : {"none", "issued"}, claims : Claims]]
  BY DEF IInv, TableTypes, OtherTypes
<1>2. (Promoted => Promoted') /\ \A u : Live(u) => Live(u)'
  BY DEF Promoted, Live
<1>3. TokenInv' /\ KeyInv' /\ PolicyInv'
  BY <1>1, <1>2, Kept
<1>4. \A u \in Users : member'[u] # "none" \/ u \in active' => Live(u)
  BY DEF IInv, RowInv
<1>. QED
  BY <1>1, <1>3, <1>4, InFlight, WriteStep

\* The default role is given to the account if it is still there.
LEMMA AssignDefaultKeeps ==
  ASSUME IInv, Recorded, UNCHANGED workload, NEW r \in Requests,
         AssignDefault(r)
  PROVE  IInv'
<1>. DEFINE u == ctx[r].user
<1>1. ~At(r, "idle") /\ GotoWith(r, "idle", Blank)
      /\ UNCHANGED <<seeded, server, account, member, active, policy, key, token>>
  BY DEF AssignDefault, At, Finish
<1>2. u \in Users /\ holds \subseteq Users \X Roles
  BY <1>1, InFlight DEF IInv, TableTypes
<1>3. holds' = IF Live(u) THEN holds \cup {<<u, "user">>} ELSE holds
  BY DEF AssignDefault
<1>4. /\ holds \subseteq holds'
      /\ \A h \in holds' \ holds : Live(u) /\ h = <<u, "user">>
  BY <1>3
<1>5. holds' \subseteq Users \X Roles
  BY <1>2, <1>3 DEF Roles
<1>6. \A x \in Users : Giving(r, x) /\ Live(x) => <<x, "user">> \in holds'
  BY <1>3 DEF Giving
<1>7. active' \subseteq Users /\ \A x \in active' \ active : Live(x)
  BY <1>1 DEF IInv, TableTypes
<1>8. \A h \in holds' \ holds : Live(h[1]) /\ (h[2] = "admin" => Promoted)
  BY <1>4
<1>. HIDE DEF u
<1>. QED
  BY <1>1, <1>4, <1>5, <1>6, <1>7, <1>8, Blanked, TableStep

\* A role is given if both accounts are still there.
LEMMA AssignKeeps ==
  ASSUME IInv, Recorded, UNCHANGED workload, NEW r \in Requests, Assign(r)
  PROVE  IInv'
<1>. DEFINE u == ctx[r].user
            role == ctx[r].role
<1>1. ~At(r, "idle") /\ GotoWith(r, "idle", Blank)
      /\ UNCHANGED <<seeded, server, account, member, active, policy, key, token>>
  BY DEF Assign, At, Finish
<1>2. u \in Users /\ holds \subseteq Users \X Roles /\ role \in Roles /\ Promoted
  BY <1>1, InFlight DEF IInv, TableTypes, Assign, Locals
<1>3. holds' = IF Live(u) /\ Live(ctx[r].by) THEN holds \cup {<<u, role>>}
               ELSE holds
  BY DEF Assign
<1>4. /\ holds \subseteq holds'
      /\ \A h \in holds' \ holds : Live(u) /\ h = <<u, role>>
  BY <1>3
<1>5. holds' \subseteq Users \X Roles
  BY <1>2, <1>3
<1>6. \A x \in Users : ~Giving(r, x)
  BY DEF Giving, Assign, At
<1>7. active' \subseteq Users /\ \A x \in active' \ active : Live(x)
  BY <1>1 DEF IInv, TableTypes
<1>8. \A h \in holds' \ holds : Live(h[1]) /\ (h[2] = "admin" => Promoted)
  BY <1>2, <1>4
<1>. HIDE DEF u, role
<1>. QED
  BY <1>1, <1>4, <1>5, <1>6, <1>7, <1>8, Blanked, TableStep

\* The active organization is set for an account that is there, or cleared.
LEMMA ActiveKeeps ==
  ASSUME IInv, Recorded, UNCHANGED workload, NEW r \in Requests,
         Activate(r) \/ Deactivate(r)
  PROVE  IInv'
<1>. DEFINE u == ctx[r].user
<1>1. ~At(r, "idle") /\ (\A x \in Users : ~Giving(r, x))
      /\ UNCHANGED <<seeded, server, account, holds, member, policy, key, token>>
  BY DEF Activate, Deactivate, At, Giving
<1>2. u \in Users /\ active \subseteq Users /\ holds \subseteq Users \X Roles
      /\ ctx[r] \in Locals
  BY <1>1, InFlight DEF IInv, TableTypes
<1>3. \/ active' = active \cup {u} /\ Live(u)
      \/ active' = active \/ active' = active \ {u}
  BY DEF Activate, Deactivate
<1>4. PICK s \in Stages, c \in Locals :
        s # "assign" /\ GotoWith(r, s, c) /\ (s # "idle" => c = ctx[r])
  <2>1. CASE Goto(r, "rolesRead")
    BY <1>2, <2>1, GotoIs DEF Stages
  <2>2. CASE Goto(r, "issue")
    BY <1>2, <2>2, GotoIs DEF Stages
  <2>3. CASE Finish(r)
    BY <2>3, Blanked DEF Finish
  <2>. QED
    BY <2>1, <2>2, <2>3 DEF Activate, Deactivate
<1>5. active' \subseteq Users /\ \A x \in active' \ active : Live(x)
  BY <1>2, <1>3
<1>. HIDE DEF u
<1>. QED
  BY <1>1, <1>2, <1>4, <1>5, TableStep

\* A token claims what the request read.
LEMMA IssueKeeps ==
  ASSUME IInv, Recorded, UNCHANGED workload, NEW r \in Requests, Issue(r)
  PROVE  IInv'
<1>1. ~At(r, "idle") /\ (\A x \in Users : ~Giving(r, x))
      /\ UNCHANGED <<seeded, server, account, holds, member, active, policy, key>>
      /\ GotoWith(r, "idle", Blank)
  BY DEF Issue, At, Giving, tables, Finish
<1>2. TableTypes' /\ (Promoted => Promoted') /\ (\A u : Live(u) => Live(u)')
  BY <1>1 DEF IInv, TableTypes, Promoted, Live
<1>3. KeyInv' /\ PolicyInv' /\ (token' = token => TokenInv')
  BY <1>1, <1>2, Kept
<1>4. \A u \in Users : member[u] # "none" \/ u \in active => Live(u)
  BY DEF IInv, RowInv
<1>5. TokenInv' /\ token' \in [Tokens ->
                       [status : {"none", "issued"}, claims : Claims]]
  <2>1. token \in [Tokens -> [status : {"none", "issued"}, claims : Claims]]
    BY DEF IInv, OtherTypes
  <2>2. CASE token' = token
    BY <1>3, <2>1, <2>2
  <2>3. ASSUME NEW t \in Tokens,
               token' = [token EXCEPT ![t] =
                 [status |-> "issued",
                  claims |-> [user |-> ctx[r].user, perms |-> ctx[r].perms,
                              org |-> ctx[r].org]]]
        PROVE  TokenInv' /\ token' \in [Tokens ->
                       [status : {"none", "issued"}, claims : Claims]]
    <3>. DEFINE d == [user |-> ctx[r].user, perms |-> ctx[r].perms,
                      org |-> ctx[r].org]
    <3>1. ctx[r] \in Locals /\ Traced(ctx[r].perms, ctx[r].org, ctx[r].user)
      BY <1>1, InFlight
    <3>2. d \in Claims /\ Traced(d.perms, d.org, d.user)
      BY <3>1 DEF Locals, Claims
    <3>3. /\ token'[t] = [status |-> "issued", claims |-> d]
          /\ \A x \in Tokens : x # t => token'[x] = token[x]
      BY <2>1, <2>3
    <3>4. token' = [token EXCEPT ![t] = [status |-> "issued", claims |-> d]]
      BY <2>3
    <3>. HIDE DEF d
    <3>5. token' \in [Tokens -> [status : {"none", "issued"}, claims : Claims]]
      BY <2>1, <3>2, <3>4
    <3>6. ASSUME NEW x \in Tokens, Issued(x)'
          PROVE  Traced(token[x].claims.perms, token[x].claims.org,
                        token[x].claims.user)'
      <4>1. CASE x = t
        <5>1. token'[x].claims = d
          BY <3>3, <4>1
        <5>2. Traced(d.perms, d.org, d.user) /\ \A y \in Users : held[y] \subseteq held'[y]
          BY <1>2, <3>2, HeldGrows
        <5>3. d.user \in Users /\ d.perms \subseteq held'[d.user]
              /\ (d.org # "none" => d.org \in held'[d.user])
          BY <5>2 DEF Traced
        <5>. QED
          BY <5>1, <5>3 DEF Traced
      <4>2. CASE x # t
        <5>1. token'[x] = token[x] /\ Issued(x)
          BY <3>3, <3>6, <4>2 DEF Issued
        <5>2. Traced(token[x].claims.perms, token[x].claims.org,
                     token[x].claims.user)
          BY <5>1 DEF IInv, TokenInv
        <5>. QED
          BY <1>2, <5>1, <5>2, HeldGrows DEF Traced
      <4>. QED
        BY <4>1, <4>2
    <3>. QED
      BY <3>5, <3>6 DEF TokenInv
  <2>. QED
    BY <2>2, <2>3 DEF Issue
<1>6. /\ \A h \in holds' \ holds : h \in {}
      /\ \A u \in Users : member'[u] # "none" \/ u \in active' => Live(u)
  <2>1. holds' = holds /\ member' = member /\ active' = active
    BY <1>1
  <2>. QED
    BY <1>4, <2>1
<1>. QED
  BY <1>1, <1>2, <1>3, <1>5, <1>6, Blanked, WriteStep

\* A key has what its request was allowed.
LEMMA KeyInsertKeeps ==
  ASSUME IInv, Recorded, UNCHANGED workload, NEW r \in Requests, KeyInsert(r)
  PROVE  IInv'
<1>1. ~At(r, "idle") /\ (\A x \in Users : ~Giving(r, x))
      /\ UNCHANGED <<seeded, server, account, holds, member, active, policy,
                     token>>
      /\ GotoWith(r, "idle", Blank)
  BY DEF KeyInsert, At, Giving, Finish
<1>2. ctx[r] \in Locals /\ Traced(ctx[r].perms, ctx[r].org, ctx[r].user)
  BY <1>1, InFlight
<1>3. \A u \in Users : member[u] # "none" \/ u \in active => Live(u)
  BY DEF IInv, RowInv
<1>4. key \in [Keys -> KeyRows]
  BY DEF IInv, TableTypes
<1>5. \/ key' = key
      \/ /\ Live(ctx[r].user)
         /\ \E k \in Keys :
              key' = [key EXCEPT ![k] = [status |-> "active",
                                         user |-> ctx[r].user,
                                         perms |-> ctx[r].perms]]
  BY DEF KeyInsert
<1>6. key' \in [Keys -> KeyRows]
      /\ \A x \in Keys :
           \/ key'[x] = key[x]
           \/ Live(ctx[r].user) /\ key'[x].user = ctx[r].user
              /\ key'[x].perms = ctx[r].perms
  <2>1. CASE key' = key
    BY <1>4, <2>1
  <2>2. ASSUME NEW k \in Keys, Live(ctx[r].user),
               key' = [key EXCEPT ![k] = [status |-> "active",
                                          user |-> ctx[r].user,
                                          perms |-> ctx[r].perms]]
        PROVE  key' \in [Keys -> KeyRows]
               /\ \A x \in Keys :
                    \/ key'[x] = key[x]
                    \/ Live(ctx[r].user) /\ key'[x].user = ctx[r].user
                       /\ key'[x].perms = ctx[r].perms
    BY <1>2, <1>4, <2>2 DEF KeyRows, Locals
  <2>. QED
    BY <1>5, <2>1, <2>2
<1>7. TableTypes' /\ (Promoted => Promoted') /\ (\A u : Live(u) => Live(u)')
  BY <1>1, <1>6 DEF IInv, TableTypes, Promoted, Live
<1>8. TokenInv' /\ PolicyInv'
      /\ token' \in [Tokens -> [status : {"none", "issued"}, claims : Claims]]
  BY <1>1, <1>7, Kept DEF IInv, OtherTypes
<1>9. KeyInv'
  <2>1. ASSUME NEW x \in Keys, key'[x].status = "active"
        PROVE  Traced(key[x].perms, "none", key[x].user)' /\ Live(key[x].user)'
    <3>1. CASE key'[x] = key[x]
      <4>1. Traced(key[x].perms, "none", key[x].user) /\ Live(key[x].user)
        BY <2>1, <3>1 DEF IInv, KeyInv
      <4>. QED
        BY <1>7, <3>1, <4>1, HeldGrows DEF Traced, Live
    <3>2. CASE key'[x] # key[x]
      BY <1>1, <1>2, <1>6, <1>7, <3>2, HeldGrows DEF Traced, Live
    <3>. QED
      BY <3>1, <3>2
  <2>. QED
    BY <2>1 DEF KeyInv
<1>10. /\ \A h \in holds' \ holds : h \in {}
      /\ \A u \in Users : member'[u] # "none" \/ u \in active' => Live(u)
  <2>1. holds' = holds /\ member' = member /\ active' = active
    BY <1>1
  <2>. QED
    BY <1>3, <2>1
<1>. QED
  BY <1>1, <1>7, <1>8, <1>9, <1>10, Blanked, WriteStep

\* An account is inserted, with a request that will give it the default role
\* unless it came by OAuth.
LEMMA BornKeeps ==
  ASSUME IInv, Recorded, UNCHANGED workload, NEW r \in Requests, NEW op,
         NEW born \in {"registered", "oauth"}, NEW s \in Stages, s # "assign",
         s \in {"findDefault", "assignDefault"} \/ born # "registered",
         Born(r, op, born, s)
  PROVE  IInv'
<1>1. PICK u \in Users :
        /\ account[u].status = "absent"
        /\ account' = [account EXCEPT ![u].status = "live", ![u].born = born]
        /\ Arrive(r, op, [Blank EXCEPT !.user = u], s)
        /\ UNCHANGED <<seeded, server, holds, member, active, policy, key, token>>
  BY DEF Born, Unborn
<1>. DEFINE c == [Blank EXCEPT !.user = u]
<1>2. c \in Locals
  BY DEF Blank, Locals, Roles, OrgRoles
<1>3. PICK n \in Servers : GotoWith(r, s, [c EXCEPT !.server = n])
  BY <1>1, <1>2, Arrival
<1>. DEFINE d == [c EXCEPT !.server = n]
<1>4. /\ d \in Locals /\ d.user = u /\ d.perms = {} /\ d.org = "none"
      /\ Seeds \subseteq seeded /\ At(r, "idle")
  BY <1>1, <1>2, Arrival DEF Blank, Locals
<1>5. /\ stage' \in [Requests -> Stages] /\ ctx' \in [Requests -> Locals]
      /\ stage'[r] = s /\ ctx'[r] = d
      /\ \A x \in Requests : x # r => stage'[x] = stage[x] /\ ctx'[x] = ctx[x]
  BY <1>3, <1>4 DEF IInv, OtherTypes, GotoWith
<1>. HIDE DEF d, c
<1>6. account \in [Users -> Accounts]
  BY DEF IInv, TableTypes
<1>7. /\ account' \in [Users -> Accounts]
      /\ account'[u] = [account[u] EXCEPT !.status = "live", !.born = born]
      /\ \A x \in Users : x # u => account'[x] = account[x]
  BY <1>1, <1>6 DEF Accounts
<1>8. /\ account'[u].status = "live" /\ account'[u].born = born
      /\ account'[u].promoted = account[u].promoted
  BY <1>6, <1>7 DEF Accounts
<1>9. /\ \A x \in Users : Live(x) => Live(x)'
      /\ \A x \in Users : account'[x].promoted = account[x].promoted
      /\ \A x \in Users : x # u => (Live(x)' <=> Live(x))
  BY <1>7, <1>8 DEF Live
<1>10. TableTypes' /\ (Promoted => Promoted') /\ seeded' = seeded
  BY <1>1, <1>7, <1>9 DEF IInv, TableTypes, Promoted
<1>11. KeyInv' /\ TokenInv' /\ PolicyInv' /\ SeedInv' /\ PowerInv'
       /\ \A x \in Requests : x # r => RequestInv(x)'
  BY <1>1, <1>5, <1>9, <1>10, Kept
<1>12. OtherTypes'
  BY <1>1, <1>5, <1>10, HeldGrows DEF IInv, OtherTypes
<1>13. RowInv'
  <2>1. holds \subseteq Users \X Roles
    BY DEF IInv, TableTypes
  <2>2. \A h \in holds : Live(h[1])'
    BY <1>9, <2>1 DEF IInv, RowInv
  <2>3. \A x \in Users : member[x] # "none" \/ x \in active => Live(x)'
    BY <1>9 DEF IInv, RowInv
  <2>. QED
    BY <1>1, <1>10, <2>2, <2>3, HeldGrows DEF RowInv
<1>14. RequestInv(r)'
  BY <1>4, <1>5, <1>10 DEF RequestInv, Traced, At
<1>15. ASSUME NEW x \in Users
       PROVE  RoleInv(x)'
  <2>1. CASE x # u
    <3>1. RoleInv(x) /\ account'[x] = account[x] /\ (Live(x)' <=> Live(x))
      BY <1>7, <1>9, <2>1 DEF IInv
    <3>2. ASSUME NEW q \in Requests, Giving(q, x) PROVE Giving(q, x)'
      BY <1>4, <1>5, <3>2 DEF Giving, At
    <3>. QED
      BY <1>1, <3>1, <3>2, RoleKept
  <2>2. CASE x = u /\ born # "registered"
    BY <1>8, <2>2 DEF RoleInv
  <2>3. CASE x = u /\ s \in {"findDefault", "assignDefault"}
    <3>1. Giving(r, x)'
      BY <1>4, <1>5, <2>3 DEF Giving
    <3>. QED
      BY <3>1 DEF RoleInv
  <2>. QED
    BY <2>1, <2>2, <2>3
<1>. QED
  BY <1>10, <1>11, <1>12, <1>13, <1>14, <1>15 DEF IInv

LEMMA BirthsKeep ==
  ASSUME IInv, Recorded, UNCHANGED workload, NEW r \in Requests,
         Register(r) \/ AdminCreate(r) \/ OAuthCreate(r)
  PROVE  IInv'
<1>1. CASE Register(r)
  BY <1>1, BornKeeps DEF Register, Stages
<1>2. CASE AdminCreate(r)
  BY <1>2, BornKeeps DEF AdminCreate, Stages
<1>3. CASE OAuthCreate(r)
  BY <1>3, BornKeeps DEF OAuthCreate, Stages
<1>. QED
  BY <1>1, <1>2, <1>3

\* All rows of the account go at once.
LEMMA DeleteUserKeeps ==
  ASSUME IInv, Recorded, UNCHANGED workload, NEW r \in Requests, DeleteUser(r)
  PROVE  IInv'
<1>1. ~At(r, "idle") /\ (\A x \in Users : ~Giving(r, x))
      /\ GotoWith(r, "idle", Blank)
      /\ UNCHANGED <<seeded, server, policy, token>>
  BY DEF DeleteUser, At, Giving, Finish
<1>2. TableTypes /\ OtherTypes
  BY DEF IInv
<1>3. PICK u \in Users : u = ctx[r].user
  BY <1>1, InFlight
<1>4. /\ account' = [account EXCEPT ![u].status = "gone"]
      /\ holds' = {h \in holds : h[1] # u}
      /\ member' = [member EXCEPT ![u] = "none"]
      /\ active' = active \ {u}
      /\ key' = [k \in Keys |-> IF key[k].user = u
                                THEN [key[k] EXCEPT !.status = "deleted"]
                                ELSE key[k]]
  BY <1>3 DEF DeleteUser
<1>5. /\ account' \in [Users -> Accounts]
      /\ account'[u] = [account[u] EXCEPT !.status = "gone"]
      /\ \A x \in Users : x # u => account'[x] = account[x]
  BY <1>2, <1>4 DEF TableTypes, Accounts
<1>6. ~Live(u)' /\ \A x \in Users : account'[x].promoted = account[x].promoted
      /\ (x # u => (Live(x)' <=> Live(x)))
  BY <1>2, <1>5 DEF TableTypes, Accounts, Live
<1>7. key' \in [Keys -> KeyRows]
      /\ \A k \in Keys : key'[k].status = "active" =>
           key[k].status = "active" /\ key'[k] = key[k] /\ key[k].user # u
  BY <1>2, <1>4 DEF TableTypes, KeyRows
<1>8. member' \in [Users -> OrgRoles] /\ active' \subseteq Users
      /\ \A x \in Users : member'[x] # "none" \/ x \in active' =>
           x # u /\ (member[x] # "none" \/ x \in active)
  BY <1>2, <1>4 DEF TableTypes, OrgRoles
<1>9. holds' \subseteq holds /\ \A h \in holds' : h[1] # u
  BY <1>4
<1>10. TableTypes' /\ (Promoted => Promoted') /\ seeded' = seeded
  BY <1>1, <1>2, <1>5, <1>6, <1>7, <1>8, <1>9 DEF TableTypes, Promoted
<1>11. /\ stage' \in [Requests -> Stages] /\ ctx' \in [Requests -> Locals]
       /\ stage'[r] = "idle"
       /\ \A x \in Requests : x # r => stage'[x] = stage[x] /\ ctx'[x] = ctx[x]
  BY <1>1, <1>2, Blanked DEF OtherTypes, GotoWith
<1>12. TokenInv' /\ PolicyInv' /\ SeedInv' /\ PowerInv'
       /\ \A x \in Requests : x # r => RequestInv(x)'
  BY <1>1, <1>9, <1>10, <1>11, Kept
<1>13. OtherTypes'
  BY <1>1, <1>2, <1>10, <1>11, HeldGrows DEF OtherTypes
<1>14. RowInv'
  <2>1. \A h \in holds' : Live(h[1])'
    <3>1. holds \subseteq Users \X Roles
      BY <1>2 DEF TableTypes
    <3>2. ASSUME NEW h \in holds' PROVE Live(h[1])'
      <4>1. Live(h[1]) /\ h[1] # u /\ h[1] \in Users
        BY <1>9, <3>1 DEF IInv, RowInv
      <4>. QED
        BY <1>6, <4>1
    <3>. QED
      BY <3>2
  <2>2. \A x \in Users : member'[x] # "none" \/ x \in active' => Live(x)'
    BY <1>6, <1>8 DEF IInv, RowInv
  <2>. QED
    BY <1>10, <2>1, <2>2, HeldGrows DEF RowInv
<1>15. KeyInv'
  <2>1. ASSUME NEW k \in Keys, key'[k].status = "active"
        PROVE  Traced(key[k].perms, "none", key[k].user)' /\ Live(key[k].user)'
    <3>1. key'[k] = key[k] /\ key[k].user # u /\ key[k].user \in Users
          /\ Traced(key[k].perms, "none", key[k].user) /\ Live(key[k].user)
      BY <1>7, <2>1 DEF IInv, KeyInv, Traced
    <3>2. Live(key[k].user)'
      BY <1>5, <3>1 DEF Live
    <3>. QED
      BY <1>10, <3>1, <3>2, HeldGrows DEF Traced
  <2>. QED
    BY <2>1 DEF KeyInv
<1>16. RequestInv(r)'
  BY <1>11 DEF RequestInv, At
<1>17. ASSUME NEW x \in Users
       PROVE  RoleInv(x)'
  <2>1. CASE x = u
    BY <1>6, <2>1 DEF RoleInv
  <2>2. CASE x # u
    <3>1. RoleInv(x) /\ account'[x] = account[x] /\ (Live(x)' <=> Live(x))
      BY <1>5, <1>6, <2>2 DEF IInv
    <3>2. ASSUME NEW q \in Requests, Giving(q, x) PROVE Giving(q, x)'
      BY <1>1, <1>11, <3>2 DEF Giving
    <3>3. <<x, "user">> \in holds => <<x, "user">> \in holds'
      BY <1>4, <2>2
    <3>. QED
      BY <3>1, <3>2, <3>3, RoleKept
  <2>. QED
    BY <2>1, <2>2
<1>. QED
  BY <1>10, <1>12, <1>13, <1>14, <1>15, <1>16, <1>17 DEF IInv

-----------------------------------------------------------------------------
(* Other steps.                                                            *)

\* A step outside the requests, that takes no account away.
LEMMA QuietStep ==
  ASSUME IInv, Recorded, UNCHANGED <<stage, ctx, workload>>,
         TableTypes', SeedInv', KeyInv', TokenInv', PolicyInv',
         server' \in [Servers -> [state : {"down", "seeding", "up"},
                                  at : 0..Len(SeedPlan)]],
         token' \in [Tokens -> [status : {"none", "issued"}, claims : Claims]],
         seeded \subseteq seeded',
         \A u \in Users :
           /\ account'[u].status = account[u].status
           /\ account'[u].born = account[u].born
           /\ account[u].promoted => account'[u].promoted
           /\ account[u].stripped => account'[u].stripped
           /\ account[u].halted => account'[u].halted,
         \A h \in holds' \ holds :
           Live(h[1]) /\ (h[2] = "admin" => Promoted'),
         \A u \in Users : <<u, "user">> \in holds =>
           \/ <<u, "user">> \in holds'
           \/ Live(u) => account'[u].stripped,
         \A u \in Users : member'[u] # "none" \/ u \in active' => Live(u)
  PROVE  IInv'
<1>1. (Promoted => Promoted') /\ \A u \in Users : Live(u)' <=> Live(u)
  BY DEF Promoted, Live
<1>2. \A u \in Users : <<u, "admin">> \in holds' =>
                         <<u, "admin">> \in holds \/ Promoted'
  OBVIOUS
<1>3. PowerInv' /\ \A x \in Requests : RequestInv(x)'
  BY <1>1, <1>2, Kept
<1>4. OtherTypes'
  BY HeldGrows DEF IInv, OtherTypes
<1>5. RowInv'
  <2>1. ASSUME NEW h \in holds' PROVE Live(h[1])'
    <3>1. h[1] \in Users
      BY DEF TableTypes
    <3>2. Live(h[1])
      BY DEF IInv, RowInv
    <3>. QED
      BY <1>1, <3>1, <3>2
  <2>. QED
    BY <1>1, <2>1, HeldGrows DEF RowInv
<1>6. ASSUME NEW u \in Users
      PROVE  RoleInv(u)'
  <2>1. RoleInv(u) /\ \A r \in Requests : Giving(r, u)' <=> Giving(r, u)
    BY DEF IInv, Giving
  <2>2. CASE <<u, "user">> \in holds => <<u, "user">> \in holds'
    BY <1>1, <2>1, <2>2, RoleKept
  <2>3. CASE Live(u) => account'[u].stripped
    BY <1>1, <2>3 DEF RoleInv
  <2>. QED
    BY <2>2, <2>3
<1>. QED
  BY <1>3, <1>4, <1>5, <1>6 DEF IInv

\* What QuietStep asks of the tables, when only servers, tokens, keys or the
\* policy change.
LEMMA SameRows ==
  ASSUME IInv, UNCHANGED <<account, holds, member, active>>
  PROVE  /\ \A u \in Users :
              /\ account'[u].status = account[u].status
              /\ account'[u].born = account[u].born
              /\ account[u].promoted => account'[u].promoted
              /\ account[u].stripped => account'[u].stripped
              /\ account[u].halted => account'[u].halted
         /\ \A h \in holds' \ holds : FALSE
         /\ \A u \in Users : <<u, "user">> \in holds => <<u, "user">> \in holds'
         /\ \A u \in Users : member'[u] # "none" \/ u \in active' => Live(u)
         /\ (Promoted => Promoted') /\ \A u : Live(u) => Live(u)'
BY DEF IInv, RowInv, Promoted, Live

\* A process seeds before it serves.
LEMMA ServersKeep ==
  ASSUME IInv, Recorded, UNCHANGED workload, NEW n \in Servers,
         Boot(n) \/ SeedRow(n) \/ SeedMapping(n) \/ Listen(n)
  PROVE  IInv'
<1>1. UNCHANGED <<account, holds, member, active, policy, key, token, stage, ctx>>
  BY DEF Boot, SeedRow, SeedMapping, Seed, Listen, Others
<1>2. TableTypes /\ OtherTypes /\ SeedInv
  BY DEF IInv
<1>3. server[n] \in [state : {"down", "seeding", "up"}, at : 0..7]
      /\ Len(SeedPlan) = 7
  BY <1>2, PlanFacts DEF OtherTypes
<1>. DEFINE Fine == /\ server' \in [Servers -> [state : {"down", "seeding", "up"},
                                                at : 0..Len(SeedPlan)]]
                    /\ seeded \subseteq seeded' /\ seeded' \subseteq Seeds
                    /\ SeedInv'
<1>4. Fine
  <2>1. CASE Boot(n)
    <3>1. server' = [server EXCEPT ![n] = [state |-> "seeding", at |-> 0]]
          /\ seeded' = seeded
      BY <2>1 DEF Boot
    <3>2. server' \in [Servers -> [state : {"down", "seeding", "up"},
                                   at : 0..Len(SeedPlan)]]
      BY <1>2, <1>3, <3>1 DEF OtherTypes
    <3>3. SeedInv'
      BY <1>2, <3>1 DEF OtherTypes, SeedInv
    <3>. QED
      BY <1>2, <3>1, <3>2, <3>3 DEF TableTypes
  <2>2. CASE SeedRow(n) \/ SeedMapping(n)
    <3>1. /\ server[n].state = "seeding" /\ server[n].at < 7
          /\ server' = [server EXCEPT ![n].at = @ + 1]
          /\ seeded' = seeded \cup {SeedPlan[server[n].at + 1]}
      BY <1>3, <2>2 DEF SeedRow, SeedMapping, Seed
    <3>2. PICK i \in 1..7 : i = server[n].at + 1
      BY <1>3, <3>1
    <3>3. SeedPlan[i] \in Seeds /\ seeded' = seeded \cup {SeedPlan[i]}
      BY <3>1, <3>2, PlanFacts
    <3>4. /\ server' \in [Servers -> [state : {"down", "seeding", "up"}, at : 0..7]]
          /\ server'[n].state = "seeding" /\ server'[n].at = i
          /\ \A m \in Servers : m # n => server'[m] = server[m]
      BY <1>2, <1>3, <3>1, <3>2 DEF OtherTypes
    <3>5. \A j \in 1..i : SeedPlan[j] \in seeded'
      <4>1. ASSUME NEW j \in 1..i, j # i PROVE SeedPlan[j] \in seeded
        <5>1. j \in 1..server[n].at
          BY <1>3, <3>2, <4>1
        <5>. QED
          BY <1>2, <3>1, <5>1 DEF SeedInv
      <4>. QED
        BY <3>3, <4>1
    <3>6. SeedInv'
      <4>1. ASSUME NEW m \in Servers
            PROVE  /\ server'[m].state = "seeding" =>
                        \A j \in 1..server'[m].at : SeedPlan[j] \in seeded'
                   /\ server'[m].state = "up" => Seeds \subseteq seeded'
        <5>1. CASE m = n
          BY <3>4, <3>5, <5>1
        <5>2. CASE m # n
          BY <1>2, <3>3, <3>4, <5>2 DEF SeedInv
        <5>. QED
          BY <5>1, <5>2
      <4>. QED
        BY <4>1 DEF SeedInv
    <3>. QED
      BY <1>2, <1>3, <3>3, <3>4, <3>6 DEF TableTypes
  <2>3. CASE Listen(n)
    <3>1. /\ server[n].state = "seeding" /\ server[n].at = 7
          /\ server' = [server EXCEPT ![n].state = "up"] /\ seeded' = seeded
      BY <1>3, <2>3 DEF Listen
    <3>2. Seeds \subseteq seeded
      BY <1>2, <3>1, PlanFacts DEF SeedInv
    <3>3. server' \in [Servers -> [state : {"down", "seeding", "up"},
                                   at : 0..Len(SeedPlan)]]
          /\ \A m \in Servers : m # n => server'[m] = server[m]
      BY <1>2, <3>1 DEF OtherTypes
    <3>4. SeedInv'
      BY <1>2, <3>1, <3>2, <3>3 DEF SeedInv, OtherTypes
    <3>. QED
      BY <1>2, <3>1, <3>3, <3>4 DEF TableTypes
  <2>. QED
    BY <2>1, <2>2, <2>3
<1>5. TableTypes' /\ token' \in [Tokens ->
                        [status : {"none", "issued"}, claims : Claims]]
  BY <1>1, <1>2, <1>4 DEF TableTypes, OtherTypes
<1>6. KeyInv' /\ TokenInv' /\ PolicyInv'
  BY <1>1, <1>4, <1>5, SameRows, Kept
<1>. QED
  BY <1>1, <1>4, <1>5, <1>6, SameRows, QuietStep

\* A token expires, a key is revoked, the policy is set by an owner's claim.
LEMMA EndingsKeep ==
  ASSUME IInv, Recorded, UNCHANGED workload,
         \/ \E t \in Tokens : TokenExpires(t)
         \/ \E k \in Keys : RevokeKey(k)
         \/ \E c \in Principals, required \in BOOLEAN : SetPolicy(c, required)
  PROVE  IInv'
<1>1. UNCHANGED <<seeded, account, holds, member, active, server, stage, ctx>>
  BY DEF TokenExpires, RevokeKey, SetPolicy, tables
<1>2. TableTypes /\ OtherTypes
  BY DEF IInv
<1>. DEFINE Fine == /\ key' \in [Keys -> KeyRows]
                    /\ token' \in [Tokens -> [status : {"none", "issued"},
                                              claims : Claims]]
                    /\ policy' \in [required : BOOLEAN, by : Users \cup {None}]
                    /\ \/ policy' = policy
                       \/ "owner" \in held[policy'.by] /\ policy'.by \in Users
                    /\ \A k \in Keys : key'[k] = key[k]
                                       \/ key'[k].status # "active"
                    /\ \A t \in Tokens : token'[t] = token[t] \/ ~Issued(t)'
<1>3. Fine
  <2>1. ASSUME NEW t \in Tokens, TokenExpires(t) PROVE Fine
    <3>1. token' = [token EXCEPT ![t] = NoToken] /\ UNCHANGED <<key, policy>>
      BY <2>1 DEF TokenExpires, tables
    <3>2. NoToken \in [status : {"none", "issued"}, claims : Claims]
      BY DEF NoToken, NoClaims, Claims, OrgRoles
    <3>3. token' \in [Tokens -> [status : {"none", "issued"}, claims : Claims]]
      BY <1>2, <3>1, <3>2 DEF OtherTypes
    <3>4. \A x \in Tokens : token'[x] = token[x] \/ ~Issued(x)'
      BY <1>2, <3>1 DEF OtherTypes, NoToken, Issued
    <3>. QED
      BY <1>2, <3>1, <3>3, <3>4 DEF TableTypes
  <2>2. ASSUME NEW k \in Keys, RevokeKey(k) PROVE Fine
    <3>1. key' = [key EXCEPT ![k].status = "revoked"]
          /\ UNCHANGED <<token, policy>>
      BY <2>2 DEF RevokeKey
    <3>2. key' \in [Keys -> KeyRows]
      BY <1>2, <3>1 DEF TableTypes, KeyRows
    <3>3. \A x \in Keys : key'[x] = key[x] \/ key'[x].status # "active"
      BY <1>2, <3>1 DEF TableTypes, KeyRows
    <3>. QED
      BY <1>2, <3>1, <3>2, <3>3 DEF TableTypes, OtherTypes
  <2>3. ASSUME NEW c \in Principals, NEW required \in BOOLEAN,
               SetPolicy(c, required)
        PROVE  Fine
    <3>1. c.org = "owner" /\ policy' = [required |-> required, by |-> c.user]
          /\ UNCHANGED <<token, key>>
      BY <2>3 DEF SetPolicy, PolicyAllowed
    <3>2. "owner" \in held[c.user] /\ c.user \in Users
      BY <3>1, PrincipalClaims DEF Traced
    <3>. QED
      BY <1>2, <3>1, <3>2 DEF TableTypes, OtherTypes
  <2>. QED
    BY <2>1, <2>2, <2>3
<1>4. TableTypes'
  BY <1>1, <1>2, <1>3 DEF TableTypes
<1>5. \A u \in Users : held[u] \subseteq held'[u] /\ (Live(u) => Live(u)')
  BY <1>1, <1>4, HeldGrows, SameRows
<1>6. SeedInv' /\ (policy' = policy => PolicyInv')
  BY <1>1, <1>4, SameRows, Kept
<1>7. PolicyInv'
  BY <1>3, <1>5, <1>6 DEF PolicyInv
<1>8. KeyInv'
  <2>1. ASSUME NEW k \in Keys, key'[k].status = "active"
        PROVE  Traced(key[k].perms, "none", key[k].user)' /\ Live(key[k].user)'
    <3>1. key'[k] = key[k]
          /\ Traced(key[k].perms, "none", key[k].user) /\ Live(key[k].user)
      BY <1>3, <2>1 DEF IInv, KeyInv
    <3>. QED
      BY <1>1, <1>5, <3>1 DEF Traced, Live
  <2>. QED
    BY <2>1 DEF KeyInv
<1>9. TokenInv'
  <2>1. ASSUME NEW t \in Tokens, Issued(t)'
        PROVE  Traced(token[t].claims.perms, token[t].claims.org,
                      token[t].claims.user)'
    <3>1. token'[t] = token[t] /\ Issued(t)
      BY <1>3, <2>1 DEF Issued
    <3>2. Traced(token[t].claims.perms, token[t].claims.org,
                 token[t].claims.user)
      BY <3>1 DEF IInv, TokenInv
    <3>. QED
      BY <1>5, <3>1, <3>2 DEF Traced
  <2>. QED
    BY <2>1 DEF TokenInv
<1>10. seeded \subseteq seeded' /\
       server' \in [Servers -> [state : {"down", "seeding", "up"},
                                at : 0..Len(SeedPlan)]]
  BY <1>1, <1>2 DEF OtherTypes
<1>. HIDE DEF Fine
<1>11. token' \in [Tokens -> [status : {"none", "issued"}, claims : Claims]]
  BY <1>3 DEF Fine
<1>. QED
  BY <1>1, <1>4, <1>6, <1>7, <1>8, <1>9, <1>10, <1>11, SameRows, QuietStep

\* Rows of user_roles and org_members are written for an account that is there.
LEMMA RolesChange ==
  ASSUME IInv, Recorded, UNCHANGED workload, NEW u \in Users
  PROVE  /\ MakeAdmin(u) => IInv'
         /\ \A role \in Roles : RemoveRole(u, role) => IInv'
         /\ \A role \in OrgRoles : MemberWrite(u, role) => IInv'
<1>1. TableTypes /\ OtherTypes /\ account[u] \in Accounts
  BY DEF IInv, TableTypes
<1>2. \A x \in Users : member[x] # "none" \/ x \in active => Live(x)
  BY DEF IInv, RowInv
<1>3. ASSUME MakeAdmin(u) PROVE IInv'
  <2>1. /\ Live(u) /\ holds' = holds \cup {<<u, "admin">>}
        /\ account' = [account EXCEPT ![u].promoted = TRUE]
        /\ UNCHANGED <<seeded, server, member, active, policy, key, token, stage,
                       ctx>>
    BY <1>3 DEF MakeAdmin
  <2>2. account' \in [Users -> Accounts]
        /\ \A x \in Users :
             /\ account'[x].status = account[x].status
             /\ account'[x].born = account[x].born
             /\ account'[x].promoted = (account[x].promoted \/ x = u)
             /\ account'[x].stripped = account[x].stripped
             /\ account'[x].halted = account[x].halted
    BY <1>1, <2>1 DEF TableTypes, Accounts
  <2>3. TableTypes' /\ Promoted' /\ \A x \in Users : Live(x) => Live(x)'
    BY <1>1, <2>1, <2>2 DEF TableTypes, Roles, Promoted, Live
  <2>4. SeedInv' /\ KeyInv' /\ TokenInv' /\ PolicyInv'
    BY <2>1, <2>3, Kept
  <2>5. /\ \A h \in holds' \ holds : Live(h[1]) /\ Promoted'
        /\ \A x \in Users : <<x, "user">> \in holds => <<x, "user">> \in holds'
    BY <2>1, <2>3
  <2>6. server' \in [Servers -> [state : {"down", "seeding", "up"},
                                 at : 0..Len(SeedPlan)]]
        /\ token' \in [Tokens -> [status : {"none", "issued"}, claims : Claims]]
    BY <1>1, <2>1 DEF OtherTypes
  <2>7. \A x \in Users : member'[x] # "none" \/ x \in active' => Live(x)
    BY <1>2, <2>1
  <2>. QED
    BY <2>1, <2>2, <2>3, <2>4, <2>5, <2>6, <2>7, QuietStep
<1>4. ASSUME NEW role \in Roles, RemoveRole(u, role) PROVE IInv'
  <2>. DEFINE now == account[u].stripped \/ (role = "user" /\ Live(u))
  <2>1. /\ holds' = holds \ {<<u, role>>}
        /\ account' = [account EXCEPT ![u].stripped = now]
        /\ UNCHANGED <<seeded, server, member, active, policy, key, token, stage,
                       ctx>>
    BY <1>4 DEF RemoveRole
  <2>2. now \in BOOLEAN
    BY <1>1 DEF Accounts
  <2>3. (account[u].stripped => now) /\ (role = "user" /\ Live(u) => now)
    OBVIOUS
  <2>. HIDE DEF now
  <2>4. account' \in [Users -> Accounts]
        /\ \A x \in Users :
             /\ account'[x].status = account[x].status
             /\ account'[x].born = account[x].born
             /\ account'[x].promoted = account[x].promoted
             /\ account'[x].halted = account[x].halted
             /\ account'[x].stripped = IF x = u THEN now ELSE account[x].stripped
    BY <1>1, <2>1, <2>2 DEF TableTypes, Accounts
  <2>5. TableTypes' /\ (Promoted => Promoted')
        /\ \A x \in Users : Live(x) => Live(x)'
    BY <1>1, <2>1, <2>4 DEF TableTypes, Promoted, Live
  <2>6. SeedInv' /\ KeyInv' /\ TokenInv' /\ PolicyInv'
    BY <2>1, <2>5, Kept
  <2>7. ASSUME NEW x \in Users, <<x, "user">> \in holds
        PROVE  <<x, "user">> \in holds' \/ (Live(x) => account'[x].stripped)
    BY <2>1, <2>3, <2>4, <2>7
  <2>8. /\ \A h \in holds' \ holds : FALSE
        /\ \A x \in Users : account[x].stripped => account'[x].stripped
    BY <2>1, <2>3, <2>4
  <2>9. server' \in [Servers -> [state : {"down", "seeding", "up"},
                                 at : 0..Len(SeedPlan)]]
        /\ token' \in [Tokens -> [status : {"none", "issued"}, claims : Claims]]
    BY <1>1, <2>1 DEF OtherTypes
  <2>10. \A x \in Users : member'[x] # "none" \/ x \in active' => Live(x)
    BY <1>2, <2>1
  <2>. QED
    BY <2>1, <2>4, <2>5, <2>6, <2>7, <2>8, <2>9, <2>10, QuietStep
<1>5. ASSUME NEW role \in OrgRoles, MemberWrite(u, role) PROVE IInv'
  <2>1. /\ Live(u) /\ member' = [member EXCEPT ![u] = role]
        /\ UNCHANGED <<seeded, server, account, holds, active, policy, key, token,
                       stage, ctx>>
    BY <1>5 DEF MemberWrite
  <2>2. TableTypes' /\ (Promoted => Promoted')
        /\ \A x \in Users : Live(x) => Live(x)'
    BY <1>1, <2>1 DEF TableTypes, Promoted, Live
  <2>3. SeedInv' /\ KeyInv' /\ TokenInv' /\ PolicyInv'
    BY <2>1, <2>2, Kept
  <2>4. \A x \in Users : member'[x] # "none" \/ x \in active' => Live(x)
    BY <1>1, <1>2, <2>1 DEF TableTypes
  <2>5. server' \in [Servers -> [state : {"down", "seeding", "up"},
                                 at : 0..Len(SeedPlan)]]
        /\ token' \in [Tokens -> [status : {"none", "issued"}, claims : Claims]]
    BY <1>1, <2>1 DEF OtherTypes
  <2>. QED
    BY <2>1, <2>2, <2>3, <2>4, <2>5, QuietStep
<1>. QED
  BY <1>3, <1>4, <1>5

\* An account whose request stops before giving it the default role is marked.
LEMMA StopsKeep ==
  ASSUME IInv, Recorded, UNCHANGED workload, NEW S \in SUBSET Requests,
         Stopped(S), SeedInv',
         server' \in [Servers -> [state : {"down", "seeding", "up"},
                                  at : 0..Len(SeedPlan)]]
  PROVE  IInv'
<1>1. TableTypes /\ OtherTypes
      /\ UNCHANGED <<seeded, holds, member, active, policy, key, token>>
  BY DEF IInv, Stopped
<1>2. \A u \in Users : account[u] \in Accounts
      /\ account'[u] = [account[u] EXCEPT !.halted =
                          account[u].halted \/ \E r \in S :
                             /\ ctx[r].user = u
                             /\ stage[r] \in {"findDefault", "assignDefault"}]
  BY <1>1 DEF TableTypes, Stopped
<1>3. ASSUME NEW u \in Users
      PROVE  /\ account'[u] \in Accounts
             /\ account'[u].status = account[u].status
             /\ account'[u].born = account[u].born
             /\ account'[u].promoted = account[u].promoted
             /\ account'[u].stripped = account[u].stripped
             /\ account[u].halted => account'[u].halted
             /\ \A r \in S : Giving(r, u) => account'[u].halted
  <2>. DEFINE now == account[u].halted \/ \E r \in S : Giving(r, u)
  <2>1. account'[u] = [account[u] EXCEPT !.halted = now]
    BY <1>2 DEF Giving
  <2>2. now \in BOOLEAN
    BY <1>2 DEF Accounts
  <2>3. (account[u].halted => now) /\ \A r \in S : Giving(r, u) => now
    OBVIOUS
  <2>. HIDE DEF now
  <2>. QED
    BY <1>2, <2>1, <2>2, <2>3 DEF Accounts
<1>4. account' \in [Users -> Accounts]
  BY <1>3 DEF Stopped
<1>5. TableTypes' /\ (Promoted => Promoted')
      /\ \A u \in Users : Live(u)' <=> Live(u)
  BY <1>1, <1>3, <1>4 DEF TableTypes, Promoted, Live
<1>6. /\ \A r \in S : stage'[r] = "idle" /\ ctx'[r] = Blank
      /\ \A r \in Requests \ S : stage'[r] = stage[r] /\ ctx'[r] = ctx[r]
      /\ stage' \in [Requests -> Stages] /\ ctx' \in [Requests -> Locals]
  BY <1>1, Blanked DEF Stopped, OtherTypes
<1>7. KeyInv' /\ TokenInv' /\ PolicyInv' /\ PowerInv'
      /\ \A r \in Requests \ S : RequestInv(r)'
  BY <1>1, <1>5, <1>6, Kept
<1>8. OtherTypes'
  BY <1>1, <1>5, <1>6, HeldGrows DEF OtherTypes
<1>9. RowInv'
  <2>1. \A h \in holds : h[1] \in Users /\ Live(h[1])
    BY <1>1 DEF IInv, RowInv, TableTypes
  <2>2. \A u \in Users : member[u] # "none" \/ u \in active => Live(u)
    BY DEF IInv, RowInv
  <2>. QED
    BY <1>1, <1>5, <2>1, <2>2, HeldGrows DEF RowInv
<1>10. \A r \in S : RequestInv(r)'
  BY <1>6 DEF RequestInv, At
<1>11. ASSUME NEW u \in Users
       PROVE  RoleInv(u)'
  <2>1. RoleInv(u) /\ (Live(u)' <=> Live(u))
    BY <1>5 DEF IInv
  <2>2. ASSUME NEW r \in Requests, Giving(r, u)
        PROVE  Giving(r, u)' \/ account'[u].halted
    BY <1>3, <1>6, <2>2 DEF Giving
  <2>. QED
    BY <1>1, <1>3, <2>1, <2>2, RoleKept
<1>. QED
  BY <1>5, <1>7, <1>8, <1>9, <1>10, <1>11 DEF IInv

LEMMA AbortKeeps ==
  ASSUME IInv, Recorded, UNCHANGED workload, NEW r \in Requests, Abort(r)
  PROVE  IInv'
<1>1. Stopped({r}) /\ server' = server /\ seeded' = seeded
  BY DEF Abort, Stopped
<1>2. SeedInv' /\ server' \in [Servers -> [state : {"down", "seeding", "up"},
                                           at : 0..Len(SeedPlan)]]
  BY <1>1 DEF IInv, OtherTypes, SeedInv
<1>. QED
  BY <1>1, <1>2, StopsKeep

LEMMA ExitKeeps ==
  ASSUME IInv, Recorded, UNCHANGED workload, NEW n \in Servers, Exit(n)
  PROVE  IInv'
<1>1. /\ Stopped({r \in Requests : ctx[r].server = n}) /\ seeded' = seeded
      /\ server' = [server EXCEPT ![n] = [state |-> "down", at |-> 0]]
  BY DEF Exit, Stopped
<1>2. server' \in [Servers -> [state : {"down", "seeding", "up"},
                               at : 0..Len(SeedPlan)]]
  BY <1>1, PlanFacts DEF IInv, OtherTypes
<1>3. SeedInv'
  BY <1>1 DEF IInv, OtherTypes, SeedInv
<1>. QED
  BY <1>1, <1>2, <1>3, StopsKeep

-----------------------------------------------------------------------------
(* The theorems.                                                           *)

LEMMA RequestsKeep ==
  ASSUME IInv, Recorded, UNCHANGED workload, NEW r \in Requests, RequestStep(r)
  PROVE  IInv'
<1>1. CASE Register(r) \/ AdminCreate(r) \/ OAuthCreate(r)
  BY <1>1, BirthsKeep
<1>2. CASE FindDefault(r) \/ AssignDefault(r)
  BY <1>2, ReadsKeep, AssignDefaultKeeps
<1>3. CASE \E c \in Principals, u \in Users :
             \/ \E role \in Roles : AssignFind(r, c, u, role)
             \/ DeleteFind(r, c, u)
  BY <1>3, ArrivalsKeep
<1>4. CASE Assign(r) \/ DeleteUser(r)
  BY <1>4, AssignKeeps, DeleteUserKeeps
<1>5. CASE \/ \E u \in Users : Login(r, u)
           \/ \E c \in Principals : SwitchFind(r, c)
  BY <1>5, ArrivalsKeep
<1>6. CASE Activate(r) \/ TokenStep(r)
  BY <1>6, ActiveKeeps, ReadsKeep, IssueKeeps DEF TokenStep
<1>7. CASE \E t \in Tokens, perms \in SUBSET Permissions : KeyFind(r, t, perms)
  BY <1>7, KeyFindKeeps
<1>8. CASE KeyInsert(r) \/ Abort(r)
  BY <1>8, KeyInsertKeeps, AbortKeeps
<1>. QED
  BY <1>1, <1>2, <1>3, <1>4, <1>5, <1>6, <1>7, <1>8 DEF RequestStep

LEMMA NextKeeps ==
  ASSUME IInv, Next
  PROVE  IInv'
<1>1. Recorded /\ UNCHANGED workload
  BY DEF Next, Recorded
<1>2. ASSUME NEW n \in Servers, ServerStep(n) PROVE IInv'
  BY <1>1, <1>2, ServersKeep, ExitKeeps DEF ServerStep
<1>3. ASSUME NEW r \in Requests, RequestStep(r) PROVE IInv'
  BY <1>1, <1>3, RequestsKeep
<1>4. CASE OtherStep
  <2>1. ASSUME NEW u \in Users,
               \/ MakeAdmin(u)
               \/ \E role \in Roles : RemoveRole(u, role)
               \/ \E role \in OrgRoles : MemberWrite(u, role)
        PROVE  IInv'
    BY <1>1, <2>1, RolesChange
  <2>. QED
    BY <1>1, <1>4, <2>1, EndingsKeep DEF OtherStep
<1>. QED
  BY <1>2, <1>3, <1>4 DEF Next, Step

LEMMA StutterKeeps ==
  ASSUME IInv, UNCHANGED vars
  PROVE  IInv'
<1>1. /\ UNCHANGED <<seeded, account, holds, member, active, policy, key>>
      /\ UNCHANGED <<server, token, stage, ctx, workload, held>>
  BY DEF vars, tables
<1>2. TableTypes' /\ OtherTypes'
  BY <1>1 DEF IInv, TableTypes, OtherTypes
<1>3. SeedInv' /\ PolicyInv' /\ PowerInv'
  BY <1>1 DEF IInv, SeedInv, PolicyInv, PowerInv, Promoted
<1>4. RowInv'
  BY <1>1 DEF IInv, RowInv, Live, Authority, Carried
<1>5. KeyInv' /\ TokenInv'
  BY <1>1 DEF IInv, KeyInv, TokenInv, Traced, Live, Issued
<1>6. \A r \in Requests : RequestInv(r)'
  BY <1>1 DEF IInv, RequestInv, Traced, Promoted, At
<1>7. \A u \in Users : RoleInv(u)'
  BY <1>1 DEF IInv, RoleInv, Giving, Live
<1>. QED
  BY <1>2, <1>3, <1>4, <1>5, <1>6, <1>7 DEF IInv

\* The invariant holds in every reachable state.
THEOREM Inductive == Spec => []IInv
<1>1. IInv /\ [Next]_vars => IInv'
  BY NextKeeps, StutterKeeps
<1>. QED
  BY InitIInv, <1>1, PTL DEF Spec

\* Types; who holds a role, belongs to the organization or has a key in force
\* exists; and a process that serves finds every row of the seed (db/schema,
\* db/seed seedSystemData).
THEOREM TypeSafe == Spec => []TypeOK
BY Inductive, IInvImplies, PTL

\* An account that registered has the default role, on whatever server and
\* however early, unless its request stopped or an administrator took it away
\* (rbac.service assignDefaultRole, db/seed seedSystemData).
THEOREM DefaultRole == Spec => []DefaultRoleGiven
BY Inductive, IInvImplies, PTL

\* Nobody comes by authority they never had, however stale the claims they act
\* on; and the power to give roles goes back to an account that an operator
\* promoted (auth.service token payloads, api-key.service createKey,
\* rbac.service assignRole, org routes' MFA policy).
THEOREM Traceable == Spec => []AuthorityTraced
BY Inductive, IInvImplies, PTL
=============================================================================

------------------------------- MODULE Accounts -------------------------------
(***************************************************************************)
(* How accounts come to be and change hands of state: registration, by a   *)
(* client or an administrator, e-mail tokens, verification of an address,  *)
(* password reset, OAuth login that creates or links an account, and the   *)
(* sessions that a reset must end.  AccountDeletion adds the end of an     *)
(* account and puts the steps together.                                    *)
(*                                                                         *)
(* As in AuthSessions a handler runs alone between two awaits, every       *)
(* statement is its own transaction, and what was read stays in ctx[r].    *)
(* Lockout, MFA and disabling are in AuthSessions and left out here; so    *)
(* are the default role, the text of mails and audit rows.                 *)
(***************************************************************************)
EXTENDS Integers, FiniteSets

CONSTANTS
  Users,       \* users rows that may exist
  Existing,    \* those that exist, verified and with a password, at the start
  Emails,      \* addresses
  Identities,  \* pairs of an OAuth provider and its id of a person
  Tokens,      \* email_tokens rows that may be inserted
  Sessions,    \* refresh_tokens rows that may be inserted
  Deletions,   \* deletion_requests rows that may be inserted
  States,      \* OAuth state values that may be outstanding at once
  Requests,    \* requests in flight at once
  Workloads,   \* each a set of operations clients perform in one behaviour
  MaxFaults,   \* how many restarts and failed statements there may be
  None         \* SQL null, and "not there" in a request's context

ASSUME NoneIsNothing ==
  None \notin Users \cup Emails \cup Identities \cup Tokens \cup Sessions
       \cup Deletions
ASSUME ExistingAreUsers == Existing \subseteq Users
ASSUME EnoughEmails ==
  \E f \in [Existing -> Emails] : \A u, v \in Existing : f[u] = f[v] => u = v
ASSUME MaxFaultsIsNatural == MaxFaults \in Nat
ASSUME RequestsAreFinite == IsFiniteSet(Requests)

VARIABLES
  account,     \* account[u]: the users row
  token,       \* token[k]: the email_tokens row
  session,     \* session[s]: the refresh_tokens row
  state,       \* state[x]: an entry of the in-memory stateStore
  stage,       \* stage[r]: the await request r is suspended at
  ctx,         \* ctx[r]: the local variables of r's handler
  faults,      \* restarts and failed statements so far
  workload     \* the operations of this behaviour; never changes

\* resets and halfReset are history: how often the password was reset, and
\* whether a reset stopped after writing the password.
NoAccount ==
  [status |-> "absent", email |-> None, verified |-> FALSE, identity |-> None,
   resets |-> 0, halfReset |-> FALSE]

Types == {"email_verification", "password_reset"}

\* "unused" is "expired" once expiresAt has passed with usedAt still null.
NoToken == [status |-> "absent", user |-> None, type |-> None]

\* resets is history: the account's when the credential was read that the
\* session goes back to; late, that a reset had been written since.
NoSession ==
  [status |-> "absent", user |-> None, resets |-> 0, late |-> FALSE]

Blank ==
  [user |-> None, email |-> None, identity |-> None, type |-> None,
   token |-> None, session |-> None, row |-> None, resets |-> 0]

Stages ==
  {"idle", "create", "invalidate", "insert", "verify", "markUsed", "rename",
   "password", "revokeAll", "rotate", "grant", "findIdentity", "findEmail",
   "link", "createOAuth", "createRequest", "cancel", "forceDelete"}

Live(u) == account[u].status = "live"

Home ==
  CHOOSE f \in [Existing -> Emails] : \A u, v \in Existing : f[u] = f[v] => u = v

AccountsInit ==
  /\ account = [u \in Users |->
                  IF u \in Existing
                  THEN [NoAccount EXCEPT !.status = "live", !.verified = TRUE,
                                         !.email = Home[u]]
                  ELSE NoAccount]
  /\ token = [k \in Tokens |-> NoToken]
  /\ session = [s \in Sessions |-> NoSession]
  /\ state = [x \in States |-> "absent"]
  /\ stage = [r \in Requests |-> "idle"]
  /\ ctx = [r \in Requests |-> Blank]
  /\ faults = 0
  /\ workload \in Workloads

-----------------------------------------------------------------------------
(* Stepping a request.                                                     *)

At(r, s) == stage[r] = s

\* Request r of a kind this workload has arrives, and runs up to await s.
Arrive(r, op, locals, s) ==
  /\ op \in workload
  /\ At(r, "idle")
  /\ stage' = [stage EXCEPT ![r] = s]
  /\ ctx' = [ctx EXCEPT ![r] = locals]

Goto(r, s) ==
  /\ stage' = [stage EXCEPT ![r] = s]
  /\ UNCHANGED ctx

GotoWith(r, s, locals) ==
  /\ stage' = [stage EXCEPT ![r] = s]
  /\ ctx' = [ctx EXCEPT ![r] = locals]

\* The handler returned or threw.
Finish(r) == GotoWith(r, "idle", Blank)

\* The accounts findByEmail may return: at most one, by the unique index.
Owner(e) == {u \in Users : Live(u) /\ account[u].email = e}

Holders(p) == {u \in Users : Live(u) /\ account[u].identity = p}

\* Rows are inserted in a fixed order: nothing depends on which is next.
Unborn == {u \in Users : account[u].status = "absent"}
NextUser == CHOOSE u \in Unborn : TRUE

-----------------------------------------------------------------------------
(* Registration, by a client or by an administrator.                       *)

RegisterFind(r, e) ==
  /\ Owner(e) = {}
  /\ Arrive(r, "register", [Blank EXCEPT !.email = e], "create")
  /\ UNCHANGED <<account, token, session, state, faults, workload>>

\* The unique index on the address refuses the insert of the slower of two.
\* The verification mail follows, awaited or not.
CreateUser(r) ==
  /\ At(r, "create")
  /\ IF Owner(ctx[r].email) # {}
     THEN Finish(r) /\ UNCHANGED account
     ELSE /\ Unborn # {}
          /\ account' = [account EXCEPT ![NextUser] =
                           [NoAccount EXCEPT !.status = "live",
                                             !.email = ctx[r].email]]
          /\ GotoWith(r, "invalidate",
                      [ctx[r] EXCEPT !.user = NextUser,
                                     !.type = "email_verification"])
  /\ UNCHANGED <<token, session, state, faults, workload>>

\* An administrator changes an address: looked up first, but not its own.
RenameFind(r, u, e) ==
  /\ account[u].status # "absent"
  /\ Owner(e) \subseteq {u}
  /\ Arrive(r, "rename", [Blank EXCEPT !.user = u, !.email = e], "rename")
  /\ UNCHANGED <<account, token, session, state, faults, workload>>

\* A row deleted meanwhile is a 404, an address taken meanwhile an error of
\* the unique index.  isVerified stays.
RenameWrite(r) ==
  /\ At(r, "rename")
  /\ IF Live(ctx[r].user) /\ Owner(ctx[r].email) = {}
     THEN account' = [account EXCEPT ![ctx[r].user].email = ctx[r].email]
     ELSE UNCHANGED account
  /\ Finish(r)
  /\ UNCHANGED <<token, session, state, faults, workload>>

\* updateUser with isVerified alone is one statement.
SetVerified(u, flag) ==
  /\ "rename" \in workload
  /\ Live(u)
  /\ account' = [account EXCEPT ![u].verified = flag]
  /\ UNCHANGED <<token, session, state, stage, ctx, faults, workload>>

-----------------------------------------------------------------------------
(* E-mail tokens.                                                          *)

\* Unused rows of the account and type, expired or not.
Outstanding(u, t) ==
  {k \in Tokens : /\ token[k].status \in {"unused", "expired"}
                  /\ token[k].user = u
                  /\ token[k].type = t}

\* Seeded fault: the update asks for the wrong type.
InvalidateOtherType(r) ==
  /\ At(r, "invalidate")
  /\ token' = [k \in Tokens |->
                 IF \E t \in Types \ {ctx[r].type} :
                       k \in Outstanding(ctx[r].user, t)
                 THEN [token[k] EXCEPT !.status = "used"]
                 ELSE token[k]]
  /\ Goto(r, "insert")
  /\ UNCHANGED <<account, session, state, faults, workload>>

\* emailTokenRepository.create, first statement: earlier tokens are used up.
Invalidate(r) ==
  /\ At(r, "invalidate")
  /\ token' = [k \in Tokens |->
                 IF k \in Outstanding(ctx[r].user, ctx[r].type)
                 THEN [token[k] EXCEPT !.status = "used"]
                 ELSE token[k]]
  /\ Goto(r, "insert")
  /\ UNCHANGED <<account, session, state, faults, workload>>

FreshTokens == {k \in Tokens : token[k].status = "absent"}

\* Second statement.  The foreign key refuses a token of a deleted account.
InsertToken(r) ==
  /\ At(r, "insert")
  /\ IF Live(ctx[r].user)
     THEN /\ FreshTokens # {}
          /\ token' = [token EXCEPT ![CHOOSE k \in FreshTokens : TRUE] =
                         [status |-> "unused", user |-> ctx[r].user,
                          type |-> ctx[r].type]]
     ELSE UNCHANGED token
  /\ Finish(r)
  /\ UNCHANGED <<account, session, state, faults, workload>>

\* Seeded fault: findValid lost its condition on usedAt.
ValidUsedOrNot(k, t) ==
  token[k].status \in {"unused", "used"} /\ token[k].type = t

\* findValid
Valid(k, t) == token[k].status = "unused" /\ token[k].type = t

VerifyFind(r, k) ==
  /\ Valid(k, "email_verification")
  /\ Arrive(r, "verify", [Blank EXCEPT !.user = token[k].user, !.token = k,
                                       !.type = "email_verification"], "verify")
  /\ UNCHANGED <<account, token, session, state, faults, workload>>

MarkEmailVerified(r) ==
  /\ At(r, "verify")
  /\ account' = [account EXCEPT ![ctx[r].user].verified = @ \/ Live(ctx[r].user)]
  /\ Goto(r, "markUsed")
  /\ UNCHANGED <<token, session, state, faults, workload>>

\* Seeded fault: a reset is done once its token is used up.
MarkUsedAndDone(r) ==
  /\ At(r, "markUsed")
  /\ token' = [token EXCEPT ![ctx[r].token].status =
                 IF @ = "deleted" THEN @ ELSE "used"]
  /\ Finish(r)
  /\ UNCHANGED <<account, session, state, faults, workload>>

\* An update by id, whatever the row says.  Verifying is done; a reset goes on.
MarkUsed(r) ==
  /\ At(r, "markUsed")
  /\ token' = [token EXCEPT ![ctx[r].token].status =
                 IF @ = "deleted" THEN @ ELSE "used"]
  /\ IF ctx[r].type = "password_reset" THEN Goto(r, "revokeAll") ELSE Finish(r)
  /\ UNCHANGED <<account, session, state, faults, workload>>

TokenExpires(k) ==
  /\ "expire" \in workload
  /\ token[k].status = "unused"
  /\ token' = [token EXCEPT ![k].status = "expired"]
  /\ UNCHANGED <<account, session, state, stage, ctx, faults, workload>>

-----------------------------------------------------------------------------
(* Password reset.                                                         *)

\* A known address gets a token, for an unknown one nothing happens.
ForgotFind(r, u) ==
  /\ Live(u)
  /\ Arrive(r, "forgot", [Blank EXCEPT !.user = u, !.type = "password_reset"],
            "invalidate")
  /\ UNCHANGED <<account, token, session, state, faults, workload>>

ResetFind(r, k) ==
  /\ Valid(k, "password_reset")
  /\ Arrive(r, "reset", [Blank EXCEPT !.user = token[k].user, !.token = k,
                                      !.type = "password_reset"], "password")
  /\ UNCHANGED <<account, token, session, state, faults, workload>>

UpdatePassword(r) ==
  /\ At(r, "password")
  /\ account' = [account EXCEPT ![ctx[r].user].resets =
                   IF Live(ctx[r].user) THEN @ + 1 ELSE @]
  /\ Goto(r, "markUsed")
  /\ UNCHANGED <<token, session, state, faults, workload>>

\* "Force re-login everywhere."
RevokeAllForUser(r) ==
  /\ At(r, "revokeAll")
  /\ session' = [s \in Sessions |->
                   IF session[s].user = ctx[r].user /\ session[s].status = "active"
                   THEN [session[s] EXCEPT !.status = "revoked"]
                   ELSE session[s]]
  /\ Finish(r)
  /\ UNCHANGED <<account, token, state, faults, workload>>

-----------------------------------------------------------------------------
(* Sessions.                                                               *)

\* The row is read once; the address must be verified and the password right.
LoginRead(r, u) ==
  /\ Live(u)
  /\ account[u].verified
  /\ Arrive(r, "login", [Blank EXCEPT !.user = u, !.resets = account[u].resets],
            "grant")
  /\ UNCHANGED <<account, token, session, state, faults, workload>>

\* A refresh goes back to the credential its session goes back to.
RefreshFind(r, s) ==
  /\ session[s].status = "active"
  /\ Arrive(r, "refresh", [Blank EXCEPT !.user = session[s].user, !.session = s,
                                        !.resets = session[s].resets], "rotate")
  /\ UNCHANGED <<account, token, session, state, faults, workload>>

RefreshRevoke(r) ==
  /\ At(r, "rotate")
  /\ session' = [session EXCEPT ![ctx[r].session].status =
                   IF @ = "deleted" THEN @ ELSE "revoked"]
  /\ Goto(r, "grant")
  /\ UNCHANGED <<account, token, state, faults, workload>>

FreshSessions == {s \in Sessions : session[s].status = "absent"}

\* The foreign key refuses a session of a deleted account.
Grant(r) ==
  /\ At(r, "grant")
  /\ LET u == ctx[r].user
     IN  IF Live(u)
         THEN /\ FreshSessions # {}
              /\ session' = [session EXCEPT
                               ![CHOOSE s \in FreshSessions : TRUE] =
                                 [status |-> "active", user |-> u,
                                  resets |-> ctx[r].resets,
                                  late |-> ctx[r].resets < account[u].resets]]
         ELSE UNCHANGED session
  /\ Finish(r)
  /\ UNCHANGED <<account, token, state, faults, workload>>

-----------------------------------------------------------------------------
(* OAuth login.                                                            *)

OAuthBegin(x) ==
  /\ "oauth" \in workload
  /\ state[x] = "absent"
  /\ state' = [state EXCEPT ![x] = "pending"]
  /\ UNCHANGED <<account, token, session, stage, ctx, faults, workload>>

StateLapses(x) ==
  /\ "expire" \in workload
  /\ state[x] = "pending"
  /\ state' = [state EXCEPT ![x] = "lapsed"]
  /\ UNCHANGED <<account, token, session, stage, ctx, faults, workload>>

\* The timer of five minutes removes what has lapsed.
CleanStates ==
  /\ \E x \in States : state[x] = "lapsed"
  /\ state' = [x \in States |-> IF state[x] = "lapsed" THEN "absent" ELSE state[x]]
  /\ UNCHANGED <<account, token, session, stage, ctx, faults, workload>>

\* The state value is taken out, lapsed or not.  The provider then says who
\* it is and, as of now, by which address.
OAuthCallback(r, x, p, e) ==
  /\ state[x] # "absent"
  /\ Arrive(r, "oauth", [Blank EXCEPT !.identity = p, !.email = e], "findIdentity")
  /\ state' = [state EXCEPT ![x] = "absent"]
  /\ UNCHANGED <<account, token, session, faults, workload>>

\* Seeded fault: the identity is found only while its address is unchanged.
FindIdentityByEmail(r) ==
  /\ At(r, "findIdentity")
  /\ LET found == Holders(ctx[r].identity) \cap Owner(ctx[r].email)
     IN  IF found = {}
         THEN Goto(r, "findEmail")
         ELSE \E u \in found :
                GotoWith(r, "grant", [ctx[r] EXCEPT !.user = u,
                                        !.resets = account[u].resets])
  /\ UNCHANGED <<account, token, session, state, faults, workload>>

\* findByOAuthId
FindIdentity(r) ==
  /\ At(r, "findIdentity")
  /\ LET found == Holders(ctx[r].identity)
     IN  IF found = {}
         THEN Goto(r, "findEmail")
         ELSE \E u \in found :
                GotoWith(r, "grant", [ctx[r] EXCEPT !.user = u,
                                        !.resets = account[u].resets])
  /\ UNCHANGED <<account, token, session, state, faults, workload>>

FindEmail(r) ==
  /\ At(r, "findEmail")
  /\ IF Owner(ctx[r].email) = {}
     THEN Goto(r, "createOAuth")
     ELSE \E u \in Owner(ctx[r].email) :
            GotoWith(r, "link", [ctx[r] EXCEPT !.user = u])
  /\ UNCHANGED <<account, token, session, state, faults, workload>>

\* linkOAuth overwrites the identity the account had.  The row is then read.
LinkOAuth(r) ==
  /\ At(r, "link")
  /\ LET u == ctx[r].user
     IN  IF Live(u)
         THEN /\ account' = [account EXCEPT ![u].identity = ctx[r].identity]
              /\ GotoWith(r, "grant",
                          [ctx[r] EXCEPT !.resets = account[u].resets])
         ELSE Finish(r) /\ UNCHANGED account
  /\ UNCHANGED <<token, session, state, faults, workload>>

\* Verified from the start, and without a password.
CreateOAuthUser(r) ==
  /\ At(r, "createOAuth")
  /\ IF Owner(ctx[r].email) # {}
     THEN Finish(r) /\ UNCHANGED account
     ELSE /\ Unborn # {}
          /\ account' = [account EXCEPT ![NextUser] =
                           [NoAccount EXCEPT !.status = "live",
                                             !.verified = TRUE,
                                             !.email = ctx[r].email,
                                             !.identity = ctx[r].identity]]
          /\ GotoWith(r, "grant", [ctx[r] EXCEPT !.user = NextUser])
  /\ UNCHANGED <<token, session, state, faults, workload>>

-----------------------------------------------------------------------------
(* Failure.                                                                *)

\* What is left behind by requests that stop where they are.
Stopped(S) ==
  account' = [u \in Users |->
                [account[u] EXCEPT
                   !.halfReset = @ \/ \E r \in S :
                     /\ ctx[r].user = u
                     /\ \/ At(r, "revokeAll")
                        \/ At(r, "markUsed") /\ ctx[r].type = "password_reset"]]

\* A statement fails: the handler throws.
Abort(r) ==
  /\ "stop" \in workload
  /\ ~At(r, "idle")
  /\ faults < MaxFaults
  /\ faults' = faults + 1
  /\ Stopped({r})
  /\ Finish(r)
  /\ UNCHANGED <<token, session, state, workload>>

-----------------------------------------------------------------------------
(* The steps of one request, to be composed by AccountDeletion.            *)

RequestSteps(r) ==
  \/ \E e \in Emails : RegisterFind(r, e)
  \/ \E u \in Users, e \in Emails : RenameFind(r, u, e)
  \/ CreateUser(r) \/ RenameWrite(r)
  \/ Invalidate(r) \/ InsertToken(r)
  \/ \E k \in Tokens : VerifyFind(r, k) \/ ResetFind(r, k)
  \/ MarkEmailVerified(r) \/ MarkUsed(r)
  \/ \E u \in Users : ForgotFind(r, u) \/ LoginRead(r, u)
  \/ UpdatePassword(r) \/ RevokeAllForUser(r)
  \/ \E s \in Sessions : RefreshFind(r, s)
  \/ RefreshRevoke(r) \/ Grant(r)
  \/ \E x \in States, p \in Identities, e \in Emails : OAuthCallback(r, x, p, e)
  \/ FindIdentity(r) \/ FindEmail(r) \/ LinkOAuth(r) \/ CreateOAuthUser(r)
  \/ Abort(r)

OtherSteps ==
  \/ \E u \in Users, flag \in BOOLEAN : SetVerified(u, flag)
  \/ \E k \in Tokens : TokenExpires(k)
  \/ \E x \in States : OAuthBegin(x) \/ StateLapses(x)
  \/ CleanStates

-----------------------------------------------------------------------------
(* Correctness.                                                            *)

\* Types, and what the schema promises over all handlers: an address names
\* one account, and the tokens and sessions on record belong to accounts that
\* exist (unique index on users.email; foreign keys that cascade).
TypeOK ==
  /\ account \in [Users ->
       [status : {"absent", "live", "gone"}, email : Emails \cup {None},
        verified : BOOLEAN, identity : Identities \cup {None},
        resets : Nat, halfReset : BOOLEAN]]
  /\ token \in [Tokens ->
       [status : {"absent", "unused", "expired", "used", "deleted"},
        user : Users \cup {None}, type : Types \cup {None}]]
  /\ session \in [Sessions ->
       [status : {"absent", "active", "revoked", "deleted"},
        user : Users \cup {None}, resets : Nat, late : BOOLEAN]]
  /\ state \in [States -> {"absent", "pending", "lapsed"}]
  /\ stage \in [Requests -> Stages]
  /\ ctx \in [Requests ->
       [user : Users \cup {None}, email : Emails \cup {None},
        identity : Identities \cup {None}, type : Types \cup {None},
        token : Tokens \cup {None}, session : Sessions \cup {None},
        row : Deletions \cup {None}, resets : Nat]]
  /\ faults \in 0..MaxFaults
  /\ workload \in Workloads
  /\ \A u, v \in Users : u # v /\ Live(u) /\ Live(v)
                           => account[u].email # account[v].email
  /\ \A k \in Tokens : token[k].status \in {"unused", "expired", "used"}
                         => token[k].user \in Users /\ Live(token[k].user)
  /\ \A s \in Sessions : session[s].status \in {"active", "revoked"}
                           => session[s].user \in Users /\ Live(session[s].user)

InForce(u, t) ==
  {k \in Tokens : Valid(k, t) /\ token[k].user = u}

Inserting(u, t) ==
  {r \in Requests : At(r, "insert") /\ ctx[r].user = u /\ ctx[r].type = t}

\* emailTokenRepository.create invalidates the earlier tokens and then inserts
\* the new one.  One token is in force unless requests overlap, and never more
\* than requests that overlapped.
TokensInForceBounded ==
  \A u \in Users, t \in Types :
    Cardinality(InForce(u, t)) + Cardinality(Inserting(u, t))
      <= Cardinality(Requests)

Spent(k) ==
  /\ token[k].status \in {"used", "expired", "deleted"}
  /\ \A r \in Requests : ctx[r].token # k

\* A verification or reset link is found by one statement and used up by a
\* later one.  Once it is used up, or has expired, and no request still holds
\* it, nothing is done with it again.
SpentTokenStaysSpent ==
  [][\A k \in Tokens : Spent(k) => Spent(k)']_<<token, ctx>>

Resetting(u) ==
  \E r \in Requests :
    /\ ctx[r].user = u
    /\ \/ At(r, "revokeAll")
       \/ At(r, "markUsed") /\ ctx[r].type = "password_reset"

\* resetPassword ends every session: one that goes back to a credential read
\* before the last reset is active only while that reset has still to revoke,
\* or was stopped before it could, or if the session was stored after the new
\* password was, by a request in flight.
ResetEndsSessions ==
  \A s \in Sessions :
    LET u == session[s].user
    IN  session[s].status = "active" /\ session[s].resets < account[u].resets
          => session[s].late \/ Resetting(u) \/ account[u].halfReset

Undecided(p) ==
  {r \in Requests :
     ctx[r].identity = p /\ stage[r] \in {"findEmail", "link", "createOAuth"}}

\* oauthLogin looks for an identity and only then links or creates an account,
\* and no index makes (oauthProvider, oauthId) unique.  An identity belongs to
\* one account unless callbacks overlap, and to no more than overlapped.
IdentitiesBounded ==
  \A p \in Identities :
    Cardinality(Holders(p)) + Cardinality(Undecided(p)) <= Cardinality(Requests)
=============================================================================

---------------------------- MODULE AuthSessions -----------------------------
(***************************************************************************)
(* Accounts, sessions and the requests that race over them: password       *)
(* login with lockout, the MFA gate, OAuth login, refresh-token rotation,  *)
(* logout, session revocation, switching organization, and an              *)
(* administrator disabling and enabling an account.                        *)
(*                                                                         *)
(* The server is one Node process: a handler runs alone between two        *)
(* awaits and anything may run at an await.  PostgreSQL and Redis calls    *)
(* are single statements outside a transaction.  So one action here is the *)
(* code between two awaits on shared state, and what a handler read before *)
(* an await stays in ctx[r], however stale.  Logging, auditing, metrics    *)
(* and webhook fan-out are fire and forget and left out.                   *)
(***************************************************************************)
EXTENDS Integers, FiniteSets

CONSTANTS
  Users,        \* accounts; rows of the users table
  Verified,     \* those whose e-mail address is verified
  Tokens,       \* refresh-token rows that may be inserted
  Challenges,   \* MFA challenge keys that may be set in Redis
  Requests,     \* requests in flight at once
  MaxAttempts,  \* failed logins before the account is locked (5 in the code)
  Workload,     \* the operations clients and administrators perform
  None          \* SQL null, and "not there" in a request's context

ASSUME NoneIsNothing == None \notin Users \cup Tokens \cup Challenges
ASSUME VerifiedAreUsers == Verified \subseteq Users
ASSUME MaxAttemptsIsPositive == MaxAttempts \in Nat \ {0}

VARIABLES
  account,    \* account[u]: the users row: failed, lock, disabled
  session,    \* session[t]: the refresh_tokens row, and what it was issued for
  blocklist,  \* accounts with a blocklist:user:<id> key in Redis
  challenge,  \* challenge[c]: an mfa:challenge:<hash> key in Redis
  stage,      \* stage[r]: the await request r is suspended at
  ctx         \* ctx[r]: the local variables of r's handler

vars == <<account, session, blocklist, challenge, stage, ctx>>

\* isLocked with lockedUntil in the future is "live"; once it is past, "expired".
LockStates == {"none", "live", "expired"}

\* A row not revoked is "active" until expiresAt, then "expired".
SessionStates == {"absent", "active", "expired", "revoked"}

NoSession ==
  [state |-> "absent", user |-> None, parent |-> None, challenge |-> None]

Blank ==
  [op |-> "none", user |-> None, token |-> None, challenge |-> None,
   failed |-> 0, disabled |-> FALSE]

Stages ==
  {"idle", "unlock", "password", "lock", "gate", "code", "account", "rotate",
   "grant", "reset", "switch", "revoke", "disable", "block", "unblock"}

Operations ==
  {"none", "login", "oauth", "mfa", "refresh", "logout", "switch", "admin"}

Init ==
  /\ account = [u \in Users |->
                  [failed |-> 0, lock |-> "none", disabled |-> FALSE]]
  /\ session = [t \in Tokens |-> NoSession]
  /\ blocklist = {}
  /\ challenge = [c \in Challenges |-> [state |-> "absent", user |-> None]]
  /\ stage = [r \in Requests |-> "idle"]
  /\ ctx = [r \in Requests |-> Blank]

-----------------------------------------------------------------------------
(* Stepping a request.                                                     *)

At(r, s) == stage[r] = s

\* Request r arrives: its handler runs op for the account u up to await s.
Arrive(r, op, u, s) ==
  /\ stage[r] = "idle"
  /\ stage' = [stage EXCEPT ![r] = s]
  /\ ctx' = [ctx EXCEPT ![r] = [Blank EXCEPT !.op = op, !.user = u]]

Goto(r, s) ==
  /\ stage' = [stage EXCEPT ![r] = s]
  /\ UNCHANGED ctx

\* The handler returned or threw.
Finish(r) ==
  /\ stage' = [stage EXCEPT ![r] = "idle"]
  /\ ctx' = [ctx EXCEPT ![r] = Blank]

-----------------------------------------------------------------------------
(* The statements of the user and token repositories.                      *)

\* resetFailedAttempts
ResetFailedAttempts(u) ==
  account' = [account EXCEPT ![u].failed = 0, ![u].lock = "none"]

\* findByHash finds rows with no revokedAt, expired or not.
Unrevoked(t) == session[t].state \in {"active", "expired"}

\* revoke is an update by id: it does not look at revokedAt.
Revoke(t) == session' = [session EXCEPT ![t].state = "revoked"]

\* Seeded fault: the update lost its user_id condition.
RevokeAllForEveryone(u) ==
  session' = [t \in Tokens |->
                IF u \in Users /\ Unrevoked(t)
                THEN [session[t] EXCEPT !.state = "revoked"]
                ELSE session[t]]

\* revokeAllForUser
RevokeAllForUser(u) ==
  session' = [t \in Tokens |->
                IF session[t].user = u /\ Unrevoked(t)
                THEN [session[t] EXCEPT !.state = "revoked"]
                ELSE session[t]]

\* authenticate on a JWT: the caller once had a session, and no blocklist
\* key names it.  A JWT is not tied to the session it was issued with.  While
\* Redis is unreachable the blocklist test fails open.
Authenticated(u) ==
  /\ \E t \in Tokens : session[t].user = u
  /\ u \in blocklist => "outage" \in Workload

-----------------------------------------------------------------------------
(* Password login.                                                         *)

\* The users row is read once; isLocked and lockedUntil are tested at once,
\* failedAttempts and isDisabled only after the password is verified.  A live
\* lock, or an unverified address on an unlocked account, is refused here.
LoginRead(r, u) ==
  /\ "login" \in Workload
  /\ stage[r] = "idle"
  /\ \/ account[u].lock = "expired"
     \/ account[u].lock = "none" /\ u \in Verified
  /\ stage' = [stage EXCEPT ![r] = IF account[u].lock = "expired"
                                   THEN "unlock" ELSE "password"]
  /\ ctx' = [ctx EXCEPT ![r] =
               [Blank EXCEPT !.op = "login", !.user = u,
                             !.failed = account[u].failed,
                             !.disabled = account[u].disabled]]
  /\ UNCHANGED <<account, session, blocklist, challenge>>

\* The lock had expired when the row was read: reset it, then test isVerified.
LoginUnlock(r) ==
  /\ At(r, "unlock")
  /\ ResetFailedAttempts(ctx[r].user)
  /\ IF ctx[r].user \in Verified THEN Goto(r, "password") ELSE Finish(r)
  /\ UNCHANGED <<session, blocklist, challenge>>

\* Seeded fault: the limit is compared with > instead of >=.
LoginWrongOffByOne(r) ==
  /\ "guess" \in Workload
  /\ At(r, "password")
  /\ account' = [account EXCEPT ![ctx[r].user].failed = @ + 1]
  /\ IF ctx[r].failed + 1 > MaxAttempts THEN Goto(r, "lock") ELSE Finish(r)
  /\ UNCHANGED <<session, blocklist, challenge>>

\* A wrong password: the row is incremented, but whether to lock is decided
\* on the count read before.
LoginWrong(r) ==
  /\ "guess" \in Workload
  /\ At(r, "password")
  /\ account' = [account EXCEPT ![ctx[r].user].failed = @ + 1]
  /\ IF ctx[r].failed + 1 >= MaxAttempts THEN Goto(r, "lock") ELSE Finish(r)
  /\ UNCHANGED <<session, blocklist, challenge>>

LoginLock(r) ==
  /\ At(r, "lock")
  /\ account' = [account EXCEPT ![ctx[r].user].lock = "live"]
  /\ Finish(r)
  /\ UNCHANGED <<session, blocklist, challenge>>

\* The right password: a disabled account is refused, on what was read before.
LoginRight(r) ==
  /\ At(r, "password")
  /\ IF ctx[r].disabled THEN Finish(r) ELSE Goto(r, "gate")
  /\ UNCHANGED <<account, session, blocklist, challenge>>

-----------------------------------------------------------------------------
(* OAuth login of an existing account: only isDisabled is tested.          *)

OAuthRead(r, u) ==
  /\ "oauth" \in Workload
  /\ ~account[u].disabled
  /\ Arrive(r, "oauth", u, "gate")
  /\ UNCHANGED <<account, session, blocklist, challenge>>

-----------------------------------------------------------------------------
(* The MFA gate.  Whether MFA is enabled, and whether a code is right, is   *)
(* state of the MFA tables: either answer is possible here.                *)

GateChallenge(r, c) ==
  /\ At(r, "gate")
  /\ challenge[c].state = "absent"
  /\ challenge' = [challenge EXCEPT
                     ![c] = [state |-> "open", user |-> ctx[r].user]]
  /\ Finish(r)
  /\ UNCHANGED <<account, session, blocklist>>

GatePass(r) ==
  /\ At(r, "gate")
  /\ Goto(r, "grant")
  /\ UNCHANGED <<account, session, blocklist, challenge>>

\* Seeded fault: GET instead of GETDEL, the key is left to expire.
MfaTakeByGet(r, c) ==
  /\ "mfa" \in Workload
  /\ stage[r] = "idle"
  /\ challenge[c].state = "open"
  /\ stage' = [stage EXCEPT ![r] = "code"]
  /\ ctx' = [ctx EXCEPT ![r] =
               [Blank EXCEPT !.op = "mfa", !.user = challenge[c].user,
                             !.challenge = c]]
  /\ UNCHANGED <<account, session, blocklist, challenge>>

\* GETDEL: the challenge is read and deleted in one Redis command.
MfaTake(r, c) ==
  /\ "mfa" \in Workload
  /\ stage[r] = "idle"
  /\ challenge[c].state = "open"
  /\ challenge' = [challenge EXCEPT ![c].state = "gone"]
  /\ stage' = [stage EXCEPT ![r] = "code"]
  /\ ctx' = [ctx EXCEPT ![r] =
               [Blank EXCEPT !.op = "mfa", !.user = challenge[c].user,
                             !.challenge = c]]
  /\ UNCHANGED <<account, session, blocklist>>

MfaRightCode(r) ==
  /\ At(r, "code")
  /\ Goto(r, "account")
  /\ UNCHANGED <<account, session, blocklist, challenge>>

\* Seeded fault: only the lock is tested again.
MfaAccountDisabledNotTested(r) ==
  /\ At(r, "account")
  /\ IF account[ctx[r].user].lock = "live"
     THEN Finish(r) ELSE Goto(r, "grant")
  /\ UNCHANGED <<account, session, blocklist, challenge>>

\* Seeded fault: only isDisabled is tested again.
MfaAccountLockNotTested(r) ==
  /\ At(r, "account")
  /\ IF account[ctx[r].user].disabled
     THEN Finish(r) ELSE Goto(r, "grant")
  /\ UNCHANGED <<account, session, blocklist, challenge>>

\* The row is read again: the account may have been disabled or locked since.
MfaAccount(r) ==
  /\ At(r, "account")
  /\ LET row == account[ctx[r].user]
     IN  IF row.disabled \/ row.lock = "live"
         THEN Finish(r) ELSE Goto(r, "grant")
  /\ UNCHANGED <<account, session, blocklist, challenge>>

-----------------------------------------------------------------------------
(* Issuing a session.                                                      *)

\* tokenRepository.create.  A login by password or MFA code then resets the
\* failed attempts; the other operations are done.
Grant(r, t) ==
  /\ At(r, "grant")
  /\ session[t].state = "absent"
  /\ session' = [session EXCEPT
                   ![t] = [state |-> "active", user |-> ctx[r].user,
                           parent |-> ctx[r].token,
                           challenge |-> ctx[r].challenge]]
  /\ IF ctx[r].op \in {"login", "mfa"} THEN Goto(r, "reset") ELSE Finish(r)
  /\ UNCHANGED <<account, blocklist, challenge>>

GrantReset(r) ==
  /\ At(r, "reset")
  /\ ResetFailedAttempts(ctx[r].user)
  /\ Finish(r)
  /\ UNCHANGED <<session, blocklist, challenge>>

-----------------------------------------------------------------------------
(* Rotation: the presented token is looked up, revoked, then replaced.     *)
(* Neither isDisabled nor the lock is tested.                              *)

RefreshFind(r, t) ==
  /\ "refresh" \in Workload
  /\ stage[r] = "idle"
  /\ session[t].state = "active"
  /\ stage' = [stage EXCEPT ![r] = "rotate"]
  /\ ctx' = [ctx EXCEPT ![r] =
               [Blank EXCEPT !.op = "refresh", !.user = session[t].user,
                             !.token = t]]
  /\ UNCHANGED <<account, session, blocklist, challenge>>

\* Seeded fault: the replacement is issued without revoking the old token.
RefreshKeepsOldToken(r) ==
  /\ At(r, "rotate")
  /\ Goto(r, "grant")
  /\ UNCHANGED <<account, session, blocklist, challenge>>

RefreshRevoke(r) ==
  /\ At(r, "rotate")
  /\ Revoke(ctx[r].token)
  /\ Goto(r, "grant")
  /\ UNCHANGED <<account, blocklist, challenge>>

-----------------------------------------------------------------------------
(* Switching organization: authenticate lets the caller in, and after the  *)
(* membership check and the write of activeOrgId a session is issued.      *)

SwitchArrive(r, u) ==
  /\ "switch" \in Workload
  /\ Authenticated(u)
  /\ Arrive(r, "switch", u, "switch")
  /\ UNCHANGED <<account, session, blocklist, challenge>>

SwitchMember(r) ==
  /\ At(r, "switch")
  /\ Goto(r, "grant")
  /\ UNCHANGED <<account, session, blocklist, challenge>>

-----------------------------------------------------------------------------
(* Ending sessions.                                                        *)

\* logout and revokeSession find one row and then revoke it by id.  Logout
\* takes any unrevoked row, which includes those revokeSession takes: the
\* caller's own that have not expired.
LogoutFind(r, u, t) ==
  /\ "logout" \in Workload
  /\ Authenticated(u)
  /\ Unrevoked(t)
  /\ stage[r] = "idle"
  /\ stage' = [stage EXCEPT ![r] = "revoke"]
  /\ ctx' = [ctx EXCEPT ![r] =
               [Blank EXCEPT !.op = "logout", !.user = u, !.token = t]]
  /\ UNCHANGED <<account, session, blocklist, challenge>>

LogoutRevoke(r) ==
  /\ At(r, "revoke")
  /\ Revoke(ctx[r].token)
  /\ Finish(r)
  /\ UNCHANGED <<account, blocklist, challenge>>

\* "Sign out everywhere", by the user or by an administrator.
RevokeAll(u) ==
  /\ "revokeAll" \in Workload
  /\ RevokeAllForUser(u)
  /\ UNCHANGED <<account, blocklist, challenge, stage, ctx>>

-----------------------------------------------------------------------------
(* An administrator disables an account in three writes, and enables it in *)
(* two.  Any number of administrators act at once.                         *)

DisableFlag(r, u) ==
  /\ "disable" \in Workload
  /\ account' = [account EXCEPT ![u].disabled = TRUE]
  /\ Arrive(r, "admin", u, "disable")
  /\ UNCHANGED <<session, blocklist, challenge>>

DisableRevoke(r) ==
  /\ At(r, "disable")
  /\ RevokeAllForUser(ctx[r].user)
  /\ Goto(r, "block")
  /\ UNCHANGED <<account, blocklist, challenge>>

\* Seeded fault: the key is named after the wrong id.
DisableBlockWrongId(r) ==
  /\ At(r, "block")
  /\ blocklist' = blocklist \cup {ctx[r].token}
  /\ Finish(r)
  /\ UNCHANGED <<account, session, challenge>>

DisableBlock(r) ==
  /\ At(r, "block")
  /\ blocklist' = blocklist \cup {ctx[r].user}
  /\ Finish(r)
  /\ UNCHANGED <<account, session, challenge>>

EnableFlag(r, u) ==
  /\ "enable" \in Workload
  /\ account' = [account EXCEPT ![u].disabled = FALSE]
  /\ Arrive(r, "admin", u, "unblock")
  /\ UNCHANGED <<session, blocklist, challenge>>

EnableUnblock(r) ==
  /\ At(r, "unblock")
  /\ blocklist' = blocklist \ {ctx[r].user}
  /\ Finish(r)
  /\ UNCHANGED <<account, session, challenge>>

-----------------------------------------------------------------------------
(* Time and failure.                                                       *)

\* A handler stops at an await: a query or Redis call failed, the code was
\* wrong, the row it looked for is gone, or the process was restarted.
Abort(r) ==
  /\ "abort" \in Workload
  /\ stage[r] # "idle"
  /\ Finish(r)
  /\ UNCHANGED <<account, session, blocklist, challenge>>

LockExpires(u) ==
  /\ "expiry" \in Workload
  /\ account[u].lock = "live"
  /\ account' = [account EXCEPT ![u].lock = "expired"]
  /\ UNCHANGED <<session, blocklist, challenge, stage, ctx>>

SessionExpires(t) ==
  /\ "expiry" \in Workload
  /\ session[t].state = "active"
  /\ session' = [session EXCEPT ![t].state = "expired"]
  /\ UNCHANGED <<account, blocklist, challenge, stage, ctx>>

ChallengeExpires(c) ==
  /\ "expiry" \in Workload
  /\ challenge[c].state = "open"
  /\ challenge' = [challenge EXCEPT ![c].state = "gone"]
  /\ UNCHANGED <<account, session, blocklist, stage, ctx>>

\* BLOCKLIST_TTL_SECONDS
BlocklistExpires(u) ==
  /\ "expiry" \in Workload
  /\ u \in blocklist
  /\ blocklist' = blocklist \ {u}
  /\ UNCHANGED <<account, session, challenge, stage, ctx>>

-----------------------------------------------------------------------------
LoginStep(r) ==
  \/ \E u \in Users : LoginRead(r, u)
  \/ LoginUnlock(r)
  \/ LoginWrong(r)
  \/ LoginLock(r)
  \/ LoginRight(r)
  \/ \E u \in Users : OAuthRead(r, u)

GateStep(r) ==
  \/ \E c \in Challenges : GateChallenge(r, c)
  \/ GatePass(r)
  \/ \E c \in Challenges : MfaTake(r, c)
  \/ MfaRightCode(r)
  \/ MfaAccount(r)

GrantStep(r) ==
  \/ \E t \in Tokens : Grant(r, t)
  \/ GrantReset(r)
  \/ \E t \in Tokens : RefreshFind(r, t)
  \/ RefreshRevoke(r)
  \/ \E u \in Users : SwitchArrive(r, u)
  \/ SwitchMember(r)

EndStep(r) ==
  \/ \E u \in Users, t \in Tokens : LogoutFind(r, u, t)
  \/ LogoutRevoke(r)

AdminStep(r) ==
  \/ \E u \in Users : DisableFlag(r, u)
  \/ DisableRevoke(r)
  \/ DisableBlock(r)
  \/ \E u \in Users : EnableFlag(r, u)
  \/ EnableUnblock(r)

Environment ==
  \/ \E r \in Requests : Abort(r)
  \/ \E u \in Users : RevokeAll(u)
  \/ \E u \in Users : LockExpires(u)
  \/ \E t \in Tokens : SessionExpires(t)
  \/ \E c \in Challenges : ChallengeExpires(c)
  \/ \E u \in Users : BlocklistExpires(u)

Next ==
  \/ \E r \in Requests : \/ LoginStep(r)
                         \/ GateStep(r)
                         \/ GrantStep(r)
                         \/ EndStep(r)
                         \/ AdminStep(r)
  \/ Environment

Spec == Init /\ [][Next]_vars

-----------------------------------------------------------------------------
(* Properties.                                                             *)

\* Every variable has its type.
TypeOK ==
  /\ account \in [Users -> [failed : Nat, lock : LockStates,
                            disabled : BOOLEAN]]
  /\ session \in [Tokens -> [state : SessionStates,
                             user : Users \cup {None},
                             parent : Tokens \cup {None},
                             challenge : Challenges \cup {None}]]
  /\ blocklist \subseteq Users
  /\ challenge \in [Challenges -> [state : {"absent", "open", "gone"},
                                   user : Users \cup {None}]]
  /\ stage \in [Requests -> Stages]
  /\ ctx \in [Requests -> [op : Operations, user : Users \cup {None},
                           token : Tokens \cup {None},
                           challenge : Challenges \cup {None},
                           failed : Nat, disabled : BOOLEAN]]

\* Rotation never leaves both halves of a pair usable: a session issued by a
\* refresh belongs to the account of the token presented, and that token is
\* revoked for good before the new one exists (auth.service refreshTokens,
\* "Revoke old token immediately").
RotationRetiresParent ==
  \A t \in Tokens :
    session[t].parent # None =>
      /\ session[session[t].parent].state = "revoked"
      /\ session[session[t].parent].user = session[t].user

\* One MFA challenge yields at most one session, however many requests
\* present it (auth.service verifyMfaAndLogin, "breaking the single-use
\* guarantee"), and that session is the challenged account's.
ChallengeSingleUse ==
  \A t \in Tokens :
    session[t].challenge # None =>
      /\ session[t].user = challenge[session[t].challenge].user
      /\ \A t2 \in Tokens :
           session[t2].challenge = session[t].challenge => t2 = t

\* How far concurrency can push wrong guesses past the limit: every request
\* in flight may read the count just below the limit and not lock, and each
\* may then read it at the limit before one of them locks.  With one request
\* at a time this is exactly MaxAttempts.
GuessesBounded ==
  \A u \in Users :
    account[u].failed <= MaxAttempts - 2 + 2 * Cardinality(Requests)

\* A disabled account is sealed once no session of it is active, Redis blocks
\* it, and no request in flight has passed the test of isDisabled.
Sealed(u) ==
  /\ account[u].disabled
  /\ u \in blocklist
  /\ \A t \in Tokens : session[t].user = u => session[t].state # "active"
  /\ \A r \in Requests :
       ctx[r].user = u =>
         /\ stage[r] \notin {"gate", "rotate", "grant", "switch"}
         /\ stage[r] \in {"unlock", "password"} => ctx[r].disabled

\* The seal holds until an administrator enables the account or the blocklist
\* key lapses: no login, MFA challenge already out, OAuth login, refresh or
\* switch of organization issues a session to it.
DisableHolds ==
  [][\A u \in Users :
       Sealed(u) /\ account'[u].disabled /\ u \in blocklist' => Sealed(u)']_vars

\* The logins and MFA verifications in flight that have passed the test of the
\* lock.
Past(u) ==
  {r \in Requests :
     /\ ctx[r].user = u
     /\ \/ ctx[r].op = "login" /\ stage[r] # "lock"
        \/ ctx[r].op = "mfa" /\ stage[r] \notin {"code", "account"}}

\* While an account's lock is live no further login or MFA verification gets
\* past it, whatever challenge it holds, and only its expiry or the reset of a
\* request that had got past before takes it away (auth.service login, "Check if
\* account is locked", and verifyMfaLogin, "an admin could disable or lock the
\* account between challenge issuance and this verification").  OAuth
\* login and refresh do not test the lock, and do not clear it.
LockHolds ==
  [][\A u \in Users :
       account[u].lock = "live" =>
         \/ account'[u].lock = "expired"
         \/ /\ Past(u)' \subseteq Past(u)
            /\ \/ account'[u].lock = "live"
               \/ \E r \in Past(u) : /\ stage[r] \in {"unlock", "reset"}
                                     /\ stage'[r] # stage[r]]_vars

\* The refresh_tokens table implements the session ledger.
Ledger == INSTANCE SessionLedger WITH
  status <- [t \in Tokens |-> CASE session[t].state = "absent" -> "absent"
                                [] session[t].state = "active" -> "live"
                                [] OTHER -> "ended"],
  owner <- [t \in Tokens |-> session[t].user]

ImplementsLedger == Ledger!Spec

-----------------------------------------------------------------------------
(* What the documentation says, and the code does not do.                  *)

\* SECURITY.md: "Single-use rotation"; README.md: "Single-use refresh
\* tokens".  A token that was presented once is never exchanged again.
RefreshSingleUse ==
  \A t, t2 \in Tokens :
    session[t].parent # None /\ session[t2].parent = session[t].parent =>
      t2 = t

\* SECURITY.md: "Disabled accounts are blocked at three layers: DB flag, all
\* sessions revoked, Redis blocklist key set".  When no request is in flight,
\* an account with the flag has the other two layers.
DisabledAtThreeLayers ==
  (\A r \in Requests : stage[r] = "idle") =>
    \A u \in Users :
      account[u].disabled =>
        /\ u \in blocklist
        /\ \A t \in Tokens : session[t].user = u => session[t].state # "active"
=============================================================================

------------------------- MODULE AuthSessions_proofs -------------------------
(***************************************************************************)
(* Theorems of AuthSessions, for any sets of accounts, sessions,           *)
(* challenges and requests, any workload and any MaxAttempts.              *)
(***************************************************************************)
EXTENDS AuthSessions, FiniteSetTheorems, TLAPS

-----------------------------------------------------------------------------
(* The type invariant, one part per table, strengthened where a null would *)
(* be dereferenced.                                                        *)

Accounts == [failed : Nat, lock : LockStates, disabled : BOOLEAN]

Sessions == [state : SessionStates, user : Users \cup {None},
             parent : Tokens \cup {None}, challenge : Challenges \cup {None}]

ChallengeKeys == [state : {"absent", "open", "gone"}, user : Users \cup {None}]

Contexts == [op : Operations, user : Users \cup {None},
             token : Tokens \cup {None}, challenge : Challenges \cup {None},
             failed : Nat, disabled : BOOLEAN]

AccountType == account \in [Users -> Accounts]

\* A row that was inserted names an account.
SessionType ==
  /\ session \in [Tokens -> Sessions]
  /\ \A t \in Tokens : session[t].state # "absent" => session[t].user \in Users

\* A challenge that was set names an account.
ChallengeType ==
  /\ challenge \in [Challenges -> ChallengeKeys]
  /\ \A c \in Challenges :
       challenge[c].state # "absent" => challenge[c].user \in Users

\* A request may stand at stage s with the locals c: it works for an account,
\* and one about to revoke has found a row that was inserted.
Fits(s, c, rows) ==
  /\ s # "idle" => c.user \in Users
  /\ s \in {"rotate", "revoke"} =>
       c.token \in Tokens /\ rows[c.token].state # "absent"

RequestType ==
  /\ stage \in [Requests -> Stages]
  /\ ctx \in [Requests -> Contexts]
  /\ \A r \in Requests : Fits(stage[r], ctx[r], session)

TypeInv ==
  /\ AccountType
  /\ SessionType
  /\ blocklist \subseteq Users
  /\ ChallengeType
  /\ RequestType

\* The strengthened invariant contains the one the runs check.
LEMMA TypeInvImpliesTypeOK == TypeInv => TypeOK
BY DEF TypeInv, TypeOK, AccountType, SessionType, ChallengeType, RequestType,
       Accounts, Sessions, ChallengeKeys, Contexts

\* The locals a handler starts with.
LEMMA BlankType == Blank \in Contexts
BY DEF Blank, Contexts, Operations

LEMMA InitType == Init => TypeInv
<1>. SUFFICES ASSUME Init PROVE TypeInv
  OBVIOUS
<1>1. AccountType
  BY DEF Init, AccountType, Accounts, LockStates
<1>2. SessionType
  BY DEF Init, SessionType, Sessions, SessionStates, NoSession
<1>3. blocklist \subseteq Users
  BY DEF Init
<1>4. ChallengeType
  BY DEF Init, ChallengeType, ChallengeKeys
<1>5. RequestType
  BY BlankType DEF Init, RequestType, Stages, Fits
<1>. QED
  BY <1>1, <1>2, <1>3, <1>4, <1>5 DEF TypeInv

-----------------------------------------------------------------------------
(* How the shared helpers preserve the types.                              *)

\* A row that was inserted is never deleted.
RowsStay ==
  \A t \in Tokens : session[t].state # "absent" => session'[t].state # "absent"

\* Moving one request to a stage and locals that fit each other.
LEMMA EnterType ==
  ASSUME RequestType, RowsStay, NEW r \in Requests, NEW s \in Stages,
         NEW c \in Contexts, Fits(s, c, session'),
         stage' = [stage EXCEPT ![r] = s], ctx' = [ctx EXCEPT ![r] = c]
  PROVE  RequestType'
<1>1. stage' \in [Requests -> Stages] /\ ctx' \in [Requests -> Contexts]
  BY DEF RequestType
<1>2. ASSUME NEW q \in Requests PROVE Fits(stage'[q], ctx'[q], session')
  <2>1. CASE q = r
    BY <2>1 DEF RequestType
  <2>2. CASE q # r
    BY <2>2 DEF RequestType, Fits, RowsStay
  <2>. QED
    BY <2>1, <2>2
<1>. QED
  BY <1>1, <1>2 DEF RequestType

LEMMA FinishType ==
  ASSUME RequestType, RowsStay, NEW r \in Requests, Finish(r)
  PROVE  RequestType'
<1>1. Fits("idle", Blank, session') /\ "idle" \in Stages
  BY DEF Fits, Stages
<1>. QED
  BY <1>1, EnterType, BlankType DEF Finish

LEMMA GotoType ==
  ASSUME RequestType, RowsStay, NEW r \in Requests, NEW s \in Stages,
         stage[r] # "idle", s \notin {"rotate", "revoke"}, Goto(r, s)
  PROVE  RequestType'
<1>1. ctx' = [ctx EXCEPT ![r] = ctx[r]] /\ ctx[r] \in Contexts
  BY DEF RequestType, Goto
<1>2. Fits(s, ctx[r], session')
  BY DEF RequestType, Fits
<1>. QED
  BY <1>1, <1>2, EnterType DEF Goto

LEMMA ArriveType ==
  ASSUME RequestType, RowsStay, NEW r \in Requests, NEW u \in Users,
         NEW op \in Operations, NEW s \in Stages,
         s \notin {"rotate", "revoke"}, Arrive(r, op, u, s)
  PROVE  RequestType'
<1> DEFINE c == [Blank EXCEPT !.op = op, !.user = u]
<1>1. c \in Contexts /\ Fits(s, c, session')
  BY DEF Contexts, Blank, Fits
<1>. QED
  BY <1>1, EnterType DEF Arrive

LEMMA ResetFailedAttemptsType ==
  ASSUME AccountType, NEW u \in Users, ResetFailedAttempts(u)
  PROVE  AccountType'
BY DEF AccountType, Accounts, ResetFailedAttempts, LockStates

LEMMA RevokeType ==
  ASSUME SessionType, NEW t \in Tokens, session[t].state # "absent", Revoke(t)
  PROVE  SessionType' /\ RowsStay
BY DEF SessionType, Sessions, SessionStates, Revoke, RowsStay

LEMMA RevokeAllForUserType ==
  ASSUME SessionType, NEW u \in Users, RevokeAllForUser(u)
  PROVE  SessionType' /\ RowsStay
BY DEF RowsStay, SessionType, Sessions, SessionStates, RevokeAllForUser, Unrevoked

\* An action that writes only a request's progress leaves the tables typed.
LEMMA UnchangedTables ==
  ASSUME TypeInv, UNCHANGED <<account, session, blocklist, challenge>>,
         RequestType'
  PROVE  TypeInv'
BY DEF TypeInv, AccountType, SessionType, ChallengeType

LEMMA UnchangedRows == ASSUME UNCHANGED session PROVE RowsStay
BY DEF RowsStay

-----------------------------------------------------------------------------
(* One lemma per group of actions.                                         *)

LEMMA LoginType ==
  ASSUME TypeInv, NEW r \in Requests, LoginStep(r)
  PROVE  TypeInv'
<1>1. ASSUME NEW u \in Users, LoginRead(r, u) PROVE TypeInv'
  <2>1. RequestType'
    <3> DEFINE s == IF account[u].lock = "expired" THEN "unlock" ELSE "password"
               c == [Blank EXCEPT !.op = "login", !.user = u,
                                  !.failed = account[u].failed,
                                  !.disabled = account[u].disabled]
    <3>1. s \in Stages /\ Fits(s, c, session')
      BY DEF Stages, Fits, Blank
    <3>2. c \in Contexts
      BY DEF TypeInv, AccountType, Accounts, Contexts, Blank, Operations
    <3>. QED
      BY <1>1, <3>1, <3>2, EnterType, UnchangedRows DEF LoginRead, TypeInv
  <2>. QED
    BY <1>1, <2>1, UnchangedTables DEF LoginRead
<1>2. CASE LoginUnlock(r)
  <2>1. ctx[r].user \in Users /\ stage[r] # "idle"
    BY <1>2 DEF LoginUnlock, At, TypeInv, RequestType, Fits
  <2>2. RequestType'
    BY <1>2, <2>1, FinishType, GotoType, UnchangedRows
       DEF LoginUnlock, TypeInv, Stages
  <2>3. AccountType'
    BY <1>2, <2>1, ResetFailedAttemptsType DEF LoginUnlock, TypeInv
  <2>. QED
    BY <1>2, <2>2, <2>3 DEF LoginUnlock, TypeInv, SessionType, ChallengeType
<1>3. CASE LoginWrong(r)
  <2>1. ctx[r].user \in Users /\ stage[r] # "idle"
    BY <1>3 DEF LoginWrong, At, TypeInv, RequestType, Fits
  <2>2. RequestType'
    BY <1>3, <2>1, FinishType, GotoType, UnchangedRows
       DEF LoginWrong, TypeInv, Stages
  <2>3. AccountType'
    BY <1>3, <2>1 DEF LoginWrong, TypeInv, AccountType, Accounts
  <2>. QED
    BY <1>3, <2>2, <2>3 DEF LoginWrong, TypeInv, SessionType, ChallengeType
<1>4. CASE LoginLock(r)
  <2>1. ctx[r].user \in Users
    BY <1>4 DEF LoginLock, At, TypeInv, RequestType, Fits
  <2>2. RequestType'
    BY <1>4, FinishType, UnchangedRows DEF LoginLock, TypeInv
  <2>3. AccountType'
    BY <1>4, <2>1 DEF LoginLock, TypeInv, AccountType, Accounts, LockStates
  <2>. QED
    BY <1>4, <2>2, <2>3 DEF LoginLock, TypeInv, SessionType, ChallengeType
<1>5. CASE LoginRight(r)
  <2>1. RequestType'
    BY <1>5, FinishType, GotoType, UnchangedRows
       DEF LoginRight, At, TypeInv, Stages
  <2>. QED
    BY <1>5, <2>1, UnchangedTables DEF LoginRight
<1>6. ASSUME NEW u \in Users, OAuthRead(r, u) PROVE TypeInv'
  <2>1. RequestType'
    BY <1>6, ArriveType, UnchangedRows DEF OAuthRead, TypeInv, Stages, Operations
  <2>. QED
    BY <1>6, <2>1, UnchangedTables DEF OAuthRead
<1>. QED
  BY <1>1, <1>2, <1>3, <1>4, <1>5, <1>6 DEF LoginStep

LEMMA GateType ==
  ASSUME TypeInv, NEW r \in Requests, GateStep(r)
  PROVE  TypeInv'
<1>1. ASSUME NEW c \in Challenges, GateChallenge(r, c) PROVE TypeInv'
  <2>1. ctx[r].user \in Users
    BY <1>1 DEF GateChallenge, At, TypeInv, RequestType, Fits
  <2>2. RequestType'
    BY <1>1, FinishType, UnchangedRows DEF GateChallenge, TypeInv
  <2>3. ChallengeType'
    BY <1>1, <2>1 DEF GateChallenge, TypeInv, ChallengeType, ChallengeKeys
  <2>. QED
    BY <1>1, <2>2, <2>3 DEF GateChallenge, TypeInv, SessionType, AccountType
<1>2. CASE GatePass(r)
  <2>1. RequestType'
    BY <1>2, GotoType, UnchangedRows DEF GatePass, At, TypeInv, Stages
  <2>. QED
    BY <1>2, <2>1, UnchangedTables DEF GatePass
<1>3. ASSUME NEW c \in Challenges, MfaTake(r, c) PROVE TypeInv'
  <2> DEFINE local == [Blank EXCEPT !.op = "mfa", !.user = challenge[c].user,
                                    !.challenge = c]
  <2>1. challenge[c].user \in Users
    BY <1>3 DEF MfaTake, TypeInv, ChallengeType
  <2>2. local \in Contexts /\ Fits("code", local, session') /\ "code" \in Stages
    BY <2>1 DEF Contexts, Blank, Operations, Fits, Stages
  <2>3. RequestType'
    BY <1>3, <2>2, EnterType, UnchangedRows DEF MfaTake, TypeInv
  <2>4. ChallengeType'
    BY <1>3 DEF MfaTake, TypeInv, ChallengeType, ChallengeKeys
  <2>. QED
    BY <1>3, <2>3, <2>4 DEF MfaTake, TypeInv, SessionType, AccountType
<1>4. CASE MfaRightCode(r)
  <2>1. RequestType'
    BY <1>4, GotoType, UnchangedRows DEF MfaRightCode, At, TypeInv, Stages
  <2>. QED
    BY <1>4, <2>1, UnchangedTables DEF MfaRightCode
<1>5. CASE MfaAccount(r)
  <2>1. RequestType'
    BY <1>5, FinishType, GotoType, UnchangedRows
       DEF MfaAccount, At, TypeInv, Stages
  <2>. QED
    BY <1>5, <2>1, UnchangedTables DEF MfaAccount
<1>. QED
  BY <1>1, <1>2, <1>3, <1>4, <1>5 DEF GateStep

LEMMA GrantType ==
  ASSUME TypeInv, NEW r \in Requests, GrantStep(r)
  PROVE  TypeInv'
<1>1. ASSUME NEW t \in Tokens, Grant(r, t) PROVE TypeInv'
  <2>1. ctx[r].user \in Users /\ ctx[r] \in Contexts
    BY <1>1 DEF Grant, At, TypeInv, RequestType, Fits
  <2>2. SessionType' /\ RowsStay
    BY <1>1, <2>1
       DEF Grant, TypeInv, SessionType, Sessions, SessionStates, Contexts, RowsStay
  <2>3. RequestType'
    BY <1>1, <2>2, FinishType, GotoType DEF Grant, At, TypeInv, Stages
  <2>. QED
    BY <1>1, <2>2, <2>3 DEF Grant, TypeInv, AccountType, ChallengeType
<1>2. CASE GrantReset(r)
  <2>1. ctx[r].user \in Users
    BY <1>2 DEF GrantReset, At, TypeInv, RequestType, Fits
  <2>2. RequestType'
    BY <1>2, FinishType, UnchangedRows DEF GrantReset, TypeInv
  <2>3. AccountType'
    BY <1>2, <2>1, ResetFailedAttemptsType DEF GrantReset, TypeInv
  <2>. QED
    BY <1>2, <2>2, <2>3 DEF GrantReset, TypeInv, SessionType, ChallengeType
<1>3. ASSUME NEW t \in Tokens, RefreshFind(r, t) PROVE TypeInv'
  <2> DEFINE local == [Blank EXCEPT !.op = "refresh", !.user = session[t].user,
                                    !.token = t]
  <2>1. session[t].user \in Users /\ session'[t].state # "absent"
    BY <1>3 DEF RefreshFind, TypeInv, SessionType
  <2>2. local \in Contexts /\ Fits("rotate", local, session') /\ "rotate" \in Stages
    BY <2>1 DEF Contexts, Blank, Operations, Fits, Stages
  <2>3. RequestType'
    BY <1>3, <2>2, EnterType, UnchangedRows DEF RefreshFind, TypeInv
  <2>. QED
    BY <1>3, <2>3, UnchangedTables DEF RefreshFind
<1>4. CASE RefreshRevoke(r)
  <2>1. ctx[r].token \in Tokens /\ session[ctx[r].token].state # "absent"
    BY <1>4 DEF RefreshRevoke, At, TypeInv, RequestType, Fits
  <2>2. SessionType' /\ RowsStay
    BY <1>4, <2>1, RevokeType DEF RefreshRevoke, TypeInv
  <2>3. RequestType'
    BY <1>4, <2>2, GotoType DEF RefreshRevoke, At, TypeInv, Stages
  <2>. QED
    BY <1>4, <2>2, <2>3 DEF RefreshRevoke, TypeInv, AccountType, ChallengeType
<1>5. ASSUME NEW u \in Users, SwitchArrive(r, u) PROVE TypeInv'
  <2>1. RequestType'
    BY <1>5, ArriveType, UnchangedRows
       DEF SwitchArrive, TypeInv, Stages, Operations
  <2>. QED
    BY <1>5, <2>1, UnchangedTables DEF SwitchArrive
<1>6. CASE SwitchMember(r)
  <2>1. RequestType'
    BY <1>6, GotoType, UnchangedRows DEF SwitchMember, At, TypeInv, Stages
  <2>. QED
    BY <1>6, <2>1, UnchangedTables DEF SwitchMember
<1>. QED
  BY <1>1, <1>2, <1>3, <1>4, <1>5, <1>6 DEF GrantStep

LEMMA EndType ==
  ASSUME TypeInv, NEW r \in Requests, EndStep(r)
  PROVE  TypeInv'
<1>1. ASSUME NEW u \in Users, NEW t \in Tokens, LogoutFind(r, u, t)
      PROVE  TypeInv'
  <2> DEFINE local == [Blank EXCEPT !.op = "logout", !.user = u, !.token = t]
  <2>1. session'[t].state # "absent"
    BY <1>1 DEF LogoutFind, Unrevoked
  <2>2. local \in Contexts /\ Fits("revoke", local, session') /\ "revoke" \in Stages
    BY <2>1 DEF Contexts, Blank, Operations, Fits, Stages
  <2>3. RequestType'
    BY <1>1, <2>2, EnterType, UnchangedRows DEF LogoutFind, TypeInv
  <2>. QED
    BY <1>1, <2>3, UnchangedTables DEF LogoutFind
<1>2. CASE LogoutRevoke(r)
  <2>1. ctx[r].token \in Tokens /\ session[ctx[r].token].state # "absent"
    BY <1>2 DEF LogoutRevoke, At, TypeInv, RequestType, Fits
  <2>2. SessionType' /\ RowsStay
    BY <1>2, <2>1, RevokeType DEF LogoutRevoke, TypeInv
  <2>3. RequestType'
    BY <1>2, <2>2, FinishType DEF LogoutRevoke, TypeInv
  <2>. QED
    BY <1>2, <2>2, <2>3 DEF LogoutRevoke, TypeInv, AccountType, ChallengeType
<1>. QED
  BY <1>1, <1>2 DEF EndStep

LEMMA AdminType ==
  ASSUME TypeInv, NEW r \in Requests, AdminStep(r)
  PROVE  TypeInv'
<1>1. ASSUME NEW u \in Users, DisableFlag(r, u) PROVE TypeInv'
  <2>1. RequestType'
    BY <1>1, ArriveType, UnchangedRows DEF DisableFlag, TypeInv, Stages, Operations
  <2>2. AccountType'
    BY <1>1 DEF DisableFlag, TypeInv, AccountType, Accounts
  <2>. QED
    BY <1>1, <2>1, <2>2 DEF DisableFlag, TypeInv, SessionType, ChallengeType
<1>2. CASE DisableRevoke(r)
  <2>1. ctx[r].user \in Users
    BY <1>2 DEF DisableRevoke, At, TypeInv, RequestType, Fits
  <2>2. SessionType' /\ RowsStay
    BY <1>2, <2>1, RevokeAllForUserType DEF DisableRevoke, TypeInv
  <2>3. RequestType'
    BY <1>2, <2>2, GotoType DEF DisableRevoke, At, TypeInv, Stages
  <2>. QED
    BY <1>2, <2>2, <2>3 DEF DisableRevoke, TypeInv, AccountType, ChallengeType
<1>3. CASE DisableBlock(r)
  <2>1. ctx[r].user \in Users
    BY <1>3 DEF DisableBlock, At, TypeInv, RequestType, Fits
  <2>2. RequestType'
    BY <1>3, FinishType, UnchangedRows DEF DisableBlock, TypeInv
  <2>. QED
    BY <1>3, <2>1, <2>2
       DEF DisableBlock, TypeInv, AccountType, SessionType, ChallengeType
<1>4. ASSUME NEW u \in Users, EnableFlag(r, u) PROVE TypeInv'
  <2>1. RequestType'
    BY <1>4, ArriveType, UnchangedRows DEF EnableFlag, TypeInv, Stages, Operations
  <2>2. AccountType'
    BY <1>4 DEF EnableFlag, TypeInv, AccountType, Accounts
  <2>. QED
    BY <1>4, <2>1, <2>2 DEF EnableFlag, TypeInv, SessionType, ChallengeType
<1>5. CASE EnableUnblock(r)
  <2>1. RequestType'
    BY <1>5, FinishType, UnchangedRows DEF EnableUnblock, TypeInv
  <2>. QED
    BY <1>5, <2>1
       DEF EnableUnblock, TypeInv, AccountType, SessionType, ChallengeType
<1>. QED
  BY <1>1, <1>2, <1>3, <1>4, <1>5 DEF AdminStep

\* An action that leaves every request where it is.
LEMMA IdleType ==
  ASSUME RequestType, RowsStay, UNCHANGED <<stage, ctx>>
  PROVE  RequestType'
BY DEF RequestType, RowsStay, Fits

LEMMA EnvironmentType ==
  ASSUME TypeInv, Environment
  PROVE  TypeInv'
<1>1. ASSUME NEW r \in Requests, Abort(r) PROVE TypeInv'
  <2>1. RequestType'
    BY <1>1, FinishType, UnchangedRows DEF Abort, TypeInv
  <2>. QED
    BY <1>1, <2>1, UnchangedTables DEF Abort
<1>2. ASSUME NEW u \in Users, RevokeAll(u) PROVE TypeInv'
  <2>1. SessionType' /\ RowsStay
    BY <1>2, RevokeAllForUserType DEF RevokeAll, TypeInv
  <2>2. RequestType'
    BY <1>2, <2>1, IdleType DEF RevokeAll, TypeInv
  <2>. QED
    BY <1>2, <2>1, <2>2 DEF RevokeAll, TypeInv, AccountType, ChallengeType
<1>3. ASSUME NEW u \in Users, LockExpires(u) PROVE TypeInv'
  <2>1. AccountType'
    BY <1>3 DEF LockExpires, TypeInv, AccountType, Accounts, LockStates
  <2>2. RequestType'
    BY <1>3, UnchangedRows, IdleType DEF LockExpires, TypeInv
  <2>. QED
    BY <1>3, <2>1, <2>2 DEF LockExpires, TypeInv, SessionType, ChallengeType
<1>4. ASSUME NEW t \in Tokens, SessionExpires(t) PROVE TypeInv'
  <2>1. SessionType' /\ RowsStay
    BY <1>4
       DEF SessionExpires, TypeInv, SessionType, Sessions, SessionStates, RowsStay
  <2>2. RequestType'
    BY <1>4, <2>1, IdleType DEF SessionExpires, TypeInv
  <2>. QED
    BY <1>4, <2>1, <2>2 DEF SessionExpires, TypeInv, AccountType, ChallengeType
<1>5. ASSUME NEW c \in Challenges, ChallengeExpires(c) PROVE TypeInv'
  <2>1. ChallengeType'
    BY <1>5 DEF ChallengeExpires, TypeInv, ChallengeType, ChallengeKeys
  <2>2. RequestType'
    BY <1>5, UnchangedRows, IdleType DEF ChallengeExpires, TypeInv
  <2>. QED
    BY <1>5, <2>1, <2>2 DEF ChallengeExpires, TypeInv, SessionType, AccountType
<1>6. ASSUME NEW u \in Users, BlocklistExpires(u) PROVE TypeInv'
  <2>1. RequestType'
    BY <1>6, UnchangedRows, IdleType DEF BlocklistExpires, TypeInv
  <2>. QED
    BY <1>6, <2>1
       DEF BlocklistExpires, TypeInv, SessionType, AccountType, ChallengeType
<1>. QED
  BY <1>1, <1>2, <1>3, <1>4, <1>5, <1>6 DEF Environment

LEMMA StutterType == TypeInv /\ UNCHANGED vars => TypeInv'
BY DEF vars, TypeInv, AccountType, SessionType, ChallengeType, RequestType

LEMMA NextType == TypeInv /\ [Next]_vars => TypeInv'
BY LoginType, GateType, GrantType, EndType, AdminType, EnvironmentType,
   StutterType DEF Next

\* Every reachable state is typed, and no handler dereferences a null: a
\* request in flight works for an account, and a row it is about to revoke
\* exists.
THEOREM TypeCorrect == Spec => []TypeInv
BY InitType, NextType, PTL DEF Spec

\* The tables, the Redis keys and the requests' locals keep their types.
THEOREM TypeSafe == Spec => []TypeOK
BY TypeCorrect, TypeInvImpliesTypeOK, PTL

-----------------------------------------------------------------------------
(* Rotation.  RotationRetiresParent is not inductive: it needs what a      *)
(* request on its way to issuing a session knows of the one it replaces.   *)

\* Between finding the token and revoking it, the row is the account's; at the
\* grant it is revoked; every other way to a grant carries no token.
Replaces(s, c, rows) ==
  /\ s = "rotate" => rows[c.token].user = c.user
  /\ s = "grant" /\ c.token # None =>
       rows[c.token].state = "revoked" /\ rows[c.token].user = c.user
  /\ s \in {"unlock", "password", "gate", "code", "account", "switch"} =>
       c.token = None

RotationInv ==
  /\ RotationRetiresParent
  /\ \A r \in Requests : Replaces(stage[r], ctx[r], session)

\* A step changes nothing of the rows but their state, and that only forward.
RowsKept ==
  \A t \in Tokens :
    /\ session'[t].user = session[t].user
    /\ session'[t].parent = session[t].parent
    /\ session'[t].challenge = session[t].challenge
    /\ session[t].state # "absent" => session'[t].state # "absent"
    /\ session[t].state = "revoked" => session'[t].state = "revoked"

\* Request r moves and the others stand still.
OnlyMoves(r) ==
  \A q \in Requests \ {r} : stage'[q] = stage[q] /\ ctx'[q] = ctx[q]

LEMMA KeptRotation ==
  ASSUME TypeInv, RotationInv, RowsKept, NEW r \in Requests, OnlyMoves(r),
         Replaces(stage'[r], ctx'[r], session')
  PROVE  RotationInv'
<1>1. RotationRetiresParent'
  BY DEF RotationInv, RotationRetiresParent, RowsKept, TypeInv, SessionType, Sessions
<1>2. ASSUME NEW q \in Requests, q # r
      PROVE  Replaces(stage'[q], ctx'[q], session')
  <2>1. stage'[q] = stage[q] /\ ctx'[q] = ctx[q] /\ ctx[q] \in Contexts
    BY <1>2 DEF OnlyMoves, TypeInv, RequestType
  <2>2. stage[q] = "rotate" => ctx[q].token \in Tokens
    BY DEF TypeInv, RequestType, Fits
  <2>. QED
    BY <2>1, <2>2 DEF RotationInv, Replaces, RowsKept, Contexts
<1>. QED
  BY <1>1, <1>2 DEF RotationInv

LEMMA RowsKeptBasics ==
  /\ UNCHANGED session => RowsKept
  /\ \A t \in Tokens : TypeInv /\ session[t].state # "absent" /\ Revoke(t) => RowsKept
  /\ \A u \in Users : TypeInv /\ RevokeAllForUser(u) => RowsKept
<1>1. UNCHANGED session => RowsKept
  BY DEF RowsKept
<1>2. ASSUME NEW t \in Tokens, TypeInv, session[t].state # "absent", Revoke(t)
      PROVE  RowsKept
  BY <1>2 DEF RowsKept, Revoke, TypeInv, SessionType, Sessions
<1>3. ASSUME NEW u \in Users, TypeInv, RevokeAllForUser(u)
      PROVE  RowsKept
  BY <1>3 DEF RowsKept, RevokeAllForUser, Unrevoked, TypeInv, SessionType, Sessions
<1>. QED
  BY <1>1, <1>2, <1>3

LEMMA MovesBasics ==
  ASSUME TypeInv, NEW r \in Requests
  PROVE  /\ Finish(r) => OnlyMoves(r) /\ stage'[r] = "idle" /\ ctx'[r] = Blank
         /\ \A s : Goto(r, s) => OnlyMoves(r) /\ stage'[r] = s /\ ctx'[r] = ctx[r]
         /\ \A op, u, s : Arrive(r, op, u, s) =>
              /\ OnlyMoves(r) /\ stage'[r] = s
              /\ ctx'[r] = [Blank EXCEPT !.op = op, !.user = u]
BY DEF TypeInv, RequestType, Finish, Goto, Arrive, OnlyMoves

LEMMA IdleRotation ==
  ASSUME TypeInv, RotationInv, RowsKept, UNCHANGED <<stage, ctx>>
  PROVE  RotationInv'
<1>1. RotationRetiresParent'
  BY DEF RotationInv, RotationRetiresParent, RowsKept, TypeInv, SessionType, Sessions
<1>2. ASSUME NEW q \in Requests
      PROVE  Replaces(stage'[q], ctx'[q], session')
  <2>1. /\ stage[q] = "rotate" => ctx[q].token \in Tokens
        /\ ctx[q] \in Contexts
    BY DEF TypeInv, RequestType, Fits
  <2>. QED
    BY <2>1 DEF RotationInv, Replaces, RowsKept, Contexts
<1>. QED
  BY <1>1, <1>2 DEF RotationInv

LEMMA FinishRotation ==
  ASSUME TypeInv, RotationInv, RowsKept, NEW r \in Requests, Finish(r)
  PROVE  RotationInv'
<1>1. OnlyMoves(r) /\ stage'[r] = "idle"
  BY MovesBasics
<1>2. Replaces(stage'[r], ctx'[r], session')
  BY <1>1 DEF Replaces
<1>. QED
  BY <1>1, <1>2, KeptRotation

LEMMA ArriveRotation ==
  ASSUME TypeInv, RotationInv, RowsKept, NEW r \in Requests,
         NEW op, NEW u, NEW s \in Stages \ {"rotate"}, Arrive(r, op, u, s)
  PROVE  RotationInv'
<1>1. OnlyMoves(r) /\ stage'[r] = s /\ ctx'[r] = [Blank EXCEPT !.op = op, !.user = u]
  BY MovesBasics
<1>2. Replaces(stage'[r], ctx'[r], session')
  BY <1>1 DEF Replaces, Blank
<1>. QED
  BY <1>1, <1>2, KeptRotation

\* A request that carries no token may go on to any stage but "rotate", and
\* any request to a stage that does not look at its token.
Tokenless == {"unlock", "password", "gate", "code", "account", "switch"}

LEMMA GotoRotation ==
  ASSUME TypeInv, RotationInv, RowsKept, NEW r \in Requests,
         NEW s \in Stages \ {"rotate"}, Goto(r, s),
         stage[r] \in Tokenless \/ s \notin Tokenless \cup {"grant"}
  PROVE  RotationInv'
<1>1. OnlyMoves(r) /\ stage'[r] = s /\ ctx'[r] = ctx[r]
  BY MovesBasics
<1>2. Replaces(stage'[r], ctx'[r], session')
  BY <1>1 DEF Replaces, RotationInv, Tokenless
<1>. QED
  BY <1>1, <1>2, KeptRotation

LEMMA LoginRotation ==
  ASSUME TypeInv, RotationInv, NEW r \in Requests, LoginStep(r)
  PROVE  RotationInv'
<1>1. UNCHANGED session /\ RowsKept
  BY RowsKeptBasics
     DEF LoginStep, LoginRead, LoginUnlock, LoginWrong, LoginLock, LoginRight, OAuthRead
<1>2. ASSUME NEW u \in Users, LoginRead(r, u) PROVE RotationInv'
  <2>1. OnlyMoves(r) /\ ctx'[r].token = None /\ stage'[r] \in {"unlock", "password"}
    BY <1>2 DEF LoginRead, OnlyMoves, Blank, TypeInv, RequestType
  <2>2. Replaces(stage'[r], ctx'[r], session')
    BY <2>1 DEF Replaces
  <2>. QED
    BY <1>1, <2>1, <2>2, KeptRotation
<1>3. CASE LoginUnlock(r)
  BY <1>1, <1>3, FinishRotation, GotoRotation
     DEF LoginUnlock, At, Stages, Tokenless
<1>4. CASE LoginWrong(r)
  BY <1>1, <1>4, FinishRotation, GotoRotation
     DEF LoginWrong, At, Stages, Tokenless
<1>5. CASE LoginLock(r)
  BY <1>1, <1>5, FinishRotation DEF LoginLock
<1>6. CASE LoginRight(r)
  BY <1>1, <1>6, FinishRotation, GotoRotation
     DEF LoginRight, At, Stages, Tokenless
<1>7. ASSUME NEW u \in Users, OAuthRead(r, u) PROVE RotationInv'
  BY <1>1, <1>7, ArriveRotation DEF OAuthRead, Stages
<1>. QED
  BY <1>2, <1>3, <1>4, <1>5, <1>6, <1>7 DEF LoginStep

LEMMA GateRotation ==
  ASSUME TypeInv, RotationInv, NEW r \in Requests, GateStep(r)
  PROVE  RotationInv'
<1>1. UNCHANGED session /\ RowsKept
  BY RowsKeptBasics
     DEF GateStep, GateChallenge, GatePass, MfaTake, MfaRightCode, MfaAccount
<1>2. ASSUME NEW c \in Challenges, GateChallenge(r, c) PROVE RotationInv'
  BY <1>1, <1>2, FinishRotation DEF GateChallenge
<1>3. CASE GatePass(r)
  BY <1>1, <1>3, GotoRotation DEF GatePass, At, Stages, Tokenless
<1>4. ASSUME NEW c \in Challenges, MfaTake(r, c) PROVE RotationInv'
  <2>1. OnlyMoves(r) /\ ctx'[r].token = None /\ stage'[r] = "code"
    BY <1>4 DEF MfaTake, OnlyMoves, Blank, TypeInv, RequestType
  <2>2. Replaces(stage'[r], ctx'[r], session')
    BY <2>1 DEF Replaces
  <2>. QED
    BY <1>1, <2>1, <2>2, KeptRotation
<1>5. CASE MfaRightCode(r)
  BY <1>1, <1>5, GotoRotation DEF MfaRightCode, At, Stages, Tokenless
<1>6. CASE MfaAccount(r)
  BY <1>1, <1>6, FinishRotation, GotoRotation
     DEF MfaAccount, At, Stages, Tokenless
<1>. QED
  BY <1>2, <1>3, <1>4, <1>5, <1>6 DEF GateStep

LEMMA GrantRotation ==
  ASSUME TypeInv, RotationInv, NEW r \in Requests, GrantStep(r)
  PROVE  RotationInv'
<1>1. ASSUME NEW t \in Tokens, Grant(r, t) PROVE RotationInv'
  <2>1. /\ session' = [session EXCEPT ![t] = session'[t]]
        /\ session'[t].parent = ctx[r].token
        /\ session'[t].user = ctx[r].user
        /\ session[t].state = "absent"
        /\ session \in [Tokens -> Sessions]
        /\ ctx[r] \in Contexts
    BY <1>1 DEF Grant, TypeInv, SessionType, RequestType
  <2>2. \A p \in Tokens : session[p].state = "revoked" =>
          session'[p].state = "revoked" /\ session'[p].user = session[p].user
    BY <2>1
  <2>3. ctx[r].token # None =>
          /\ session[ctx[r].token].state = "revoked"
          /\ session[ctx[r].token].user = ctx[r].user
    BY <1>1 DEF Grant, At, RotationInv, Replaces
  <2>4. RotationRetiresParent'
    <3> SUFFICES ASSUME NEW k \in Tokens, session'[k].parent # None
                 PROVE  LET q == session'[k].parent
                        IN  session'[q].state = "revoked"
                            /\ session'[q].user = session'[k].user
      BY DEF RotationRetiresParent
    <3>1. CASE k = t
      BY <3>1, <2>1, <2>2, <2>3 DEF Contexts
    <3>2. CASE k # t
      <4>1. session'[k] = session[k] /\ session[k].parent \in Tokens
        BY <3>2, <2>1 DEF Sessions
      <4>. QED
        BY <4>1, <2>2 DEF RotationInv, RotationRetiresParent
    <3>. QED
      BY <3>1, <3>2
  <2>5. ASSUME NEW q \in Requests PROVE Replaces(stage'[q], ctx'[q], session')
    <3>1. CASE q = r
      <4>1. stage'[r] \in {"reset", "idle"}
        BY <1>1, MovesBasics DEF Grant
      <4>. QED
        BY <3>1, <4>1 DEF Replaces
    <3>2. CASE q # r
      <4>1. stage'[q] = stage[q] /\ ctx'[q] = ctx[q] /\ ctx[q] \in Contexts
        BY <1>1, <3>2, MovesBasics DEF Grant, OnlyMoves, TypeInv, RequestType
      <4>2. stage[q] = "rotate" => session'[ctx[q].token] = session[ctx[q].token]
        BY <2>1 DEF TypeInv, RequestType, Fits
      <4>. QED
        BY <4>1, <4>2, <2>2 DEF RotationInv, Replaces, Contexts
    <3>. QED
      BY <3>1, <3>2
  <2>. QED
    BY <2>4, <2>5 DEF RotationInv
<1>2. CASE GrantReset(r)
  BY <1>2, RowsKeptBasics, FinishRotation DEF GrantReset
<1>3. ASSUME NEW t \in Tokens, RefreshFind(r, t) PROVE RotationInv'
  <2>1. /\ OnlyMoves(r) /\ stage'[r] = "rotate"
        /\ ctx'[r].token = t /\ ctx'[r].user = session'[t].user
    BY <1>3 DEF RefreshFind, OnlyMoves, Blank, TypeInv, RequestType
  <2>2. Replaces(stage'[r], ctx'[r], session')
    BY <2>1 DEF Replaces
  <2>. QED
    BY <1>3, <2>1, <2>2, RowsKeptBasics, KeptRotation DEF RefreshFind
<1>4. CASE RefreshRevoke(r)
  <2>1. /\ ctx[r].token \in Tokens /\ session[ctx[r].token].state # "absent"
        /\ session[ctx[r].token].user = ctx[r].user
    BY <1>4
       DEF RefreshRevoke, At, TypeInv, RequestType, Fits, RotationInv, Replaces
  <2>2. /\ session'[ctx[r].token].state = "revoked"
        /\ session'[ctx[r].token].user = ctx[r].user
    BY <1>4, <2>1 DEF RefreshRevoke, Revoke, TypeInv, SessionType, Sessions
  <2>3. RowsKept
    BY <1>4, <2>1, RowsKeptBasics DEF RefreshRevoke
  <2>4. OnlyMoves(r) /\ stage'[r] = "grant" /\ ctx'[r] = ctx[r]
    BY <1>4, MovesBasics DEF RefreshRevoke
  <2>5. Replaces(stage'[r], ctx'[r], session')
    BY <2>2, <2>4 DEF Replaces
  <2>. QED
    BY <2>3, <2>4, <2>5, KeptRotation
<1>5. ASSUME NEW u \in Users, SwitchArrive(r, u) PROVE RotationInv'
  BY <1>5, RowsKeptBasics, ArriveRotation DEF SwitchArrive, Stages
<1>6. CASE SwitchMember(r)
  BY <1>6, RowsKeptBasics, GotoRotation DEF SwitchMember, At, Stages, Tokenless
<1>. QED
  BY <1>1, <1>2, <1>3, <1>4, <1>5, <1>6 DEF GrantStep

LEMMA EndRotation ==
  ASSUME TypeInv, RotationInv, NEW r \in Requests, EndStep(r)
  PROVE  RotationInv'
<1>1. ASSUME NEW u \in Users, NEW t \in Tokens, LogoutFind(r, u, t)
      PROVE  RotationInv'
  <2>1. OnlyMoves(r) /\ stage'[r] = "revoke"
    BY <1>1 DEF LogoutFind, OnlyMoves, TypeInv, RequestType
  <2>2. Replaces(stage'[r], ctx'[r], session')
    BY <2>1 DEF Replaces
  <2>. QED
    BY <1>1, <2>1, <2>2, RowsKeptBasics, KeptRotation DEF LogoutFind
<1>2. CASE LogoutRevoke(r)
  <2>1. ctx[r].token \in Tokens /\ session[ctx[r].token].state # "absent"
    BY <1>2 DEF LogoutRevoke, At, TypeInv, RequestType, Fits
  <2>2. RowsKept
    BY <1>2, <2>1, RowsKeptBasics DEF LogoutRevoke
  <2>. QED
    BY <1>2, <2>2, FinishRotation DEF LogoutRevoke
<1>. QED
  BY <1>1, <1>2 DEF EndStep

LEMMA AdminRotation ==
  ASSUME TypeInv, RotationInv, NEW r \in Requests, AdminStep(r)
  PROVE  RotationInv'
<1>1. ASSUME NEW u \in Users, DisableFlag(r, u) PROVE RotationInv'
  BY <1>1, RowsKeptBasics, ArriveRotation DEF DisableFlag, Stages
<1>2. CASE DisableRevoke(r)
  <2>1. ctx[r].user \in Users
    BY <1>2 DEF DisableRevoke, At, TypeInv, RequestType, Fits
  <2>2. RowsKept
    BY <1>2, <2>1, RowsKeptBasics DEF DisableRevoke
  <2>. QED
    BY <1>2, <2>2, GotoRotation DEF DisableRevoke, Stages, Tokenless
<1>3. CASE DisableBlock(r)
  BY <1>3, RowsKeptBasics, FinishRotation DEF DisableBlock
<1>4. ASSUME NEW u \in Users, EnableFlag(r, u) PROVE RotationInv'
  BY <1>4, RowsKeptBasics, ArriveRotation DEF EnableFlag, Stages
<1>5. CASE EnableUnblock(r)
  BY <1>5, RowsKeptBasics, FinishRotation DEF EnableUnblock
<1>. QED
  BY <1>1, <1>2, <1>3, <1>4, <1>5 DEF AdminStep

LEMMA EnvironmentRotation ==
  ASSUME TypeInv, RotationInv, Environment
  PROVE  RotationInv'
<1>1. ASSUME NEW r \in Requests, Abort(r) PROVE RotationInv'
  BY <1>1, RowsKeptBasics, FinishRotation DEF Abort
<1>2. ASSUME NEW u \in Users, RevokeAll(u) PROVE RotationInv'
  BY <1>2, RowsKeptBasics, IdleRotation DEF RevokeAll
<1>3. ASSUME NEW u \in Users, LockExpires(u) PROVE RotationInv'
  BY <1>3, RowsKeptBasics, IdleRotation DEF LockExpires
<1>4. ASSUME NEW t \in Tokens, SessionExpires(t) PROVE RotationInv'
  <2>1. RowsKept
    BY <1>4 DEF SessionExpires, RowsKept, TypeInv, SessionType, Sessions
  <2>. QED
    BY <1>4, <2>1, IdleRotation DEF SessionExpires
<1>5. ASSUME NEW c \in Challenges, ChallengeExpires(c) PROVE RotationInv'
  BY <1>5, RowsKeptBasics, IdleRotation DEF ChallengeExpires
<1>6. ASSUME NEW u \in Users, BlocklistExpires(u) PROVE RotationInv'
  BY <1>6, RowsKeptBasics, IdleRotation DEF BlocklistExpires
<1>. QED
  BY <1>1, <1>2, <1>3, <1>4, <1>5, <1>6 DEF Environment

\* Whatever requests interleave, expire or abort, a session issued by a
\* refresh replaces one that is already revoked, and of the same account.
THEOREM Rotation == Spec => []RotationRetiresParent
<1>1. Init => RotationInv
  BY DEF Init, RotationInv, RotationRetiresParent, Replaces, NoSession
<1>2. TypeInv /\ RotationInv /\ [Next]_vars => RotationInv'
  <2> SUFFICES ASSUME TypeInv, RotationInv, [Next]_vars PROVE RotationInv'
    OBVIOUS
  <2>1. CASE UNCHANGED vars
    BY <2>1, RowsKeptBasics, IdleRotation DEF vars
  <2>2. CASE Next
    BY <2>2, LoginRotation, GateRotation, GrantRotation, EndRotation,
       AdminRotation, EnvironmentRotation DEF Next
  <2>. QED
    BY <2>1, <2>2
<1>3. RotationInv => RotationRetiresParent
  BY DEF RotationInv
<1>. QED
  BY <1>1, <1>2, <1>3, TypeCorrect, PTL DEF Spec

-----------------------------------------------------------------------------
(* The table implements the ledger.  Only four kinds of steps write the     *)
(* table; of them Grant issues a session, and the others end some.          *)

LedgerStatus(row) ==
  IF row.state = "absent" THEN "absent"
  ELSE IF row.state = "active" THEN "live" ELSE "ended"

\* The variables of the ledger follow the rows.
LEMMA LedgerUnchanged ==
  ASSUME UNCHANGED session
  PROVE  UNCHANGED Ledger!ledger
BY DEF Ledger!ledger

\* Rows of one account that are active end, and nothing else is seen to change.
LEMMA LedgerEnd ==
  ASSUME NEW u \in Users, NEW S \in SUBSET Tokens,
         \A t \in S : session[t].state = "active" /\ session[t].user = u,
         \A t \in S : session'[t].state \in {"expired", "revoked"},
         \A t \in Tokens \ S :
           LedgerStatus(session'[t]) = LedgerStatus(session[t]),
         \A t \in Tokens : session'[t].user = session[t].user
  PROVE  Ledger!Next
<1>1. Ledger!End(S, u)
  BY DEF Ledger!End, LedgerStatus
<1>. QED
  BY <1>1 DEF Ledger!Next

\* revoke: the row ends, or had ended.
LEMMA LedgerRevoke ==
  ASSUME SessionType, NEW t \in Tokens, session[t].state # "absent", Revoke(t)
  PROVE  Ledger!Next
<1>1. /\ session'[t].state = "revoked" /\ session'[t].user = session[t].user
      /\ \A x \in Tokens \ {t} : session'[x] = session[x]
      /\ session[t].user \in Users
      /\ session[t].state \in SessionStates
  BY DEF Revoke, SessionType, Sessions
<1>2. CASE session[t].state = "active"
  <2>1. PICK u \in Users, S \in SUBSET Tokens :
          u = session[t].user /\ S = {t}
    BY <1>1
  <2>. QED
    BY <1>1, <1>2, <2>1, LedgerEnd
<1>3. CASE session[t].state # "active"
  <2>1. LedgerStatus(session'[t]) = LedgerStatus(session[t])
    BY <1>1, <1>3 DEF LedgerStatus
  <2>2. PICK u \in Users, S \in SUBSET Tokens :
          u = session[t].user /\ S = {}
    BY <1>1
  <2>. QED
    BY <1>1, <2>1, <2>2, LedgerEnd
<1>. QED
  BY <1>2, <1>3

\* revokeAllForUser: the account's active rows end.
LEMMA LedgerRevokeAll ==
  ASSUME SessionType, NEW u \in Users, RevokeAllForUser(u)
  PROVE  Ledger!Next
<1>1. PICK S \in SUBSET Tokens :
        S = {t \in Tokens : session[t].user = u /\ session[t].state = "active"}
  OBVIOUS
<1>2. ASSUME NEW t \in Tokens
      PROVE  /\ session'[t].user = session[t].user
             /\ t \in S => session'[t].state \in {"expired", "revoked"}
             /\ t \notin S =>
                  LedgerStatus(session'[t]) = LedgerStatus(session[t])
  BY <1>1 DEF RevokeAllForUser, Unrevoked, SessionType, Sessions, LedgerStatus
<1>. QED
  BY <1>1, <1>2, LedgerEnd

\* Every step of the server is a step of the ledger, or leaves it alone.
LEMMA LedgerStep ==
  ASSUME TypeInv, [Next]_vars
  PROVE  Ledger!Next \/ UNCHANGED Ledger!ledger
<1>0. SessionType /\ RequestType
  BY DEF TypeInv
<1>1. ASSUME NEW r \in Requests, LoginStep(r) \/ GateStep(r)
      PROVE  UNCHANGED session
  BY <1>1 DEF LoginStep, LoginRead, LoginUnlock, LoginWrong, LoginLock,
     LoginRight, OAuthRead, GateStep, GateChallenge, GatePass, MfaTake,
     MfaRightCode, MfaAccount
<1>2. ASSUME NEW r \in Requests, NEW t \in Tokens, Grant(r, t)
      PROVE  Ledger!Next
  <2>1. PICK u \in Users : u = ctx[r].user
    BY <1>0, <1>2 DEF Grant, At, RequestType, Fits
  <2>2. Ledger!Issue(t, u)
    BY <1>0, <1>2, <2>1 DEF Grant, SessionType, Ledger!Issue
  <2>. QED
    BY <2>2 DEF Ledger!Next
<1>3. ASSUME NEW r \in Requests, RefreshRevoke(r) \/ LogoutRevoke(r)
      PROVE  Ledger!Next
  <2>1. PICK t \in Tokens :
          t = ctx[r].token /\ session[t].state # "absent" /\ Revoke(t)
    BY <1>0, <1>3 DEF RefreshRevoke, LogoutRevoke, Revoke, At, RequestType, Fits
  <2>. QED
    BY <1>0, <2>1, LedgerRevoke
<1>4. ASSUME NEW r \in Requests, GrantStep(r) \/ EndStep(r)
      PROVE  Ledger!Next \/ UNCHANGED session
  BY <1>2, <1>3, <1>4 DEF GrantStep, GrantReset, RefreshFind, SwitchArrive,
     SwitchMember, EndStep, LogoutFind
<1>5. ASSUME NEW r \in Requests, AdminStep(r)
      PROVE  Ledger!Next \/ UNCHANGED session
  <2>1. CASE DisableRevoke(r)
    <3>1. PICK u \in Users : u = ctx[r].user /\ RevokeAllForUser(u)
      BY <1>0, <2>1 DEF DisableRevoke, RevokeAllForUser, At, RequestType, Fits
    <3>. QED
      BY <1>0, <3>1, LedgerRevokeAll
  <2>. QED
    BY <1>5, <2>1
       DEF AdminStep, DisableFlag, DisableBlock, EnableFlag, EnableUnblock
<1>6. ASSUME NEW t \in Tokens, SessionExpires(t)
      PROVE  Ledger!Next
  <2>1. /\ session'[t].state = "expired" /\ session'[t].user = session[t].user
        /\ \A x \in Tokens \ {t} : session'[x] = session[x]
        /\ session[t].state = "active" /\ session[t].user \in Users
    BY <1>0, <1>6 DEF SessionExpires, SessionType, Sessions
  <2>2. PICK u \in Users, S \in SUBSET Tokens :
          u = session[t].user /\ S = {t}
    BY <2>1
  <2>. QED
    BY <2>1, <2>2, LedgerEnd
<1>7. ASSUME NEW u \in Users, RevokeAll(u)
      PROVE  Ledger!Next
  BY <1>0, <1>7, LedgerRevokeAll DEF RevokeAll
<1>8. CASE Environment
  BY <1>6, <1>7, <1>8, LedgerUnchanged
     DEF Environment, Abort, LockExpires, ChallengeExpires, BlocklistExpires
<1>9. CASE UNCHANGED vars
  BY <1>9, LedgerUnchanged DEF vars
<1>. QED
  BY <1>1, <1>4, <1>5, <1>8, <1>9, LedgerUnchanged DEF Next

\* Whatever requests interleave, sessions are issued once to one account, end
\* one account at a time, and never live again.
THEOREM Refinement == Spec => ImplementsLedger
<1>1. Init => Ledger!Init
  BY DEF Init, NoSession, Ledger!Init
<1>2. TypeInv /\ [Next]_vars => [Ledger!Next]_(Ledger!ledger)
  BY LedgerStep
<1>. QED
  BY <1>1, <1>2, TypeCorrect, PTL DEF Spec, ImplementsLedger, Ledger!Spec
-----------------------------------------------------------------------------
(* The control of a request: where a step can take it, and as what.        *)

\* The awaits that follow one another within a handler.
Edges ==
  {<<"unlock", "password">>, <<"password", "lock">>, <<"password", "gate">>,
   <<"gate", "grant">>, <<"code", "account">>, <<"account", "grant">>,
   <<"grant", "reset">>, <<"rotate", "grant">>, <<"switch", "grant">>,
   <<"disable", "block">>}

\* The first await of each operation.
Entries ==
  {<<"login", "unlock">>, <<"login", "password">>, <<"oauth", "gate">>,
   <<"mfa", "code">>, <<"refresh", "rotate">>, <<"switch", "switch">>,
   <<"logout", "revoke">>, <<"admin", "disable">>, <<"admin", "unblock">>}

\* What a handler tests before the first await, ...
Entitled(c1) ==
  /\ c1.op = "login" => /\ account[c1.user].lock # "live"
                        /\ c1.disabled = account[c1.user].disabled
  /\ c1.op = "oauth" => ~account[c1.user].disabled
  /\ c1.op = "refresh" =>
       \E t \in Tokens : session[t].state = "active" /\ session[t].user = c1.user
  /\ c1.op = "switch" => Authenticated(c1.user)
  /\ c1.op = "mfa" => /\ challenge[c1.challenge].state = "open"
                      /\ challenge'[c1.challenge].state = "gone"

Enters(s, s1, c1) ==
  /\ s = "idle"
  /\ <<c1.op, s1>> \in Entries
  /\ c1.user \in Users
  /\ c1.op # "mfa" => c1.challenge = None
  /\ Entitled(c1)

\* ... and between two.
Passes(s, s1, c) ==
  /\ s = "password" /\ s1 = "gate" => ~c.disabled
  /\ s = "account" => ~account[c.user].disabled /\ account[c.user].lock # "live"
  /\ s1 = "reset" => c.op \in {"login", "mfa"}

Proceeds(s, s1, c, c1) ==
  /\ c1 = c
  /\ <<s, s1>> \in Edges
  /\ Passes(s, s1, c)

Ends(s1, c1) == s1 = "idle" /\ c1 = Blank

Path(r) ==
  /\ OnlyMoves(r)
  /\ \/ Enters(stage[r], stage'[r], ctx'[r])
     \/ Proceeds(stage[r], stage'[r], ctx[r], ctx'[r])
     \/ Ends(stage'[r], ctx'[r])

LEMMA EntersPath ==
  ASSUME TypeInv, NEW r \in Requests, NEW s, NEW c, stage[r] = "idle",
         stage' = [stage EXCEPT ![r] = s], ctx' = [ctx EXCEPT ![r] = c],
         <<c.op, s>> \in Entries, c.user \in Users,
         c.op # "mfa" => c.challenge = None, Entitled(c)
  PROVE  Path(r)
<1>1. OnlyMoves(r) /\ stage'[r] = s /\ ctx'[r] = c
  BY DEF TypeInv, RequestType, OnlyMoves
<1>. QED
  BY <1>1 DEF Path, Enters

LEMMA ArrivePath ==
  ASSUME TypeInv, NEW r \in Requests, NEW op, NEW u \in Users, NEW s,
         Arrive(r, op, u, s), <<op, s>> \in Entries, op \notin {"login", "refresh", "mfa"},
         op = "oauth" => ~account[u].disabled, op = "switch" => Authenticated(u)
  PROVE  Path(r)
<1>1. PICK c : c = [Blank EXCEPT !.op = op, !.user = u]
  OBVIOUS
<1>2. c.op = op /\ c.user = u /\ c.challenge = None
  BY <1>1 DEF Blank
<1>3. Entitled(c)
  BY <1>2 DEF Entitled
<1>. QED
  BY <1>1, <1>2, <1>3, EntersPath DEF Arrive

LEMMA FinishPath ==
  ASSUME TypeInv, NEW r \in Requests, Finish(r) PROVE Path(r)
BY MovesBasics DEF Path, Ends

LEMMA GotoPath ==
  ASSUME TypeInv, NEW r \in Requests, NEW s, Goto(r, s),
         <<stage[r], s>> \in Edges, Passes(stage[r], s, ctx[r])
  PROVE  Path(r)
BY MovesBasics DEF Path, Proceeds

LEMMA LoginPath ==
  ASSUME TypeInv, NEW r \in Requests, LoginStep(r) PROVE Path(r)
<1>1. ASSUME NEW u \in Users, LoginRead(r, u) PROVE Path(r)
  <2>1. PICK c, s :
          /\ c = [Blank EXCEPT !.op = "login", !.user = u,
                               !.failed = account[u].failed,
                               !.disabled = account[u].disabled]
          /\ s = IF account[u].lock = "expired" THEN "unlock" ELSE "password"
    OBVIOUS
  <2>2. /\ c.op = "login" /\ c.user = u /\ c.challenge = None
        /\ s \in {"unlock", "password"} /\ c.disabled = account[u].disabled
    BY <2>1 DEF Blank
  <2>3. Entitled(c)
    BY <1>1, <2>2 DEF LoginRead, Entitled
  <2>. QED
    BY <1>1, <2>1, <2>2, <2>3, EntersPath DEF LoginRead, Entries
<1>2. CASE LoginUnlock(r)
  BY <1>2, FinishPath, GotoPath DEF LoginUnlock, At, Edges, Passes
<1>3. CASE LoginWrong(r)
  BY <1>3, FinishPath, GotoPath DEF LoginWrong, At, Edges, Passes
<1>4. CASE LoginLock(r)
  BY <1>4, FinishPath DEF LoginLock
<1>5. CASE LoginRight(r)
  BY <1>5, FinishPath, GotoPath DEF LoginRight, At, Edges, Passes
<1>6. ASSUME NEW u \in Users, OAuthRead(r, u) PROVE Path(r)
  BY <1>6, ArrivePath DEF OAuthRead, Entries
<1>. QED
  BY <1>1, <1>2, <1>3, <1>4, <1>5, <1>6 DEF LoginStep

LEMMA GatePath ==
  ASSUME TypeInv, NEW r \in Requests, GateStep(r) PROVE Path(r)
<1>1. ASSUME NEW c \in Challenges, GateChallenge(r, c) PROVE Path(r)
  BY <1>1, FinishPath DEF GateChallenge
<1>2. CASE GatePass(r)
  BY <1>2, GotoPath DEF GatePass, At, Edges, Passes
<1>3. ASSUME NEW c \in Challenges, MfaTake(r, c) PROVE Path(r)
  <2>1. PICK k : k = [Blank EXCEPT !.op = "mfa", !.user = challenge[c].user,
                                   !.challenge = c]
    OBVIOUS
  <2>2. /\ k.op = "mfa" /\ k.user = challenge[c].user /\ k.challenge = c
        /\ challenge[c].user \in Users /\ challenge[c].state = "open"
        /\ challenge'[c].state = "gone"
    BY <1>3, <2>1 DEF MfaTake, Blank, TypeInv, ChallengeType, ChallengeKeys
  <2>. QED
    BY <1>3, <2>1, <2>2, EntersPath DEF MfaTake, Entries, Entitled
<1>4. CASE MfaRightCode(r)
  BY <1>4, GotoPath DEF MfaRightCode, At, Edges, Passes
<1>5. CASE MfaAccount(r)
  BY <1>5, FinishPath, GotoPath DEF MfaAccount, At, Edges, Passes
<1>. QED
  BY <1>1, <1>2, <1>3, <1>4, <1>5 DEF GateStep

LEMMA GrantPath ==
  ASSUME TypeInv, NEW r \in Requests, GrantStep(r) PROVE Path(r)
<1>1. ASSUME NEW t \in Tokens, Grant(r, t) PROVE Path(r)
  BY <1>1, FinishPath, GotoPath DEF Grant, At, Edges, Passes
<1>2. CASE GrantReset(r)
  BY <1>2, FinishPath DEF GrantReset
<1>3. ASSUME NEW t \in Tokens, RefreshFind(r, t) PROVE Path(r)
  <2>1. PICK k : k = [Blank EXCEPT !.op = "refresh", !.user = session[t].user,
                                   !.token = t]
    OBVIOUS
  <2>2. /\ k.op = "refresh" /\ k.user = session[t].user /\ k.challenge = None
        /\ session[t].user \in Users
    BY <1>3, <2>1 DEF RefreshFind, Blank, TypeInv, SessionType
  <2>. QED
    BY <1>3, <2>1, <2>2, EntersPath DEF RefreshFind, Entries, Entitled
<1>4. CASE RefreshRevoke(r)
  BY <1>4, GotoPath DEF RefreshRevoke, At, Edges, Passes
<1>5. ASSUME NEW u \in Users, SwitchArrive(r, u) PROVE Path(r)
  BY <1>5, ArrivePath DEF SwitchArrive, Entries
<1>6. CASE SwitchMember(r)
  BY <1>6, GotoPath DEF SwitchMember, At, Edges, Passes
<1>. QED
  BY <1>1, <1>2, <1>3, <1>4, <1>5, <1>6 DEF GrantStep

LEMMA EndPath ==
  ASSUME TypeInv, NEW r \in Requests, EndStep(r) \/ AdminStep(r) \/ Abort(r)
  PROVE  Path(r)
<1>1. ASSUME NEW u \in Users, NEW t \in Tokens, LogoutFind(r, u, t) PROVE Path(r)
  <2>1. PICK k : k = [Blank EXCEPT !.op = "logout", !.user = u, !.token = t]
    OBVIOUS
  <2>2. k.op = "logout" /\ k.user = u /\ k.challenge = None
    BY <2>1 DEF Blank
  <2>. QED
    BY <1>1, <2>1, <2>2, EntersPath DEF LogoutFind, Entries, Entitled
<1>2. CASE LogoutRevoke(r) \/ DisableBlock(r) \/ EnableUnblock(r) \/ Abort(r)
  BY <1>2, FinishPath DEF LogoutRevoke, DisableBlock, EnableUnblock, Abort
<1>3. CASE DisableRevoke(r)
  BY <1>3, GotoPath DEF DisableRevoke, At, Edges, Passes
<1>4. ASSUME NEW u \in Users, DisableFlag(r, u) \/ EnableFlag(r, u) PROVE Path(r)
  BY <1>4, ArrivePath DEF DisableFlag, EnableFlag, Entries
<1>. QED
  BY <1>1, <1>2, <1>3, <1>4 DEF EndStep, AdminStep

\* The requests' own steps, and the other steps, which move no request.
RequestStep(r) ==
  LoginStep(r) \/ GateStep(r) \/ GrantStep(r) \/ EndStep(r) \/ AdminStep(r) \/ Abort(r)

Elsewhere ==
  \/ \E u \in Users : RevokeAll(u) \/ LockExpires(u) \/ BlocklistExpires(u)
  \/ \E t \in Tokens : SessionExpires(t)
  \/ \E c \in Challenges : ChallengeExpires(c)

LEMMA Steps ==
  ASSUME TypeInv, [Next]_vars
  PROVE  \/ \E r \in Requests : RequestStep(r) /\ Path(r)
         \/ (Elsewhere \/ UNCHANGED vars) /\ UNCHANGED <<stage, ctx>>
<1>1. ASSUME NEW r \in Requests, RequestStep(r) PROVE Path(r)
  BY <1>1, LoginPath, GatePath, GrantPath, EndPath DEF RequestStep
<1>2. Elsewhere \/ UNCHANGED vars => UNCHANGED <<stage, ctx>>
  BY DEF Elsewhere, vars, RevokeAll, LockExpires, BlocklistExpires, SessionExpires,
     ChallengeExpires
<1>3. \/ \E r \in Requests : RequestStep(r)
      \/ Elsewhere \/ UNCHANGED vars
  BY DEF Next, Environment, RequestStep, Elsewhere
<1>. QED
  BY <1>1, <1>2, <1>3

\* What a request is, by where it stands.
Roles(s, c) ==
  /\ s \in {"unlock", "password", "lock"} => c.op = "login"
  /\ s \in {"code", "account"} => c.op = "mfa"
  /\ s = "reset" => c.op \in {"login", "mfa"}

RoleInv == \A r \in Requests : Roles(stage[r], ctx[r])

LEMMA RoleStep == TypeInv /\ RoleInv /\ [Next]_vars => RoleInv'
<1>. SUFFICES ASSUME TypeInv, RoleInv, [Next]_vars PROVE RoleInv'
  OBVIOUS
<1>1. ASSUME NEW r \in Requests, Path(r) PROVE RoleInv'
  <2>1. Roles(stage'[r], ctx'[r])
    BY <1>1 DEF Path, Enters, Proceeds, Ends, Entries, Edges, Passes, RoleInv, Roles
  <2>. QED
    BY <1>1, <2>1 DEF Path, OnlyMoves, RoleInv
<1>2. ASSUME UNCHANGED <<stage, ctx>> PROVE RoleInv'
  BY <1>2 DEF RoleInv
<1>. QED
  BY <1>1, <1>2, Steps

LEMMA RolesKept == Spec => []RoleInv
<1>1. Init => RoleInv
  BY DEF Init, RoleInv, Roles
<1>. QED
  BY <1>1, RoleStep, TypeCorrect, PTL DEF Spec

-----------------------------------------------------------------------------
(* The lock.                                                               *)

\* Who clears a lock early: a login that saw it expired, or a login or MFA
\* verification that was granted a session.
LEMMA LockCleared ==
  ASSUME TypeInv, RoleInv, [Next]_vars, NEW u \in Users,
         account[u].lock = "live", account'[u].lock \notin {"live", "expired"}
  PROVE  \E r \in Requests : /\ ctx[r].user = u /\ stage[r] \in {"unlock", "reset"}
                             /\ stage'[r] # stage[r]
<1>1. AccountType
  BY DEF TypeInv
<1>2. PICK r \in Requests : LoginUnlock(r) \/ GrantReset(r)
  <2>1. ASSUME NEW v \in Users, LockExpires(v)
        PROVE  account'[u].lock \in {"live", "expired"}
    BY <1>1, <2>1 DEF LockExpires, AccountType, Accounts
  <2>2. ASSUME NEW r \in Requests, LoginWrong(r) \/ LoginLock(r)
        PROVE  account'[u].lock \in {"live", "expired"}
    BY <1>1, <2>2 DEF LoginWrong, LoginLock, AccountType, Accounts
  <2>3. ASSUME NEW r \in Requests, NEW v \in Users, DisableFlag(r, v) \/ EnableFlag(r, v)
        PROVE  account'[u].lock \in {"live", "expired"}
    BY <1>1, <2>3 DEF DisableFlag, EnableFlag, AccountType, Accounts
  <2>4. UNCHANGED account => account'[u].lock \in {"live", "expired"}
    OBVIOUS
  <2>5. ASSUME NEW r \in Requests, LoginStep(r)
        PROVE  \/ LoginUnlock(r) \/ LoginWrong(r) \/ LoginLock(r)
               \/ UNCHANGED account
    BY <2>5 DEF LoginStep, LoginRead, LoginRight, OAuthRead
  <2>6. ASSUME NEW r \in Requests, GateStep(r) \/ GrantStep(r) \/ EndStep(r)
        PROVE  GrantReset(r) \/ UNCHANGED account
    BY <2>6 DEF GateStep, GateChallenge, GatePass, MfaTake, MfaRightCode, MfaAccount,
       GrantStep, Grant, RefreshFind, RefreshRevoke, SwitchArrive, SwitchMember,
       EndStep, LogoutFind, LogoutRevoke
  <2>7. ASSUME NEW r \in Requests, AdminStep(r)
        PROVE  \/ \E v \in Users : DisableFlag(r, v) \/ EnableFlag(r, v)
               \/ UNCHANGED account
    BY <2>7 DEF AdminStep, DisableRevoke, DisableBlock, EnableUnblock
  <2>8. CASE Environment
    BY <2>1, <2>4, <2>8 DEF Environment, Abort, RevokeAll, SessionExpires, ChallengeExpires,
       BlocklistExpires
  <2>. QED
    BY <2>1, <2>2, <2>3, <2>4, <2>5, <2>6, <2>7, <2>8 DEF Next, vars
<1>3. stage[r] \in {"unlock", "reset"} /\ ctx[r].user \in Users
  BY <1>2 DEF LoginUnlock, GrantReset, At, TypeInv, RequestType, Fits
<1>4. account' = [account EXCEPT ![ctx[r].user].failed = 0,
                                 ![ctx[r].user].lock = "none"]
  BY <1>2 DEF LoginUnlock, GrantReset, ResetFailedAttempts
<1>5. stage'[r] # stage[r]
  BY <1>2 DEF LoginUnlock, GrantReset, Goto, Finish, At, TypeInv, RequestType
<1>. QED
  BY <1>1, <1>3, <1>4, <1>5 DEF AccountType, Accounts

\* Nobody gets past a live lock.
LEMMA PastStep ==
  ASSUME TypeInv, [Next]_vars, NEW u \in Users, account[u].lock = "live"
  PROVE  Past(u)' \subseteq Past(u)
<1>. SUFFICES ASSUME NEW q \in Requests, q \in Past(u)' PROVE q \in Past(u)
  BY DEF Past
<1>1. /\ ctx'[q].user = u
      /\ \/ ctx'[q].op = "login" /\ stage'[q] # "lock"
         \/ ctx'[q].op = "mfa" /\ stage'[q] \notin {"code", "account"}
  BY DEF Past
<1>2. ASSUME NEW r \in Requests, Path(r) PROVE q \in Past(u)
  <2>1. CASE q # r
    BY <1>1, <1>2, <2>1 DEF Path, OnlyMoves, Past
  <2>2. CASE q = r
    <3>1. CASE Enters(stage[q], stage'[q], ctx'[q])
      BY <1>1, <3>1 DEF Enters, Entitled, Entries
    <3>2. CASE Proceeds(stage[q], stage'[q], ctx[q], ctx'[q])
      BY <1>1, <3>2 DEF Proceeds, Passes, Edges, Past
    <3>3. CASE Ends(stage'[q], ctx'[q])
      BY <1>1, <3>3 DEF Ends, Blank
    <3>. QED
      BY <1>2, <2>2, <3>1, <3>2, <3>3 DEF Path
  <2>. QED
    BY <2>1, <2>2
<1>3. CASE UNCHANGED <<stage, ctx>>
  BY <1>1, <1>3 DEF Past
<1>. QED
  BY <1>2, <1>3, Steps

LEMMA LockStep ==
  ASSUME TypeInv, RoleInv, [Next]_vars, NEW u \in Users,
         account[u].lock = "live", account'[u].lock # "expired"
  PROVE  /\ Past(u)' \subseteq Past(u)
         /\ \/ account'[u].lock = "live"
            \/ \E r \in Past(u) : /\ stage[r] \in {"unlock", "reset"}
                                  /\ stage'[r] # stage[r]
<1>1. Past(u)' \subseteq Past(u)
  BY PastStep
<1>2. ASSUME account'[u].lock # "live"
      PROVE  \E r \in Past(u) : /\ stage[r] \in {"unlock", "reset"}
                                /\ stage'[r] # stage[r]
  <2>1. PICK r \in Requests : /\ ctx[r].user = u /\ stage[r] \in {"unlock", "reset"}
                              /\ stage'[r] # stage[r]
    BY <1>2, LockCleared
  <2>2. r \in Past(u)
    BY <2>1 DEF Past, RoleInv, Roles
  <2>. QED
    BY <2>1, <2>2
<1>. QED
  BY <1>1, <1>2

\* No password and no MFA code gets past a live lock, and before it expires only
\* a request that had got past it when it was set clears it.
THEOREM Locked == Spec => LockHolds
<1>1. TypeInv /\ RoleInv /\ [Next]_vars =>
        [\A u \in Users :
           account[u].lock = "live" =>
             \/ account'[u].lock = "expired"
             \/ /\ Past(u)' \subseteq Past(u)
                /\ \/ account'[u].lock = "live"
                   \/ \E r \in Past(u) : /\ stage[r] \in {"unlock", "reset"}
                                         /\ stage'[r] # stage[r]]_vars
  BY LockStep
<1>. QED
  BY <1>1, TypeCorrect, RolesKept, PTL DEF Spec, LockHolds

-----------------------------------------------------------------------------
(* The seal of a disabled account.                                         *)

\* Only a request that stands at its grant makes a session active, and the
\* session is its account's.
LEMMA SessionStarts ==
  ASSUME TypeInv, [Next]_vars, NEW t \in Tokens,
         session'[t].state = "active", session[t].state # "active"
  PROVE  \E r \in Requests : stage[r] = "grant" /\ ctx[r].user = session'[t].user
<1>1. SessionType
  BY DEF TypeInv
<1>2. ASSUME NEW r \in Requests, NEW x \in Tokens, Grant(r, x)
      PROVE  stage[r] = "grant" /\ ctx[r].user = session'[t].user
  BY <1>1, <1>2 DEF Grant, At, SessionType, Sessions
<1>3. UNCHANGED session => FALSE
  OBVIOUS
<1>4. ASSUME NEW r \in Requests, RefreshRevoke(r) \/ LogoutRevoke(r)
      PROVE  FALSE
  BY <1>1, <1>4 DEF RefreshRevoke, LogoutRevoke, Revoke, SessionType, Sessions
<1>5. ASSUME NEW u, RevokeAllForUser(u)
      PROVE  FALSE
  BY <1>1, <1>5 DEF RevokeAllForUser, SessionType, Sessions
<1>6. ASSUME NEW x \in Tokens, SessionExpires(x)
      PROVE  FALSE
  BY <1>1, <1>6 DEF SessionExpires, SessionType, Sessions
<1>7. ASSUME NEW r \in Requests, LoginStep(r) \/ GateStep(r)
      PROVE  FALSE
  BY <1>3, <1>7 DEF LoginStep, LoginRead, LoginUnlock, LoginWrong, LoginLock,
     LoginRight, OAuthRead, GateStep, GateChallenge, GatePass, MfaTake,
     MfaRightCode, MfaAccount
<1>8. ASSUME NEW r \in Requests, GrantStep(r) \/ EndStep(r)
      PROVE  \E x \in Tokens : Grant(r, x)
  BY <1>3, <1>4, <1>8 DEF GrantStep, GrantReset, RefreshFind, SwitchArrive,
     SwitchMember, EndStep, LogoutFind
<1>9. ASSUME NEW r \in Requests, AdminStep(r)
      PROVE  FALSE
  BY <1>3, <1>5, <1>9 DEF AdminStep, DisableFlag, DisableRevoke, DisableBlock,
     EnableFlag, EnableUnblock
<1>10. ~Environment
  BY <1>3, <1>5, <1>6 DEF Environment, Abort, RevokeAll, LockExpires,
     ChallengeExpires, BlocklistExpires
<1>. QED
  BY <1>2, <1>3, <1>7, <1>8, <1>9, <1>10 DEF Next, vars

\* The ledger's steps change the owner of no session that was issued.
LEMMA UsersKept ==
  ASSUME TypeInv, [Next]_vars, NEW t \in Tokens, session[t].state # "absent"
  PROVE  session'[t].user = session[t].user
<1>1. CASE Ledger!Next
  BY <1>1 DEF Ledger!Next, Ledger!Issue, Ledger!End, TypeInv, SessionType, Sessions
<1>2. CASE UNCHANGED Ledger!ledger
  BY <1>2 DEF Ledger!ledger
<1>. QED
  BY <1>1, <1>2, LedgerStep

LEMMA SealStep ==
  ASSUME "outage" \notin Workload, TypeInv, RoleInv, [Next]_vars,
         NEW u \in Users, Sealed(u), account'[u].disabled, u \in blocklist'
  PROVE  Sealed(u)'
<1>1. \A t \in Tokens : session'[t].user = u => session'[t].state # "active"
  <2> SUFFICES ASSUME NEW t \in Tokens, session'[t].user = u,
                      session'[t].state = "active"
               PROVE  FALSE
    OBVIOUS
  <2>1. session[t].state = "active"
    BY SessionStarts DEF Sealed
  <2>2. session'[t].user = session[t].user
    BY <2>1, UsersKept
  <2>. QED
    BY <2>1, <2>2 DEF Sealed
<1>2. ASSUME NEW r \in Requests, Path(r), ctx'[r].user = u
      PROVE  /\ stage'[r] \notin {"gate", "rotate", "grant", "switch"}
             /\ stage'[r] \in {"unlock", "password"} => ctx'[r].disabled
  <2>1. CASE Enters(stage[r], stage'[r], ctx'[r])
    BY <1>2, <2>1 DEF Enters, Entitled, Entries, Authenticated, Sealed
  <2>2. CASE Proceeds(stage[r], stage'[r], ctx[r], ctx'[r])
    BY <1>2, <2>2 DEF Proceeds, Passes, Edges, Sealed
  <2>3. CASE Ends(stage'[r], ctx'[r])
    BY <1>2, <2>3 DEF Ends, Blank
  <2>. QED
    BY <1>2, <2>1, <2>2, <2>3 DEF Path
<1>3. ASSUME NEW q \in Requests, ctx'[q].user = u
      PROVE  /\ stage'[q] \notin {"gate", "rotate", "grant", "switch"}
             /\ stage'[q] \in {"unlock", "password"} => ctx'[q].disabled
  BY <1>2, <1>3, Steps DEF Path, OnlyMoves, Sealed
<1>. QED
  BY <1>1, <1>3 DEF Sealed

\* Once a disabled account is sealed, no login, challenge already out, OAuth
\* login, refresh or switch of organization issues a session to it until an
\* administrator enables it or the blocklist key lapses; while Redis is
\* unreachable the blocklist is not tested, and a switch may.
THEOREM Disabled ==
  ASSUME "outage" \notin Workload
  PROVE  Spec => DisableHolds
<1>1. TypeInv /\ RoleInv /\ [Next]_vars =>
        [\A u \in Users :
           Sealed(u) /\ account'[u].disabled /\ u \in blocklist' => Sealed(u)']_vars
  BY SealStep
<1>. QED
  BY <1>1, TypeCorrect, RolesKept, PTL DEF Spec, DisableHolds

-----------------------------------------------------------------------------
(* MFA challenges.  ChallengeSingleUse needs the requests between the       *)
(* GETDEL and the grant: one per challenge, and none once it was used.      *)

\* The stages a request passes on its way to a session.
Carrying ==
  {"unlock", "password", "gate", "code", "account", "rotate", "switch", "grant"}

Holds(r, c) == stage[r] \in Carrying /\ ctx[r].challenge = c

UsedOnce(c) ==
  /\ \A t \in Tokens : session[t].challenge = c =>
       challenge[c].state = "gone" /\ session[t].user = challenge[c].user
  /\ \A r \in Requests : Holds(r, c) =>
       challenge[c].state = "gone" /\ ctx[r].user = challenge[c].user
  /\ \A t, t2 \in Tokens :
       session[t].challenge = c /\ session[t2].challenge = c => t2 = t
  /\ \A q, r \in Requests : Holds(q, c) /\ Holds(r, c) => q = r
  /\ \A t \in Tokens, r \in Requests : ~(session[t].challenge = c /\ Holds(r, c))

ChallengeInv == \A c \in Challenges : UsedOnce(c)

\* The steps that write challenges or insert sessions, and the others.
LEMMA ChallengeSteps ==
  ASSUME TypeInv, [Next]_vars
  PROVE  \/ \E r \in Requests, t \in Tokens : Grant(r, t)
         \/ \E r \in Requests, c \in Challenges : MfaTake(r, c) \/ GateChallenge(r, c)
         \/ \E c \in Challenges : ChallengeExpires(c)
         \/ /\ RowsKept /\ UNCHANGED challenge
            /\ (\E r \in Requests : Path(r)) \/ UNCHANGED <<stage, ctx>>
<1> DEFINE Quiet == RowsKept /\ UNCHANGED challenge
           Writes == \/ \E r \in Requests, t \in Tokens : Grant(r, t)
                     \/ \E r \in Requests, c \in Challenges :
                          MfaTake(r, c) \/ GateChallenge(r, c)
                     \/ \E c \in Challenges : ChallengeExpires(c)
<1>1. ASSUME NEW r \in Requests, LoginStep(r) PROVE Quiet
  BY <1>1, RowsKeptBasics DEF LoginStep, LoginRead, LoginUnlock, LoginWrong,
     LoginLock, LoginRight, OAuthRead
<1>2. ASSUME NEW r \in Requests, GateStep(r) PROVE Writes \/ Quiet
  BY <1>2, RowsKeptBasics DEF GateStep, GatePass, MfaRightCode, MfaAccount
<1>3. ASSUME NEW r \in Requests, RefreshRevoke(r) \/ LogoutRevoke(r) PROVE Quiet
  <2>1. PICK t \in Tokens : session[t].state # "absent" /\ Revoke(t)
    BY <1>3 DEF RefreshRevoke, LogoutRevoke, At, TypeInv, RequestType, Fits
  <2>. QED
    BY <1>3, <2>1, RowsKeptBasics DEF RefreshRevoke, LogoutRevoke
<1>4. ASSUME NEW r \in Requests, GrantStep(r) \/ EndStep(r) PROVE Writes \/ Quiet
  BY <1>3, <1>4, RowsKeptBasics DEF GrantStep, GrantReset, RefreshFind,
     SwitchArrive, SwitchMember, EndStep, LogoutFind
<1>5. ASSUME NEW r \in Requests, AdminStep(r) PROVE Quiet
  <2>1. CASE DisableRevoke(r)
    <3>1. ctx[r].user \in Users
      BY <2>1 DEF DisableRevoke, At, TypeInv, RequestType, Fits
    <3>. QED
      BY <2>1, <3>1, RowsKeptBasics DEF DisableRevoke
  <2>. QED
    BY <1>5, <2>1, RowsKeptBasics
       DEF AdminStep, DisableFlag, DisableBlock, EnableFlag, EnableUnblock
<1>6. ASSUME NEW t \in Tokens, SessionExpires(t) PROVE Quiet
  BY <1>6 DEF SessionExpires, RowsKept, TypeInv, SessionType, Sessions
<1>7. Environment => Writes \/ Quiet
  BY <1>6, RowsKeptBasics DEF Environment, Abort, RevokeAll, LockExpires,
     BlocklistExpires
<1>8. UNCHANGED vars => Quiet
  BY RowsKeptBasics DEF vars
<1>9. Writes \/ Quiet
  BY <1>1, <1>2, <1>4, <1>5, <1>7, <1>8 DEF Next
<1>. QED
  BY <1>9, Steps

LEMMA ChallengeStep ==
  ASSUME TypeInv, RoleInv, ChallengeInv, [Next]_vars, NEW c \in Challenges
  PROVE  UsedOnce(c)'
<1>1. UsedOnce(c) /\ c # None
  BY NoneIsNothing DEF ChallengeInv
<1>2. ASSUME NEW r \in Requests, NEW t \in Tokens, Grant(r, t) PROVE UsedOnce(c)'
  <2>1. /\ session[t].state = "absent"
        /\ session'[t].challenge = ctx[r].challenge /\ session'[t].user = ctx[r].user
        /\ \A x \in Tokens \ {t} : session'[x] = session[x]
        /\ UNCHANGED challenge
    BY <1>2 DEF Grant, TypeInv, SessionType
  <2>2. /\ stage[r] = "grant" /\ stage'[r] \in {"reset", "idle"}
        /\ \A q \in Requests \ {r} : stage'[q] = stage[q] /\ ctx'[q] = ctx[q]
    BY <1>2, MovesBasics DEF Grant, At, OnlyMoves
  <2>. QED
    BY <1>1, <2>1, <2>2 DEF UsedOnce, Holds, Carrying
<1>3. ASSUME NEW r \in Requests, NEW b \in Challenges, MfaTake(r, b)
      PROVE  UsedOnce(c)'
  <2>1. /\ UNCHANGED session /\ challenge[b].state = "open"
        /\ challenge'[b].state = "gone" /\ challenge'[b].user = challenge[b].user
        /\ \A x \in Challenges \ {b} : challenge'[x] = challenge[x]
    BY <1>3 DEF MfaTake, TypeInv, ChallengeType, ChallengeKeys
  <2>2. /\ stage'[r] = "code" /\ ctx'[r].user = challenge[b].user
        /\ ctx'[r].challenge = b
        /\ \A q \in Requests \ {r} : stage'[q] = stage[q] /\ ctx'[q] = ctx[q]
    BY <1>3 DEF MfaTake, Blank, TypeInv, RequestType
  <2>. QED
    BY <1>1, <2>1, <2>2 DEF UsedOnce, Holds, Carrying
<1>4. ASSUME NEW r \in Requests, NEW b \in Challenges, GateChallenge(r, b)
      PROVE  UsedOnce(c)'
  <2>1. /\ UNCHANGED session /\ challenge[b].state = "absent"
        /\ \A x \in Challenges \ {b} : challenge'[x] = challenge[x]
    BY <1>4 DEF GateChallenge, TypeInv, ChallengeType
  <2>2. /\ stage'[r] = "idle"
        /\ \A q \in Requests \ {r} : stage'[q] = stage[q] /\ ctx'[q] = ctx[q]
    BY <1>4, MovesBasics DEF GateChallenge, OnlyMoves
  <2>. QED
    BY <1>1, <2>1, <2>2 DEF UsedOnce, Holds, Carrying
<1>5. ASSUME NEW b \in Challenges, ChallengeExpires(b) PROVE UsedOnce(c)'
  <2>1. /\ UNCHANGED <<session, stage, ctx>> /\ challenge[b].state = "open"
        /\ \A x \in Challenges \ {b} : challenge'[x] = challenge[x]
    BY <1>5 DEF ChallengeExpires, TypeInv, ChallengeType
  <2>. QED
    BY <1>1, <2>1 DEF UsedOnce, Holds
<1>6. ASSUME RowsKept, UNCHANGED challenge, NEW r \in Requests, Path(r)
      PROVE  UsedOnce(c)'
  <2>1. Holds(r, c)' => Holds(r, c) /\ ctx'[r] = ctx[r]
    <3>1. CASE Enters(stage[r], stage'[r], ctx'[r])
      BY <1>1, <1>6, <3>1 DEF Enters, Entitled, Holds
    <3>2. CASE Proceeds(stage[r], stage'[r], ctx[r], ctx'[r])
      BY <3>2 DEF Proceeds, Edges, Holds, Carrying
    <3>3. CASE Ends(stage'[r], ctx'[r])
      BY <3>3 DEF Ends, Holds, Carrying
    <3>. QED
      BY <1>6, <3>1, <3>2, <3>3 DEF Path
  <2>2. \A q \in Requests \ {r} : (Holds(q, c)' <=> Holds(q, c)) /\ ctx'[q] = ctx[q]
    BY <1>6 DEF Path, OnlyMoves, Holds
  <2>. QED
    BY <1>1, <1>6, <2>1, <2>2 DEF UsedOnce, RowsKept
<1>7. ASSUME RowsKept, UNCHANGED challenge, UNCHANGED <<stage, ctx>>
      PROVE  UsedOnce(c)'
  BY <1>1, <1>7 DEF UsedOnce, Holds, RowsKept
<1>. QED
  BY <1>2, <1>3, <1>4, <1>5, <1>6, <1>7, ChallengeSteps

\* However many requests present a challenge, it yields at most one session,
\* the challenged account's.
THEOREM OneSessionPerChallenge == Spec => []ChallengeSingleUse
<1>1. Init => ChallengeInv
  <2>. SUFFICES ASSUME Init, NEW c \in Challenges PROVE UsedOnce(c)
    BY DEF ChallengeInv
  <2>1. c # None
    BY NoneIsNothing
  <2>. QED
    BY <2>1 DEF Init, UsedOnce, Holds, Carrying, NoSession
<1>2. TypeInv /\ RoleInv /\ ChallengeInv /\ [Next]_vars => ChallengeInv'
  BY ChallengeStep DEF ChallengeInv
<1>3. TypeInv /\ ChallengeInv => ChallengeSingleUse
  BY DEF TypeInv, SessionType, Sessions, ChallengeInv, UsedOnce, ChallengeSingleUse
<1>. QED
  BY <1>1, <1>2, <1>3, TypeCorrect, RolesKept, PTL DEF Spec

-----------------------------------------------------------------------------
(* How far guesses overshoot.  A request that read a count below the limit  *)
(* guesses once and does not lock; one that read it at the limit guesses    *)
(* and then holds its place until it locks the account.                     *)

Early(u) ==
  {r \in Requests : /\ stage[r] = "password" /\ ctx[r].user = u
                    /\ ctx[r].failed + 1 < MaxAttempts}

Late(u) ==
  {r \in Requests : /\ stage[r] = "password" /\ ctx[r].user = u
                    /\ ctx[r].failed + 1 >= MaxAttempts}

Locking(u) == {r \in Requests : stage[r] = "lock" /\ ctx[r].user = u}

\* While there is no lock, each guess beyond the early ones has its request
\* still about to lock; once there is one, nobody reads the count any more.
Guesses(u) ==
  LET n == Cardinality(Requests)
  IN  IF account[u].lock = "none"
      THEN account[u].failed + Cardinality(Early(u))
             <= MaxAttempts - 2 + n + Cardinality(Locking(u))
      ELSE account[u].failed + Cardinality(Early(u)) + Cardinality(Late(u))
             <= MaxAttempts - 2 + 2 * n

GuessInv == \A u \in Users : Guesses(u)

\* A step that neither guesses at u nor reads, locks or resets its count.
Unguessed(u) ==
  /\ account'[u].failed = account[u].failed
  /\ account'[u].lock = "none" <=> account[u].lock = "none"
  /\ Early(u)' \subseteq Early(u) /\ Late(u)' \subseteq Late(u)
  /\ Locking(u)' = Locking(u)

LEMMA GuessSets ==
  ASSUME IsFiniteSet(Requests), NEW u
  PROVE  /\ Cardinality(Requests) \in Nat
         /\ IsFiniteSet(Early(u)) /\ IsFiniteSet(Late(u)) /\ IsFiniteSet(Locking(u))
         /\ Cardinality(Early(u)) \in Nat /\ Cardinality(Late(u)) \in Nat
         /\ Cardinality(Locking(u)) \in Nat
         /\ Cardinality(Early(u)) <= Cardinality(Requests)
         /\ Cardinality(Locking(u)) <= Cardinality(Requests)
         /\ Cardinality(Late(u)) + Cardinality(Locking(u)) <= Cardinality(Requests)
<1>1. /\ Early(u) \subseteq Requests /\ Late(u) \subseteq Requests
      /\ Locking(u) \subseteq Requests /\ Late(u) \cap Locking(u) = {}
      /\ Late(u) \cup Locking(u) \subseteq Requests
  BY DEF Early, Late, Locking
<1>2. \A S \in SUBSET Requests :
        /\ IsFiniteSet(S) /\ Cardinality(S) \in Nat
        /\ Cardinality(S) <= Cardinality(Requests)
  BY FS_Subset, FS_CardinalityType
<1>3. Cardinality(Late(u) \cup Locking(u)) =
        Cardinality(Late(u)) + Cardinality(Locking(u))
  <2>1. Cardinality(Late(u) \cap Locking(u)) = 0
    BY <1>1, FS_EmptySet
  <2>2. Cardinality(Late(u) \cup Locking(u)) =
          Cardinality(Late(u)) + Cardinality(Locking(u))
            - Cardinality(Late(u) \cap Locking(u))
    BY <1>1, <1>2, FS_Union
  <2>. QED
    BY <1>1, <1>2, <2>1, <2>2
<1>4. Cardinality(Requests) \in Nat
  BY FS_CardinalityType
<1>. QED
  BY <1>1, <1>2, <1>3, <1>4

LEMMA UnguessedKeeps ==
  ASSUME IsFiniteSet(Requests), TypeInv, NEW u \in Users, Guesses(u), Unguessed(u)
  PROVE  Guesses(u)'
<1>1. account[u].failed \in Nat
  BY DEF TypeInv, AccountType, Accounts
<1>2. /\ Cardinality(Early(u)') \in Nat /\ Cardinality(Late(u)') \in Nat
      /\ Cardinality(Early(u)') <= Cardinality(Early(u))
      /\ Cardinality(Late(u)') <= Cardinality(Late(u))
  BY GuessSets, FS_Subset, FS_CardinalityType DEF Unguessed
<1>3. /\ Cardinality(Early(u)) \in Nat /\ Cardinality(Late(u)) \in Nat
      /\ Cardinality(Locking(u)) \in Nat /\ Cardinality(Requests) \in Nat
  BY GuessSets
<1>. QED
  BY <1>1, <1>2, <1>3, MaxAttemptsIsPositive DEF Guesses, Unguessed

\* A reset.
LEMMA ResetGuesses ==
  ASSUME IsFiniteSet(Requests), Requests # {}, TypeInv', NEW u \in Users,
         account'[u].failed = 0, account'[u].lock = "none"
  PROVE  Guesses(u)'
<1>1. Early(u)' \subseteq Requests /\ Locking(u)' \subseteq Requests
  BY DEF Early, Locking
<1>2. /\ Cardinality(Early(u)') \in Nat /\ Cardinality(Locking(u)') \in Nat
      /\ Cardinality(Requests) \in Nat
      /\ Cardinality(Early(u)') <= Cardinality(Requests)
  BY <1>1, FS_Subset, FS_CardinalityType
<1>3. Cardinality(Requests) # 0
  BY FS_EmptySet
<1>4. ASSUME MaxAttempts = 1 PROVE Cardinality(Early(u)') = 0
  <2>1. \A r \in Requests : ctx'[r].failed \in Nat
    BY DEF TypeInv, RequestType, Contexts
  <2>2. Early(u)' = {}
    BY <1>4, <2>1 DEF Early
  <2>. QED
    BY <2>2, FS_EmptySet
<1>. QED
  BY <1>2, <1>3, <1>4, MaxAttemptsIsPositive DEF Guesses

\* Request r works for another account, or is not concerned with the count.
LEMMA PathElsewhere ==
  ASSUME TypeInv, NEW r \in Requests, Path(r), NEW u \in Users,
         ctx[r].user # u \/ stage[r] # "lock",
         ctx'[r].user # u \/ stage'[r] \notin {"password", "lock"},
         account'[u].failed = account[u].failed,
         account'[u].lock = "none" <=> account[u].lock = "none"
  PROVE  Unguessed(u)
BY DEF Path, OnlyMoves, Unguessed, Early, Late, Locking

\* The count is read, and no lock is in force.
LEMMA ReadGuesses ==
  ASSUME IsFiniteSet(Requests), TypeInv, NEW u \in Users, Guesses(u),
         NEW r \in Requests, OnlyMoves(r), stage[r] = "idle",
         stage'[r] = "password", ctx'[r].user = u,
         ctx'[r].failed = account[u].failed,
         account[u].lock = "none", UNCHANGED account
  PROVE  Guesses(u)'
<1>1. /\ account[u].failed \in Nat /\ MaxAttempts \in Nat
  BY MaxAttemptsIsPositive DEF TypeInv, AccountType, Accounts
<1>2. Locking(u)' = Locking(u)
  BY DEF OnlyMoves, Locking
<1>3. Cardinality(Requests) \in Nat /\ Cardinality(Locking(u)) \in Nat
  BY GuessSets
<1>4. CASE account[u].failed + 1 < MaxAttempts
  <2>1. Early(u)' \subseteq Requests
    BY DEF Early
  <2>2. Cardinality(Early(u)') \in Nat /\ Cardinality(Early(u)')
            <= Cardinality(Requests)
    BY <2>1, FS_Subset, FS_CardinalityType
  <2>. QED
    BY <1>1, <1>2, <1>3, <1>4, <2>2 DEF Guesses
<1>5. CASE ~(account[u].failed + 1 < MaxAttempts)
  <2>1. Early(u)' = Early(u)
    BY <1>1, <1>5 DEF OnlyMoves, Early
  <2>. QED
    BY <1>2, <2>1 DEF Guesses
<1>. QED
  BY <1>4, <1>5

\* A wrong guess: it was early, and is over, or it goes on to lock.
LEMMA WrongGuesses ==
  ASSUME IsFiniteSet(Requests), TypeInv, NEW r \in Requests, LoginWrong(r),
         NEW u \in Users, u = ctx[r].user, Guesses(u)
  PROVE  Guesses(u)'
<1>1. /\ stage[r] = "password" /\ OnlyMoves(r)
      /\ IF ctx[r].failed + 1 >= MaxAttempts
         THEN stage'[r] = "lock" /\ ctx'[r] = ctx[r] ELSE stage'[r] = "idle"
      /\ account' = [account EXCEPT ![u].failed = account[u].failed + 1]
  BY MovesBasics DEF LoginWrong, At
<1>2. /\ account'[u].failed = account[u].failed + 1
      /\ account'[u].lock = account[u].lock /\ account[u].failed \in Nat
      /\ ctx[r].failed \in Nat /\ MaxAttempts \in Nat
  BY <1>1, MaxAttemptsIsPositive
     DEF TypeInv, AccountType, Accounts, RequestType, Contexts
<1>3. /\ IsFiniteSet(Early(u)) /\ IsFiniteSet(Late(u)) /\ IsFiniteSet(Locking(u))
      /\ Cardinality(Early(u)) \in Nat /\ Cardinality(Late(u)) \in Nat
      /\ Cardinality(Locking(u)) \in Nat /\ Cardinality(Requests) \in Nat
  BY GuessSets
<1>4. CASE ctx[r].failed + 1 < MaxAttempts
  <2>1. /\ r \in Early(u) /\ Early(u)' = Early(u) \ {r} /\ Late(u)' = Late(u)
        /\ Locking(u)' = Locking(u)
    BY <1>1, <1>2, <1>4 DEF OnlyMoves, Early, Late, Locking
  <2>2. Cardinality(Early(u)') = Cardinality(Early(u)) - 1
    BY <1>3, <2>1, FS_RemoveElement
  <2>. QED
    BY <1>2, <1>3, <2>1, <2>2 DEF Guesses
<1>5. CASE ~(ctx[r].failed + 1 < MaxAttempts)
  <2>1. /\ r \in Late(u) /\ Late(u)' = Late(u) \ {r} /\ Early(u)' = Early(u)
        /\ r \notin Locking(u) /\ Locking(u)' = Locking(u) \cup {r}
    BY <1>1, <1>2, <1>5 DEF OnlyMoves, Early, Late, Locking
  <2>2. Cardinality(Late(u)') = Cardinality(Late(u)) - 1
    BY <1>3, <2>1, FS_RemoveElement
  <2>3. Cardinality(Locking(u)') = Cardinality(Locking(u)) + 1
    BY <1>3, <2>1, FS_AddElement
  <2>. QED
    BY <1>2, <1>3, <2>1, <2>2, <2>3 DEF Guesses
<1>. QED
  BY <1>4, <1>5

\* The account is locked: what is still to come is at most what is in flight.
LEMMA LockGuesses ==
  ASSUME IsFiniteSet(Requests), TypeInv, NEW r \in Requests, LoginLock(r),
         NEW u \in Users, u = ctx[r].user, Guesses(u)
  PROVE  Guesses(u)'
<1>1. /\ stage[r] = "lock" /\ OnlyMoves(r) /\ stage'[r] = "idle"
      /\ account' = [account EXCEPT ![u].lock = "live"]
  BY MovesBasics DEF LoginLock, At
<1>2. /\ account'[u].failed = account[u].failed /\ account'[u].lock = "live"
      /\ account[u].failed \in Nat /\ MaxAttempts \in Nat
  BY <1>1, MaxAttemptsIsPositive DEF TypeInv, AccountType, Accounts
<1>3. Early(u)' = Early(u) /\ Late(u)' = Late(u)
  BY <1>1 DEF OnlyMoves, Early, Late
<1>4. /\ Cardinality(Early(u)) \in Nat /\ Cardinality(Late(u)) \in Nat
      /\ Cardinality(Locking(u)) \in Nat /\ Cardinality(Requests) \in Nat
      /\ Cardinality(Late(u)) + Cardinality(Locking(u)) <= Cardinality(Requests)
  BY GuessSets
<1>. QED
  BY <1>2, <1>3, <1>4 DEF Guesses

\* Steps that neither start nor end a guess, nor lock.
Calm(r) == stage[r] # "lock" /\ stage'[r] \notin {"password", "lock"}

LEMMA CalmMoves ==
  ASSUME TypeInv, NEW r \in Requests, stage[r] # "lock"
  PROVE  /\ Finish(r) => Calm(r)
         /\ \A s : s \notin {"password", "lock"} /\ Goto(r, s) => Calm(r)
         /\ \A op, u, s : s \notin {"password", "lock"} /\ Arrive(r, op, u, s) => Calm(r)
         /\ \A s : s \notin {"password", "lock"} /\ stage' = [stage EXCEPT ![r] = s]
              => Calm(r)
BY DEF TypeInv, RequestType, Finish, Goto, Arrive, Calm

LEMMA GateCalm ==
  ASSUME TypeInv, NEW r \in Requests, GateStep(r)
  PROVE  Calm(r) /\ UNCHANGED account
<1>1. stage[r] # "lock" /\ UNCHANGED account
  BY DEF GateStep, GateChallenge, GatePass, MfaTake, MfaRightCode, MfaAccount, At
<1>2. ASSUME NEW c \in Challenges, GateChallenge(r, c) PROVE Calm(r)
  BY <1>1, <1>2, CalmMoves DEF GateChallenge
<1>3. ASSUME NEW c \in Challenges, MfaTake(r, c) PROVE Calm(r)
  BY <1>1, <1>3, CalmMoves DEF MfaTake
<1>4. CASE GatePass(r) \/ MfaRightCode(r)
  BY <1>1, <1>4, CalmMoves DEF GatePass, MfaRightCode
<1>5. CASE MfaAccount(r)
  BY <1>1, <1>5, CalmMoves DEF MfaAccount
<1>. QED
  BY <1>1, <1>2, <1>3, <1>4, <1>5 DEF GateStep

LEMMA GrantCalm ==
  ASSUME TypeInv, NEW r \in Requests, GrantStep(r), ~GrantReset(r)
  PROVE  Calm(r) /\ UNCHANGED account
<1>1. stage[r] # "lock" /\ UNCHANGED account
  BY DEF GrantStep, Grant, RefreshFind, RefreshRevoke, SwitchArrive, SwitchMember,
     Arrive, At
<1>2. ASSUME NEW t \in Tokens, Grant(r, t) PROVE Calm(r)
  BY <1>1, <1>2, CalmMoves DEF Grant
<1>3. ASSUME NEW t \in Tokens, RefreshFind(r, t) PROVE Calm(r)
  BY <1>1, <1>3, CalmMoves DEF RefreshFind
<1>4. CASE RefreshRevoke(r) \/ SwitchMember(r)
  BY <1>1, <1>4, CalmMoves DEF RefreshRevoke, SwitchMember
<1>5. ASSUME NEW u \in Users, SwitchArrive(r, u) PROVE Calm(r)
  BY <1>1, <1>5, CalmMoves DEF SwitchArrive
<1>. QED
  BY <1>1, <1>2, <1>3, <1>4, <1>5 DEF GrantStep

LEMMA EndCalm ==
  ASSUME TypeInv, NEW r \in Requests, EndStep(r) \/ AdminStep(r)
  PROVE  /\ Calm(r)
         /\ \A u \in Users : /\ account'[u].failed = account[u].failed
                            /\ account'[u].lock = account[u].lock
<1>1. stage[r] # "lock"
  BY DEF EndStep, LogoutFind, LogoutRevoke, AdminStep, DisableFlag, DisableRevoke,
     DisableBlock, EnableFlag, EnableUnblock, Arrive, At
<1>2. ASSUME NEW u \in Users, NEW t \in Tokens, LogoutFind(r, u, t)
      PROVE  Calm(r) /\ UNCHANGED account
  BY <1>1, <1>2, CalmMoves DEF LogoutFind
<1>3. CASE LogoutRevoke(r) \/ DisableBlock(r) \/ EnableUnblock(r) \/ DisableRevoke(r)
  BY <1>1, <1>3, CalmMoves DEF LogoutRevoke, DisableBlock, EnableUnblock, DisableRevoke
<1>4. ASSUME NEW v \in Users, DisableFlag(r, v) \/ EnableFlag(r, v)
      PROVE  /\ Calm(r)
             /\ \A u \in Users : /\ account'[u].failed = account[u].failed
                                /\ account'[u].lock = account[u].lock
  <2>1. Calm(r)
    BY <1>1, <1>4, CalmMoves DEF DisableFlag, EnableFlag
  <2>2. \E b \in BOOLEAN : account' = [account EXCEPT ![v].disabled = b]
    BY <1>4 DEF DisableFlag, EnableFlag
  <2>. QED
    BY <2>1, <2>2 DEF TypeInv, AccountType, Accounts
<1>. QED
  BY <1>2, <1>3, <1>4 DEF EndStep, AdminStep

LEMMA GuessStep ==
  ASSUME IsFiniteSet(Requests), Requests # {}, "abort" \notin Workload,
         TypeInv, RoleInv, TypeInv', [Next]_vars, NEW u \in Users, Guesses(u)
  PROVE  Guesses(u)'
<1>0. AccountType
  BY DEF TypeInv
<1>1. ASSUME NEW r \in Requests, NEW v \in Users, LoginRead(r, v)
      PROVE  Guesses(u)'
  <2>1. /\ OnlyMoves(r) /\ stage[r] = "idle" /\ ctx'[r].user = v
        /\ ctx'[r].failed = account[v].failed /\ UNCHANGED account
        /\ \/ stage'[r] = "unlock"
           \/ stage'[r] = "password" /\ account[v].lock = "none"
    BY <1>1 DEF LoginRead, OnlyMoves, Blank, TypeInv, RequestType
  <2>2. Path(r)
    BY <1>1, LoginPath DEF LoginStep
  <2>3. CASE v = u /\ stage'[r] = "password"
    BY <2>1, <2>3, ReadGuesses
  <2>4. CASE v # u \/ stage'[r] = "unlock"
    BY <2>1, <2>2, <2>4, PathElsewhere, UnguessedKeeps
  <2>. QED
    BY <2>1, <2>3, <2>4
<1>2. ASSUME NEW r \in Requests, LoginUnlock(r) \/ GrantReset(r)
      PROVE  Guesses(u)'
  <2>1. /\ ctx[r].user \in Users /\ stage[r] \in {"unlock", "reset"}
        /\ account' = [account EXCEPT ![ctx[r].user].failed = 0,
                                      ![ctx[r].user].lock = "none"]
    BY <1>2 DEF LoginUnlock, GrantReset, ResetFailedAttempts, At, TypeInv,
       RequestType, Fits
  <2>2. CASE ctx[r].user = u
    <3>1. account'[u].failed = 0 /\ account'[u].lock = "none"
      BY <1>0, <2>1, <2>2 DEF AccountType, Accounts
    <3>. QED
      BY <3>1, ResetGuesses
  <2>3. CASE ctx[r].user # u
    <3>1. account'[u] = account[u]
      BY <1>0, <2>1, <2>3 DEF AccountType
    <3>2. Path(r)
      BY <1>2, LoginPath, GrantPath DEF LoginStep, GrantStep
    <3>3. ctx'[r].user # u \/ stage'[r] = "idle"
      BY <1>2, <2>3, MovesBasics DEF LoginUnlock, GrantReset
    <3>. QED
      BY <2>1, <3>1, <3>2, <3>3, PathElsewhere, UnguessedKeeps
  <2>. QED
    BY <2>2, <2>3
<1>3. ASSUME NEW r \in Requests, LoginWrong(r) \/ LoginLock(r)
      PROVE  Guesses(u)'
  <2>1. ctx[r].user \in Users
    BY <1>3 DEF LoginWrong, LoginLock, At, TypeInv, RequestType, Fits
  <2>2. CASE ctx[r].user = u
    BY <1>3, <2>2, WrongGuesses, LockGuesses
  <2>3. CASE ctx[r].user # u
    <3>1. account'[u] = account[u]
      BY <1>0, <1>3, <2>1, <2>3 DEF LoginWrong, LoginLock, AccountType
    <3>2. Path(r)
      BY <1>3, LoginPath DEF LoginStep
    <3>3. ctx'[r].user # u \/ stage'[r] = "idle"
      BY <1>3, <2>3, MovesBasics DEF LoginWrong, LoginLock
    <3>. QED
      BY <2>3, <3>1, <3>2, <3>3, PathElsewhere, UnguessedKeeps
  <2>. QED
    BY <2>2, <2>3
<1>4. ASSUME NEW r \in Requests, Path(r), UNCHANGED account, Calm(r)
      PROVE  Guesses(u)'
  BY <1>4, PathElsewhere, UnguessedKeeps DEF Calm
<1>5. ASSUME NEW r \in Requests, LoginStep(r)
      PROVE  Guesses(u)'
  <2>1. CASE LoginRight(r)
    <3>1. stage[r] # "lock" /\ UNCHANGED account
      BY <2>1 DEF LoginRight, At
    <3>2. Calm(r)
      BY <2>1, <3>1, CalmMoves DEF LoginRight
    <3>. QED
      BY <1>4, <1>5, <3>1, <3>2, LoginPath
  <2>2. ASSUME NEW v \in Users, OAuthRead(r, v) PROVE Guesses(u)'
    <3>1. stage[r] # "lock" /\ UNCHANGED account
      BY <2>2 DEF OAuthRead, Arrive
    <3>2. Calm(r)
      BY <2>2, <3>1, CalmMoves DEF OAuthRead
    <3>. QED
      BY <1>4, <1>5, <3>1, <3>2, LoginPath
  <2>. QED
    BY <1>1, <1>2, <1>3, <1>5, <2>1, <2>2 DEF LoginStep
<1>6. ASSUME NEW r \in Requests, GateStep(r)
      PROVE  Guesses(u)'
  BY <1>4, <1>6, GateCalm, GatePath
<1>7. ASSUME NEW r \in Requests, GrantStep(r)
      PROVE  Guesses(u)'
  BY <1>2, <1>4, <1>7, GrantCalm, GrantPath
<1>8. ASSUME NEW r \in Requests, EndStep(r) \/ AdminStep(r)
      PROVE  Guesses(u)'
  BY <1>8, EndCalm, EndPath, PathElsewhere, UnguessedKeeps DEF Calm
<1>9. ASSUME UNCHANGED <<stage, ctx>>, account'[u].failed = account[u].failed,
             account'[u].lock = "none" <=> account[u].lock = "none"
      PROVE  Guesses(u)'
  <2>1. Unguessed(u)
    BY <1>9 DEF Unguessed, Early, Late, Locking
  <2>. QED
    BY <2>1, UnguessedKeeps
<1>10. CASE Environment
  <2>1. ASSUME NEW v \in Users, LockExpires(v)
        PROVE  /\ account'[u].failed = account[u].failed
               /\ account'[u].lock = "none" <=> account[u].lock = "none"
    BY <1>0, <2>1 DEF LockExpires, AccountType, Accounts
  <2>. QED
    BY <1>9, <1>10, <2>1 DEF Environment, Abort, RevokeAll, LockExpires,
       SessionExpires, ChallengeExpires, BlocklistExpires
<1>11. CASE UNCHANGED vars
  BY <1>9, <1>11 DEF vars
<1>. QED
  BY <1>5, <1>6, <1>7, <1>8, <1>10, <1>11 DEF Next

\* The lock is decided on a count read before, so concurrent guesses overshoot
\* the limit; by no more than two for each request in flight, as long as
\* requests that must lock the account get to do so.
THEOREM Overshoot ==
  ASSUME IsFiniteSet(Requests), Requests # {}, "abort" \notin Workload
  PROVE  Spec => []GuessesBounded
<1>1. Init => GuessInv
  <2>. SUFFICES ASSUME Init, NEW u \in Users PROVE Guesses(u)
    BY DEF GuessInv
  <2>1. /\ Early(u) = {} /\ Locking(u) = {}
        /\ account[u].failed = 0 /\ account[u].lock = "none"
    BY DEF Init, Early, Locking
  <2>2. Cardinality(Requests) \in Nat /\ Cardinality(Requests) # 0
    BY FS_CardinalityType, FS_EmptySet
  <2>. QED
    BY <2>1, <2>2, FS_EmptySet, MaxAttemptsIsPositive DEF Guesses
<1>2. TypeInv /\ RoleInv /\ TypeInv' /\ GuessInv /\ [Next]_vars => GuessInv'
  BY GuessStep DEF GuessInv
<1>3. TypeInv /\ GuessInv => GuessesBounded
  <2>. SUFFICES ASSUME TypeInv, GuessInv, NEW u \in Users
                PROVE  account[u].failed
                         <= MaxAttempts - 2 + 2 * Cardinality(Requests)
    BY DEF GuessesBounded
  <2>1. Guesses(u) /\ account[u].failed \in Nat /\ MaxAttempts \in Nat
    BY MaxAttemptsIsPositive DEF GuessInv, TypeInv, AccountType, Accounts
  <2>. QED
    BY <2>1, GuessSets DEF Guesses
<1>. QED
  BY <1>1, <1>2, <1>3, TypeCorrect, RolesKept, PTL DEF Spec
=============================================================================

----------------------------- MODULE MfaEnrolment -----------------------------
(***************************************************************************)
(* MFA enrolment: setting up a secret, confirming it by a first code,      *)
(* recovery codes and their regeneration, the code check of a login, and   *)
(* disabling by the user or an administrator.  ApiKeys adds the keys whose *)
(* management these settings gate, and puts the steps together.            *)
(*                                                                         *)
(* mfa_settings and mfa_recovery_codes are written by separate statements  *)
(* of one handler, and a code is verified against a row read earlier.      *)
(* TOTP arithmetic, encryption and hashing are left out: a request either  *)
(* has a right code for the secret it is checked against or has not.  One  *)
(* recovery code stands for the eight of its batch.                        *)
(***************************************************************************)
EXTENDS Integers, FiniteSets

CONSTANTS
  Users,      \* accounts
  Codes,      \* mfa_recovery_codes rows that may be inserted
  Keys,       \* api_keys rows that may be inserted
  Requests,   \* requests in flight at once
  MaxSetups,  \* how many secrets are generated in one behaviour
  Workloads,  \* each a set of operations of one behaviour
  None        \* SQL null, and "not there" in a request's context

ASSUME NoneIsNothing == None \notin Users \cup Codes \cup Keys \cup Requests
ASSUME MaxSetupsIsNatural == MaxSetups \in Nat
ASSUME RequestsAreFinite == IsFiniteSet(Requests)

VARIABLES
  setting,   \* setting[u]: the mfa_settings row; secret 0 is no row
  code,      \* code[c]: the mfa_recovery_codes row
  setups,    \* secrets generated so far; each is a number
  stage,     \* stage[r]: the await request r is suspended at
  ctx,       \* ctx[r]: the local variables of r's handler
  workload   \* the operations of this behaviour; never changes

Secrets == 0..MaxSetups

\* History: the secrets a first code was verified for, whether the row was
\* enabled by a request that had read an earlier secret, and whether codes are
\* missing because one was spent or the request to store them stopped.
NoSetting ==
  [secret |-> 0, enabled |-> FALSE, proved |-> {}, overtaken |-> FALSE,
   excused |-> FALSE]

\* uses is history: logins the code let through, counted up to a bound.
NoCode == [status |-> "absent", user |-> None, uses |-> 0]

Blank ==
  [op |-> "none", user |-> None, secret |-> 0, code |-> None, key |-> None]

Operations ==
  {"none", "setup", "verify", "login", "disable", "admin", "regenerate",
   "create", "revoke", "adminRevoke", "use"}

Stages ==
  {"idle", "clear", "store", "enable", "findCode", "spend", "delete",
   "keyLock", "keyCount", "keyInsert", "gate", "revoke", "admit"}

MfaInit ==
  /\ setting = [u \in Users |-> NoSetting]
  /\ code = [c \in Codes |-> NoCode]
  /\ setups = 0
  /\ stage = [r \in Requests |-> "idle"]
  /\ ctx = [r \in Requests |-> Blank]
  /\ workload \in Workloads

At(r, s) == stage[r] = s

\* Request r of a kind this workload has arrives, and runs up to await s.
Arrive(r, op, locals, s) ==
  /\ op \in workload
  /\ At(r, "idle")
  /\ stage' = [stage EXCEPT ![r] = s]
  /\ ctx' = [ctx EXCEPT ![r] = [locals EXCEPT !.op = op]]

Goto(r, s) ==
  /\ stage' = [stage EXCEPT ![r] = s]
  /\ UNCHANGED ctx

\* The handler returned or threw.
Finish(r) ==
  /\ stage' = [stage EXCEPT ![r] = "idle"]
  /\ ctx' = [ctx EXCEPT ![r] = Blank]

Batches(u) == {c \in Codes : code[c].status = "live" /\ code[c].user = u}

FreshCodes == {c \in Codes : code[c].status = "absent"}

-----------------------------------------------------------------------------
(* Setting up and confirming.                                              *)

\* Seeded fault: the upsert replaces the secret and leaves isEnabled alone.
SetupUpsertKeepsEnabled(r, u) ==
  /\ setups < MaxSetups
  /\ setups' = setups + 1
  /\ setting' = [setting EXCEPT ![u].secret = setups + 1]
  /\ Arrive(r, "setup", [Blank EXCEPT !.user = u, !.secret = setups + 1], "clear")
  /\ UNCHANGED <<code, workload>>

\* A fresh secret replaces the row, even an enabled one, and resets it.
SetupUpsert(r, u) ==
  /\ setups < MaxSetups
  /\ setups' = setups + 1
  /\ setting' = [setting EXCEPT ![u].secret = setups + 1, ![u].enabled = FALSE,
                                ![u].overtaken = FALSE]
  /\ Arrive(r, "setup", [Blank EXCEPT !.user = u, !.secret = setups + 1], "clear")
  /\ UNCHANGED <<code, workload>>

\* Seeded fault: the old codes are left in place.
ClearCodesNot(r) ==
  /\ At(r, "clear")
  /\ Goto(r, "store")
  /\ UNCHANGED <<setting, code, setups, workload>>

\* Seeded fault: the new codes are never stored.
ClearCodesAndDone(r) ==
  /\ At(r, "clear")
  /\ code' = [c \in Codes |->
                IF c \in Batches(ctx[r].user)
                THEN [code[c] EXCEPT !.status = "gone"] ELSE code[c]]
  /\ Finish(r)
  /\ UNCHANGED <<setting, setups, workload>>

\* Setting up and regenerating delete the old codes ...
ClearCodes(r) ==
  /\ At(r, "clear")
  /\ code' = [c \in Codes |->
                IF c \in Batches(ctx[r].user)
                THEN [code[c] EXCEPT !.status = "gone"] ELSE code[c]]
  /\ Goto(r, "store")
  /\ UNCHANGED <<setting, setups, workload>>

\* ... and then insert a fresh batch.
StoreCodes(r) ==
  /\ At(r, "store")
  /\ FreshCodes # {}
  /\ code' = [code EXCEPT ![CHOOSE c \in FreshCodes : TRUE] =
                [status |-> "live", user |-> ctx[r].user, uses |-> 0]]
  /\ setting' = [setting EXCEPT ![ctx[r].user].excused = FALSE]
  /\ Finish(r)
  /\ UNCHANGED <<setups, workload>>

\* The right first code for the secret that is read, of a row not enabled.
VerifyRead(r, u) ==
  /\ setting[u].secret # 0
  /\ ~setting[u].enabled
  /\ Arrive(r, "verify", [Blank EXCEPT !.user = u, !.secret = setting[u].secret],
            "enable")
  /\ setting' = [setting EXCEPT ![u].proved = @ \cup {setting[u].secret}]
  /\ UNCHANGED <<code, setups, workload>>

\* An update by user, whatever secret is stored by now; none if the row is gone.
Enable(r) ==
  /\ At(r, "enable")
  /\ LET row == setting[ctx[r].user]
     IN  setting' = [setting EXCEPT ![ctx[r].user] =
           [row EXCEPT !.enabled = row.secret # 0,
                       !.overtaken = @ \/ row.secret \notin {0, ctx[r].secret}]]
  /\ Finish(r)
  /\ UNCHANGED <<code, setups, workload>>

-----------------------------------------------------------------------------
(* The code check of a login.                                              *)

\* A TOTP code that is right admits at once; another may be a recovery code.
LoginCodeRead(r, u) ==
  /\ setting[u].enabled
  /\ Arrive(r, "login", [Blank EXCEPT !.user = u], "findCode")
  /\ UNCHANGED <<setting, code, setups, workload>>

CodeFind(r, c) ==
  /\ At(r, "findCode")
  /\ c \in Batches(ctx[r].user)
  /\ stage' = [stage EXCEPT ![r] = "spend"]
  /\ ctx' = [ctx EXCEPT ![r].code = c]
  /\ UNCHANGED <<setting, code, setups, workload>>

\* Neither a TOTP code nor a recovery code.
CodeWrong(r) ==
  /\ At(r, "findCode")
  /\ Finish(r)
  /\ UNCHANGED <<setting, code, setups, workload>>

UseCode(row) == IF row.uses > Cardinality(Requests) THEN row.uses ELSE row.uses + 1

\* Seeded fault: the row is left in place.
CodeSpendKept(r) ==
  /\ At(r, "spend")
  /\ code' = [code EXCEPT ![ctx[r].code].uses = UseCode(code[ctx[r].code])]
  /\ setting' = [setting EXCEPT ![ctx[r].user].excused = TRUE]
  /\ Finish(r)
  /\ UNCHANGED <<setups, workload>>

\* Deleted by id; how many rows that were does not matter to the login.
CodeSpend(r) ==
  /\ At(r, "spend")
  /\ code' = [code EXCEPT ![ctx[r].code].status = "gone",
                          ![ctx[r].code].uses = UseCode(code[ctx[r].code])]
  /\ setting' = [setting EXCEPT ![ctx[r].user].excused = TRUE]
  /\ Finish(r)
  /\ UNCHANGED <<setups, workload>>

-----------------------------------------------------------------------------
(* Disabling and regenerating.                                             *)

\* assertTotpCode: a right code for the enabled secret that is read.
DisableRead(r, u) ==
  /\ setting[u].enabled
  /\ Arrive(r, "disable", [Blank EXCEPT !.user = u, !.secret = setting[u].secret],
            "delete")
  /\ UNCHANGED <<setting, code, setups, workload>>

\* An administrator needs no code.
AdminDisableRead(r, u) ==
  /\ setting[u].enabled
  /\ Arrive(r, "admin", [Blank EXCEPT !.user = u, !.secret = setting[u].secret],
            "delete")
  /\ UNCHANGED <<setting, code, setups, workload>>

\* Whatever row the user has by now.  The recovery codes stay: their foreign
\* key is to the account, not to the setting.
DeleteSetting(r) ==
  /\ At(r, "delete")
  /\ setting' = [setting EXCEPT ![ctx[r].user].secret = 0,
                                ![ctx[r].user].enabled = FALSE,
                                ![ctx[r].user].overtaken = FALSE]
  /\ Finish(r)
  /\ UNCHANGED <<code, setups, workload>>

Regenerate(r, u) ==
  /\ setting[u].enabled
  /\ Arrive(r, "regenerate",
            [Blank EXCEPT !.user = u, !.secret = setting[u].secret], "clear")
  /\ UNCHANGED <<setting, code, setups, workload>>

-----------------------------------------------------------------------------

\* A request stops where it is.  ApiKeys says what becomes of its lock.
Stop(r) ==
  /\ "stop" \in workload
  /\ ~At(r, "idle")
  /\ setting' = [u \in Users |->
                   [setting[u] EXCEPT !.excused =
                      @ \/ (ctx[r].user = u /\ stage[r] \in {"clear", "store"})]]
  /\ Finish(r)
  /\ UNCHANGED <<code, setups, workload>>

MfaSteps(r) ==
  \/ \E u \in Users :
       \/ SetupUpsert(r, u) \/ VerifyRead(r, u) \/ LoginCodeRead(r, u)
       \/ DisableRead(r, u) \/ AdminDisableRead(r, u) \/ Regenerate(r, u)
  \/ ClearCodes(r) \/ StoreCodes(r) \/ Enable(r)
  \/ \E c \in Codes : CodeFind(r, c)
  \/ CodeWrong(r) \/ CodeSpend(r) \/ DeleteSetting(r)

-----------------------------------------------------------------------------
(* Correctness.                                                            *)

\* Types; a row that is not there is not enabled, a code on record belongs to
\* an account, and a request about to spend a code has found one.
TypeOK ==
  /\ setting \in [Users ->
       [secret : Secrets, enabled : BOOLEAN, proved : SUBSET Secrets,
        overtaken : BOOLEAN, excused : BOOLEAN]]
  /\ code \in [Codes ->
       [status : {"absent", "live", "gone"}, user : Users \cup {None},
        uses : Nat]]
  /\ setups \in Secrets
  /\ stage \in [Requests -> Stages]
  /\ ctx \in [Requests ->
       [op : Operations, user : Users \cup {None}, secret : Secrets,
        code : Codes \cup {None}, key : Keys \cup {None}]]
  /\ workload \in Workloads
  /\ \A u \in Users : setting[u].enabled => setting[u].secret # 0
  /\ \A c \in Codes : code[c].status # "absent" => code[c].user \in Users
  /\ \A r \in Requests : At(r, "spend") => ctx[r].code # None

Storing(u) == {r \in Requests : At(r, "store") /\ ctx[r].user = u}

\* setupMfa and regenerateRecoveryCodes delete the old codes and then insert
\* new ones.  One batch is in force unless such requests overlap, and no more
\* than overlapped.
BatchesBounded ==
  \A u \in Users :
    Cardinality(Batches(u)) + Cardinality(Storing(u)) <= Cardinality(Requests)

Spending(c) == {r \in Requests : At(r, "spend") /\ ctx[r].code = c}

\* verifyLoginCode finds a recovery code and deletes it by id without looking
\* at how many rows that were.  A code admits one login unless logins overlap,
\* and no more than overlapped.
CodeUsesBounded ==
  \A c \in Codes :
    code[c].uses + Cardinality(Spending(c)) <= Cardinality(Requests)

\* Delete-then-insert and find-then-delete in separate statements: there is one
\* batch of recovery codes and one login per code, unless requests overlap, and
\* never more than overlapped.
OverlapBounds == BatchesBounded /\ CodeUsesBounded

\* MFA is active only for a secret its owner has shown to have, unless a setup
\* replaced the secret while a request that had read the old one went on to
\* enable whatever is stored.
EnabledByProof ==
  \A u \in Users :
    setting[u].enabled =>
      setting[u].secret \in setting[u].proved \/ setting[u].overtaken

\* An account with MFA active has recovery codes, whichever setups,
\* regenerations and confirmations overlapped, unless they were spent, or are
\* being replaced, or the request replacing them stopped.
EnabledHasCodes ==
  \A u \in Users :
    setting[u].enabled =>
      \/ Batches(u) # {}
      \/ setting[u].excused
      \/ \E r \in Requests : ctx[r].user = u /\ stage[r] \in {"clear", "store"}
=============================================================================

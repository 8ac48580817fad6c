-------------------------------- MODULE ApiKeys --------------------------------
(***************************************************************************)
(* API keys: creation up to a limit per account, under an advisory lock,   *)
(* revocation by the owner or an administrator, expiry, and authentication *)
(* by key.  An account with MFA active needs a TOTP code to manage keys,   *)
(* so every step of MfaEnrolment may come in between.                      *)
(*                                                                         *)
(* Permissions, names and hashes are left out, and so is the blocklist,    *)
(* which AuthSessions has: a request it refuses just ends here.            *)
(***************************************************************************)
EXTENDS MfaEnrolment

CONSTANT
  MaxKeys  \* MAX_API_KEYS_PER_USER

ASSUME MaxKeysIsPositive == MaxKeys \in Nat \ {0}

VARIABLES
  key,   \* key[k]: the api_keys row
  lock   \* lock[u]: the transaction that holds u's advisory lock

vars == <<setting, code, setups, stage, ctx, workload, key, lock>>
mfaVars == <<setting, code, setups, workload>>

NoKey == [status |-> "absent", user |-> None]

Init ==
  /\ MfaInit
  /\ key = [k \in Keys |-> NoKey]
  /\ lock = [u \in Users |-> None]

FreshKeys == {k \in Keys : key[k].status = "absent"}

\* A key past expiresAt occupies no place.
ActiveOf(u) == {k \in Keys : key[k].status = "active" /\ key[k].user = u}

\* Creations that may still need a row: Keys bounds them as they arrive, so
\* that none waits for a row that cannot come.
Creations == {r \in Requests : stage[r] \in {"keyLock", "keyCount", "keyInsert"}}

\* A caller has a right TOTP code at hand or not.
GatePasses(u, right) == setting[u].enabled => right

-----------------------------------------------------------------------------
(* Creating.                                                               *)

CreateGate(r, u, right) ==
  /\ GatePasses(u, right)
  /\ Cardinality(Creations) < Cardinality(FreshKeys)
  /\ Arrive(r, "create", [Blank EXCEPT !.user = u], "keyLock")
  /\ UNCHANGED <<mfaVars, key, lock>>

\* Seeded fault: the lock is not waited for.
KeyLockNotAwaited(r) ==
  /\ At(r, "keyLock")
  /\ lock' = [lock EXCEPT ![ctx[r].user] = r]
  /\ Goto(r, "keyCount")
  /\ UNCHANGED <<mfaVars, key>>

\* pg_advisory_xact_lock waits until the lock is free.
KeyLock(r) ==
  /\ At(r, "keyLock")
  /\ lock[ctx[r].user] = None
  /\ lock' = [lock EXCEPT ![ctx[r].user] = r]
  /\ Goto(r, "keyCount")
  /\ UNCHANGED <<mfaVars, key>>

Unlock(r) == lock' = [u \in Users |-> IF lock[u] = r THEN None ELSE lock[u]]

\* Seeded fault: a session lock, which the rollback does not release.
KeyCountKeepsLock(r) ==
  /\ At(r, "keyCount")
  /\ IF Cardinality(ActiveOf(ctx[r].user)) >= MaxKeys
     THEN Finish(r) ELSE Goto(r, "keyInsert")
  /\ UNCHANGED <<mfaVars, key, lock>>

\* At the limit the transaction is rolled back, which frees the lock.
KeyCount(r) ==
  /\ At(r, "keyCount")
  /\ IF Cardinality(ActiveOf(ctx[r].user)) >= MaxKeys
     THEN Unlock(r) /\ Finish(r)
     ELSE UNCHANGED lock /\ Goto(r, "keyInsert")
  /\ UNCHANGED <<mfaVars, key>>

\* The insert, visible once the transaction commits and frees the lock.
KeyInsert(r) ==
  /\ At(r, "keyInsert")
  /\ FreshKeys # {}
  /\ key' = [key EXCEPT ![CHOOSE k \in FreshKeys : TRUE] =
               [status |-> "active", user |-> ctx[r].user]]
  /\ Unlock(r)
  /\ Finish(r)
  /\ UNCHANGED mfaVars

KeyExpires(k) ==
  /\ "expire" \in workload
  /\ key[k].status = "active"
  /\ key' = [key EXCEPT ![k].status = "expired"]
  /\ UNCHANGED <<mfaVars, stage, ctx, lock>>

-----------------------------------------------------------------------------
(* Revoking.  An expired key can still be revoked.                         *)

Unrevoked(k) == key[k].status \in {"active", "expired"}

\* assertOwnership, then the gate.
RevokeFind(r, u, k) ==
  /\ Unrevoked(k)
  /\ key[k].user = u
  /\ Arrive(r, "revoke", [Blank EXCEPT !.user = u, !.key = k], "gate")
  /\ UNCHANGED <<mfaVars, key, lock>>

RevokeGate(r, right) ==
  /\ At(r, "gate")
  /\ IF GatePasses(ctx[r].user, right) THEN Goto(r, "revoke") ELSE Finish(r)
  /\ UNCHANGED <<mfaVars, key, lock>>

\* An administrator passes no gate.
AdminRevokeFind(r, u, k) ==
  /\ Unrevoked(k)
  /\ key[k].user = u
  /\ Arrive(r, "adminRevoke", [Blank EXCEPT !.user = u, !.key = k], "revoke")
  /\ UNCHANGED <<mfaVars, key, lock>>

\* Rows revoked meanwhile keep their date.
RevokeKey(r) ==
  /\ At(r, "revoke")
  /\ key' = [key EXCEPT ![ctx[r].key].status = "revoked"]
  /\ Finish(r)
  /\ UNCHANGED <<mfaVars, lock>>

-----------------------------------------------------------------------------
(* Authenticating by key.                                                  *)

\* Seeded fault: expiresAt is not tested.
AuthFindExpiredToo(r, k) ==
  /\ key[k].status \in {"active", "expired"}
  /\ Arrive(r, "use", [Blank EXCEPT !.user = key[k].user, !.key = k], "admit")
  /\ UNCHANGED <<mfaVars, key, lock>>

\* The row must be neither revoked nor expired when it is read.
AuthFind(r, k) ==
  /\ key[k].status = "active"
  /\ Arrive(r, "use", [Blank EXCEPT !.user = key[k].user, !.key = k], "admit")
  /\ UNCHANGED <<mfaVars, key, lock>>

\* The account is read, the blocklist asked, the request let in or refused.
AuthAdmit(r) ==
  /\ At(r, "admit")
  /\ Finish(r)
  /\ UNCHANGED <<mfaVars, key, lock>>

-----------------------------------------------------------------------------

\* A transaction that is open is rolled back.
Abort(r) ==
  /\ Stop(r)
  /\ Unlock(r)
  /\ UNCHANGED key

KeySteps(r) ==
  \/ \E u \in Users, right \in BOOLEAN : CreateGate(r, u, right)
  \/ KeyLock(r) \/ KeyCount(r) \/ KeyInsert(r)
  \/ \E u \in Users, k \in Keys : RevokeFind(r, u, k) \/ AdminRevokeFind(r, u, k)
  \/ \E right \in BOOLEAN : RevokeGate(r, right)
  \/ RevokeKey(r)
  \/ \E k \in Keys : AuthFind(r, k)
  \/ AuthAdmit(r)
  \/ Abort(r)

Next ==
  \/ \E r \in Requests : MfaSteps(r) /\ UNCHANGED <<key, lock>>
  \/ \E r \in Requests : KeySteps(r)
  \/ \E k \in Keys : KeyExpires(k)

Spec == Init /\ [][Next]_vars

\* Statements of an open transaction return.  PostgreSQL grants an advisory
\* lock in the order it was asked for, so no waiting transaction is passed
\* over for ever.
FairSpec ==
  /\ Spec
  /\ \A r \in Requests :
       /\ WF_vars(KeyCount(r))
       /\ WF_vars(KeyInsert(r))
       /\ SF_vars(KeyLock(r))

-----------------------------------------------------------------------------
(* Correctness.                                                            *)

\* TypeOK of MfaEnrolment, the rows of api_keys, and that a transaction at
\* work on an account's keys is the one that holds its lock.
KeysTypeOK ==
  /\ TypeOK
  /\ key \in [Keys ->
       [status : {"absent", "active", "expired", "revoked"},
        user : Users \cup {None}]]
  /\ lock \in [Users -> Requests \cup {None}]
  /\ \A k \in Keys : key[k].status # "absent" => key[k].user \in Users
  /\ \A r \in Requests, u \in Users :
       stage[r] \in {"keyCount", "keyInsert"} /\ ctx[r].user = u
         <=> lock[u] = r

\* createWithLimitCheck: an account never has more keys in force than the
\* limit, however many creations run at once.
KeyLimit == \A u \in Users : Cardinality(ActiveOf(u)) <= MaxKeys

Dead(k) ==
  /\ key[k].status \in {"expired", "revoked"}
  /\ \A r \in Requests : ~(At(r, "admit") /\ ctx[r].key = k)

\* A key that has expired or was revoked admits nobody, but for requests that
\* had read its row before.
DeadKeyStaysDead == [][\A k \in Keys : Dead(k) => Dead(k)']_vars

\* A creation that waits for the lock gets it or stops: whoever holds it
\* commits, is refused at the limit, or fails, and each of these frees it.
CreationEnds == \A r \in Requests : At(r, "keyLock") ~> ~At(r, "keyLock")
=============================================================================

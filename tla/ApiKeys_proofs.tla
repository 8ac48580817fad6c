----------------------------- MODULE ApiKeys_proofs -----------------------------
(***************************************************************************)
(* Proofs about ApiKeys and, through it, MfaEnrolment: types, the limit on *)
(* the keys of an account, what MFA being active implies, the bounds on    *)
(* batches and uses of recovery codes, and that a dead key stays dead.     *)
(***************************************************************************)
EXTENDS ApiKeys, MfaEnrolment_proofs

-----------------------------------------------------------------------------
(* The inductive invariant: MfaInv, and a part for each kind of row or     *)
(* request that ApiKeys adds.                                              *)

KeyTypes ==
  [status : {"absent", "active", "expired", "revoked"}, user : Users \cup {None}]

\* A key on record belongs to an account; finitely many were inserted.
KeyRows ==
  /\ key \in [Keys -> KeyTypes]
  /\ \A k \in Keys : key[k].status # "absent" => key[k].user \in Users
  /\ IsFiniteSet({k \in Keys : key[k].status # "absent"})

\* A transaction at work on an account's keys is the one that holds its lock.
Locks ==
  /\ lock \in [Users -> Requests \cup {None}]
  /\ \A r \in Requests, u \in Users :
       stage[r] \in {"keyCount", "keyInsert"} /\ ctx[r].user = u
         <=> lock[u] = r

\* Requests that found a key; the row is never deleted.
Found(s, k) ==
  s \in {"gate", "revoke", "admit"} =>
    k.key \in Keys /\ key[k.key].status # "absent"

KeyRequests == \A r \in Requests : Found(stage[r], ctx[r])

\* What a transaction counted under the lock is still so when it inserts.
Room ==
  \A r \in Requests, u \in Users :
    stage[r] = "keyInsert" /\ ctx[r].user = u => Cardinality(ActiveOf(u)) < MaxKeys

KeyInv == KeyRows /\ Locks /\ KeyRequests /\ Room /\ KeyLimit

IInv == MfaInv /\ KeyInv

LEMMA IInvImplies ==
  IInv => /\ KeysTypeOK /\ OverlapBounds /\ KeyLimit
          /\ EnabledByProof /\ EnabledHasCodes
BY MfaInvImplies DEF IInv, KeyInv, KeyRows, Locks, KeyTypes, KeysTypeOK

LEMMA InitInv == Init => IInv
<1>. SUFFICES ASSUME Init PROVE IInv
  OBVIOUS
<1>1. MfaInv
  BY MfaInitInv DEF Init
<1>2. KeyRows
  <2>1. {k \in Keys : key[k].status # "absent"} = {}
    BY DEF Init, NoKey
  <2>. QED
    BY <2>1, FS_EmptySet DEF Init, KeyRows, KeyTypes, NoKey
<1>3. Locks /\ KeyRequests /\ Room
  BY NoneIsNothing DEF Init, MfaInit, Locks, KeyRequests, Found, Room
<1>4. KeyLimit
  <2>1. \A u \in Users : ActiveOf(u) = {}
    BY DEF Init, ActiveOf, NoKey
  <2>. QED
    BY <2>1, FS_EmptySet, MaxKeysIsPositive DEF KeyLimit
<1>. QED
  BY <1>1, <1>2, <1>3, <1>4 DEF IInv, KeyInv

-----------------------------------------------------------------------------
(* What the kinds of steps preserve.                                       *)

LEMMA ActiveFinite ==
  ASSUME KeyRows, NEW u
  PROVE  IsFiniteSet(ActiveOf(u)) /\ Cardinality(ActiveOf(u)) \in Nat
<1>1. ActiveOf(u) \in SUBSET {k \in Keys : key[k].status # "absent"}
  BY DEF ActiveOf
<1>. QED
  BY <1>1, Shrinks DEF KeyRows

\* A step that leaves keys and locks alone and is outside the transactions.
LEMMA KeysAlone ==
  ASSUME IInv, NEW r \in Requests, NEW s, NEW k, Moves(r, s, k),
         UNCHANGED <<key, lock>>, stage[r] \notin {"keyCount", "keyInsert"},
         s \notin {"keyCount", "keyInsert"}, Found(s, k)
  PROVE  KeyInv'
<1>1. /\ stage'[r] = s /\ ctx'[r] = k
      /\ \A q \in Requests \ {r} : stage'[q] = stage[q] /\ ctx'[q] = ctx[q]
  BY MovesBasics DEF IInv, MfaInv
<1>2. \A u \in Users : ActiveOf(u)' = ActiveOf(u)
  BY DEF ActiveOf
<1>3. KeyRows' /\ KeyLimit'
  BY <1>2 DEF IInv, KeyInv, KeyRows, KeyLimit
<1>4. Locks'
  BY <1>1 DEF IInv, KeyInv, Locks
<1>5. KeyRequests'
  BY <1>1 DEF IInv, KeyInv, KeyRequests, Found
<1>6. Room'
  BY <1>1, <1>2 DEF IInv, KeyInv, Room
<1>. QED
  BY <1>3, <1>4, <1>5, <1>6 DEF KeyInv

\* A request that ends with its transaction, if any.
LEMMA UnlockKeeps ==
  ASSUME IInv, NEW r \in Requests, Moves(r, "idle", Blank), Unlock(r)
  PROVE  Locks'
<1>1. /\ stage'[r] = "idle"
      /\ \A q \in Requests \ {r} : stage'[q] = stage[q] /\ ctx'[q] = ctx[q]
  BY MovesBasics DEF IInv, MfaInv
<1>2. /\ lock' \in [Users -> Requests \cup {None}]
      /\ \A u \in Users : lock'[u] = IF lock[u] = r THEN None ELSE lock[u]
  BY DEF IInv, KeyInv, Locks, Unlock
<1>. QED
  BY <1>1, <1>2, NoneIsNothing DEF IInv, KeyInv, Locks

\* Rows stay with their accounts and none comes into force; requests stay where
\* they are, but for one that is elsewhere than at its key.
KeysStay ==
  /\ key' \in [Keys -> KeyTypes]
  /\ \A k \in Keys :
       /\ key'[k].user = key[k].user
       /\ key'[k].status = "absent" <=> key[k].status = "absent"
       /\ key'[k].status = "active" => key[k].status = "active"

RequestsStay ==
  \A q \in Requests : \/ stage'[q] = stage[q] /\ ctx'[q] = ctx[q]
                      \/ stage'[q] \in {"idle", "keyCount"}

LEMMA StayKeeps ==
  ASSUME IInv, KeysStay, RequestsStay
  PROVE  KeyRows' /\ KeyRequests' /\ Room' /\ KeyLimit'
<1>1. KeyRows'
  <2>1. {k \in Keys : key'[k].status # "absent"} =
          {k \in Keys : key[k].status # "absent"}
    BY DEF KeysStay
  <2>. QED
    BY <2>1 DEF IInv, KeyInv, KeyRows, KeysStay
<1>2. \A u \in Users : /\ Cardinality(ActiveOf(u)) \in Nat
                       /\ Cardinality(ActiveOf(u)') \in Nat
                       /\ Cardinality(ActiveOf(u)') <= Cardinality(ActiveOf(u))
  <2> TAKE u \in Users
  <2>1. ActiveOf(u)' \in SUBSET ActiveOf(u)
    BY DEF ActiveOf, KeysStay
  <2>2. IsFiniteSet(ActiveOf(u))
    BY ActiveFinite DEF IInv, KeyInv
  <2>. QED
    BY <2>1, <2>2, Shrinks
<1>3. KeyLimit'
  BY <1>2, MaxKeysIsPositive DEF IInv, KeyInv, KeyLimit
<1>4. Room'
  BY <1>2, MaxKeysIsPositive DEF IInv, KeyInv, Room, RequestsStay
<1>5. KeyRequests'
  BY DEF IInv, KeyInv, KeyRequests, Found, KeysStay, RequestsStay
<1>. QED
  BY <1>1, <1>3, <1>4, <1>5

-----------------------------------------------------------------------------
(* The steps.                                                              *)

\* A step of MfaEnrolment is far from keys.
MfaStages ==
  {"idle", "clear", "store", "enable", "findCode", "spend", "delete"}

LEMMA MfaStepsElsewhere ==
  ASSUME MfaInv, NEW r \in Requests, MfaSteps(r)
  PROVE  stage[r] \in MfaStages /\ \E s \in MfaStages : \E k : Moves(r, s, k)
<1> DEFINE Goal == /\ stage[r] \in MfaStages
                   /\ \E s \in MfaStages : \E k : Moves(r, s, k)
<1>1. RequestInv
  BY DEF MfaInv
<1>2. ASSUME NEW op, NEW locals, NEW s \in MfaStages, Arrive(r, op, locals, s)
      PROVE  Goal
  <2>1. stage[r] = "idle" /\ Moves(r, s, [locals EXCEPT !.op = op])
    BY <1>1, <1>2, MovesBasics
  <2>. QED
    BY <2>1 DEF MfaStages
<1>3. ASSUME At(r, "clear"), Goto(r, "store") PROVE Goal
  BY <1>1, <1>3, MovesBasics DEF MfaStages, At
<1>4. ASSUME NEW s \in MfaStages, At(r, s), Finish(r) PROVE Goal
  BY <1>1, <1>4, MovesBasics DEF MfaStages, At
<1>5. ASSUME NEW c \in Codes, CodeFind(r, c) PROVE Goal
  BY <1>1, <1>5 DEF MfaStages, CodeFind, Moves, At, RequestInv
<1> HIDE DEF Goal
<1>6. ASSUME NEW u \in Users,
             \/ SetupUpsert(r, u) \/ VerifyRead(r, u) \/ LoginCodeRead(r, u)
             \/ DisableRead(r, u) \/ AdminDisableRead(r, u) \/ Regenerate(r, u)
      PROVE  Goal
  BY <1>2, <1>6 DEF MfaStages, SetupUpsert, VerifyRead, LoginCodeRead, DisableRead,
     AdminDisableRead, Regenerate
<1>7. ASSUME \/ ClearCodes(r) \/ StoreCodes(r) \/ Enable(r)
             \/ CodeWrong(r) \/ CodeSpend(r) \/ DeleteSetting(r)
      PROVE  Goal
  BY <1>3, <1>4, <1>7 DEF MfaStages, ClearCodes, StoreCodes, Enable, CodeWrong, CodeSpend,
     DeleteSetting
<1>8. Goal
  BY <1>5, <1>6, <1>7 DEF MfaSteps
<1>. QED
  BY <1>8 DEF Goal

LEMMA MfaStepKeeps ==
  ASSUME IInv, NEW r \in Requests, MfaSteps(r), UNCHANGED <<key, lock>>
  PROVE  IInv'
<1>1. MfaInv'
  BY MfaStepsKeep DEF IInv
<1>2. stage[r] \notin {"keyCount", "keyInsert"}
  BY MfaStepsElsewhere DEF IInv, MfaStages
<1>3. PICK s, k : /\ Moves(r, s, k)
                  /\ s \notin {"keyCount", "keyInsert", "gate", "revoke", "admit"}
  BY MfaStepsElsewhere DEF IInv, MfaStages
<1>4. KeyInv'
  BY <1>2, <1>3, KeysAlone DEF Found
<1>. QED
  BY <1>1, <1>4 DEF IInv

\* Handlers that arrive with a user, and perhaps a key.
LEMMA ArrivalKeeps ==
  ASSUME IInv, NEW r \in Requests, NEW op \in Operations, NEW locals \in Contexts,
         locals.user \in Users, NEW s \in {"keyLock", "gate", "revoke", "admit"},
         Found(s, locals), Arrive(r, op, locals, s),
         UNCHANGED <<mfaVars, key, lock>>
  PROVE  IInv'
<1>1. PICK k \in Contexts :
        /\ k.user = locals.user /\ k.key = locals.key
        /\ stage[r] = "idle" /\ Moves(r, s, k)
  BY ArriveMoves DEF IInv, MfaInv
<1>2. MfaInv'
  BY <1>1, QuietKeeps DEF IInv, Fits, Stages, mfaVars
<1>3. KeyInv'
  BY <1>1, KeysAlone DEF Found
<1>. QED
  BY <1>2, <1>3 DEF IInv

LEMMA KeyLocals ==
  ASSUME NEW u \in Users, NEW k \in Keys
  PROVE  LET l == [Blank EXCEPT !.user = u, !.key = k]
         IN  l \in Contexts /\ l.user = u /\ l.key = k
BY BlankType DEF Contexts

LEMMA ArriveKeeps ==
  ASSUME IInv, NEW r \in Requests,
         \/ \E u \in Users, right \in BOOLEAN : CreateGate(r, u, right)
         \/ \E u \in Users, k \in Keys :
              RevokeFind(r, u, k) \/ AdminRevokeFind(r, u, k)
         \/ \E k \in Keys : AuthFind(r, k)
  PROVE  IInv'
<1>1. ASSUME NEW u \in Users, NEW right \in BOOLEAN, CreateGate(r, u, right)
      PROVE  IInv'
  <2>1. PICK l \in Contexts : l = [Blank EXCEPT !.user = u] /\ l.user = u
    BY LocalsType
  <2>2. Arrive(r, "create", l, "keyLock") /\ UNCHANGED <<mfaVars, key, lock>>
    BY <1>1, <2>1 DEF CreateGate
  <2>. QED
    BY <2>1, <2>2, ArrivalKeeps DEF Operations, Found
<1>2. ASSUME NEW op \in {"revoke", "adminRevoke", "use"}, NEW u \in Users,
             NEW k \in Keys, key[k].status # "absent",
             NEW s \in {"gate", "revoke", "admit"},
             Arrive(r, op, [Blank EXCEPT !.user = u, !.key = k], s),
             UNCHANGED <<mfaVars, key, lock>>
      PROVE  IInv'
  <2>1. PICK l \in Contexts :
          /\ l = [Blank EXCEPT !.user = u, !.key = k]
          /\ l.user = u /\ l.key = k
    BY KeyLocals
  <2>2. Arrive(r, op, l, s)
    BY <1>2, <2>1
  <2>. QED
    BY <1>2, <2>1, <2>2, ArrivalKeeps DEF Operations, Found
<1>3. ASSUME NEW u \in Users, NEW k \in Keys,
             RevokeFind(r, u, k) \/ AdminRevokeFind(r, u, k)
      PROVE  IInv'
  BY <1>2, <1>3 DEF RevokeFind, AdminRevokeFind, Unrevoked
<1>4. ASSUME NEW k \in Keys, AuthFind(r, k)
      PROVE  IInv'
  <2>1. key[k].status # "absent" /\ key[k].user \in Users
    BY <1>4 DEF AuthFind, IInv, KeyInv, KeyRows
  <2>. QED
    BY <1>2, <1>4, <2>1 DEF AuthFind
<1>. QED
  BY <1>1, <1>3, <1>4

\* MfaInv, for a request at a stage of this module that moves on or ends.
LEMMA MfaKept ==
  ASSUME IInv, NEW r \in Requests, UNCHANGED mfaVars,
         stage[r] \in {"keyLock", "keyCount", "keyInsert", "gate", "revoke", "admit"},
         \/ Moves(r, "idle", Blank)
         \/ \E s \in {"keyCount", "keyInsert", "revoke"} : Moves(r, s, ctx[r])
  PROVE  MfaInv'
<1>1. /\ ctx[r].user \in Users /\ ctx[r] \in Contexts /\ Blank \in Contexts
  BY Ends DEF IInv, MfaInv
<1>2. CASE Moves(r, "idle", Blank)
  BY <1>1, <1>2, QuietKeeps DEF IInv, Fits, Stages, mfaVars
<1>3. ASSUME NEW s \in {"keyCount", "keyInsert", "revoke"}, Moves(r, s, ctx[r])
      PROVE  MfaInv'
  <2>1. PICK k \in Contexts : k = ctx[r]
    BY <1>1
  <2>. QED
    BY <1>1, <1>3, <2>1, QuietKeeps DEF IInv, Fits, Stages, mfaVars
<1>. QED
  BY <1>2, <1>3

\* Requests that end, or pass the gate, and change no key or lock.
LEMMA GateKeeps ==
  ASSUME IInv, NEW r \in Requests,
         AuthAdmit(r) \/ \E right \in BOOLEAN : RevokeGate(r, right)
  PROVE  IInv'
<1>1. /\ stage[r] \in {"gate", "admit"} /\ UNCHANGED <<mfaVars, key, lock>>
      /\ \/ Moves(r, "idle", Blank)
         \/ stage[r] = "gate" /\ Moves(r, "revoke", ctx[r])
  BY MovesBasics DEF AuthAdmit, RevokeGate, IInv, MfaInv, At
<1>2. MfaInv'
  BY <1>1, MfaKept
<1>3. KeyInv'
  <2>1. CASE Moves(r, "idle", Blank)
    BY <1>1, <2>1, KeysAlone DEF Found
  <2>2. CASE stage[r] = "gate" /\ Moves(r, "revoke", ctx[r])
    <3>1. PICK k : k = ctx[r]
      OBVIOUS
    <3>2. Found("revoke", k)
      BY <2>2, <3>1 DEF IInv, KeyInv, KeyRequests, Found
    <3>. QED
      BY <1>1, <2>2, <3>1, <3>2, KeysAlone
  <2>. QED
    BY <1>1, <2>1, <2>2
<1>. QED
  BY <1>2, <1>3 DEF IInv

LEMMA KeyLockKeeps ==
  ASSUME IInv, NEW r \in Requests, KeyLock(r) PROVE IInv'
<1>0. PICK u : u = ctx[r].user
  OBVIOUS
<1>1. /\ stage[r] = "keyLock" /\ Moves(r, "keyCount", ctx[r])
      /\ UNCHANGED <<mfaVars, key>>
      /\ lock[u] = None /\ lock' = [lock EXCEPT ![u] = r]
  BY <1>0, MovesBasics DEF KeyLock, IInv, MfaInv, At
<1>2. /\ stage'[r] = "keyCount" /\ ctx'[r] = ctx[r]
      /\ \A q \in Requests \ {r} : stage'[q] = stage[q] /\ ctx'[q] = ctx[q]
  BY <1>1, MovesBasics DEF IInv, MfaInv
<1>3. MfaInv'
  BY <1>1, MfaKept
<1>4. u \in Users
  BY <1>0, <1>1, Ends DEF IInv, MfaInv
<1>5. Locks'
  BY <1>0, <1>1, <1>2, <1>4, NoneIsNothing DEF IInv, KeyInv, Locks
<1>6. KeysStay /\ RequestsStay
  BY <1>1, <1>2 DEF IInv, KeyInv, KeyRows, KeysStay, RequestsStay
<1>. QED
  BY <1>3, <1>5, <1>6, StayKeeps DEF IInv, KeyInv

\* A step at the limit, or one that ends with its transaction.
LEMMA EndKeeps ==
  ASSUME IInv, NEW r \in Requests, Moves(r, "idle", Blank), Unlock(r), KeysStay
  PROVE  KeyInv'
<1>1. RequestsStay
  BY MovesBasics DEF IInv, MfaInv, RequestsStay
<1>. QED
  BY <1>1, StayKeeps, UnlockKeeps DEF KeyInv

LEMMA KeyCountKeeps ==
  ASSUME IInv, NEW r \in Requests, KeyCount(r) PROVE IInv'
<1>0. PICK u, k : u = ctx[r].user /\ k = ctx[r]
  OBVIOUS
<1>1. /\ stage[r] = "keyCount" /\ UNCHANGED <<mfaVars, key>>
      /\ \/ Unlock(r) /\ Moves(r, "idle", Blank)
         \/ /\ ~(Cardinality(ActiveOf(u)) >= MaxKeys)
            /\ UNCHANGED lock /\ Moves(r, "keyInsert", k)
  BY <1>0, MovesBasics DEF KeyCount, IInv, MfaInv, At
<1>2. MfaInv'
  BY <1>0, <1>1, MfaKept
<1>3. CASE Unlock(r) /\ Moves(r, "idle", Blank)
  <2>1. KeysStay
    BY <1>1 DEF IInv, KeyInv, KeyRows, KeysStay
  <2>. QED
    BY <1>2, <1>3, <2>1, EndKeeps DEF IInv
<1>4. CASE /\ ~(Cardinality(ActiveOf(u)) >= MaxKeys)
           /\ UNCHANGED lock /\ Moves(r, "keyInsert", k)
  <2>1. /\ stage'[r] = "keyInsert" /\ ctx'[r] = k
        /\ \A q \in Requests \ {r} : stage'[q] = stage[q] /\ ctx'[q] = ctx[q]
    BY <1>4, MovesBasics DEF IInv, MfaInv
  <2>2. /\ \A v : ActiveOf(v)' = ActiveOf(v)
        /\ Cardinality(ActiveOf(u)) < MaxKeys
    BY <1>1, <1>4, ActiveFinite, MaxKeysIsPositive DEF ActiveOf, IInv, KeyInv
  <2>3. KeyRows' /\ KeyLimit'
    BY <1>1, <2>2 DEF IInv, KeyInv, KeyRows, KeyLimit
  <2>4. Locks'
    BY <1>0, <1>1, <1>4, <2>1 DEF IInv, KeyInv, Locks
  <2>5. KeyRequests'
    BY <1>1, <2>1 DEF IInv, KeyInv, KeyRequests, Found
  <2>6. Room'
    BY <1>0, <2>1, <2>2 DEF IInv, KeyInv, Room
  <2>. QED
    BY <1>2, <2>3, <2>4, <2>5, <2>6 DEF IInv, KeyInv
<1>. QED
  BY <1>1, <1>3, <1>4

LEMMA KeyInsertKeeps ==
  ASSUME IInv, NEW r \in Requests, KeyInsert(r) PROVE IInv'
<1>0. PICK u, new : u = ctx[r].user /\ new = (CHOOSE k \in FreshKeys : TRUE)
  OBVIOUS
<1>1. /\ stage[r] = "keyInsert" /\ Moves(r, "idle", Blank) /\ Unlock(r)
      /\ UNCHANGED mfaVars /\ new \in Keys /\ key[new].status = "absent"
      /\ key' = [key EXCEPT ![new] = [status |-> "active", user |-> u]]
  BY <1>0, MovesBasics DEF KeyInsert, FreshKeys, IInv, MfaInv, At
<1>2. u \in Users
  BY <1>0, <1>1, Ends DEF IInv, MfaInv
<1>3. /\ stage'[r] = "idle"
      /\ \A q \in Requests \ {r} : stage'[q] = stage[q] /\ ctx'[q] = ctx[q]
  BY <1>1, MovesBasics DEF IInv, MfaInv
<1>4. /\ key' \in [Keys -> KeyTypes]
      /\ key'[new] = [status |-> "active", user |-> u]
      /\ \A k \in Keys \ {new} : key'[k] = key[k]
  BY <1>1, <1>2 DEF IInv, KeyInv, KeyRows, KeyTypes
<1>5. MfaInv'
  BY <1>1, MfaKept
<1>6. Locks'
  BY <1>1, UnlockKeeps
<1>7. KeyRows'
  <2>1. {k \in Keys : key'[k].status # "absent"} =
          {k \in Keys : key[k].status # "absent"} \cup {new}
    BY <1>1, <1>4
  <2>2. IsFiniteSet({k \in Keys : key'[k].status # "absent"})
    BY <2>1, FS_AddElement DEF IInv, KeyInv, KeyRows
  <2>. QED
    BY <1>2, <1>4, <2>2 DEF IInv, KeyInv, KeyRows
<1>8. /\ \A v \in Users \ {u} : ActiveOf(v)' = ActiveOf(v)
      /\ ActiveOf(u)' = ActiveOf(u) \cup {new} /\ new \notin ActiveOf(u)
  BY <1>1, <1>4 DEF ActiveOf
<1>9. KeyLimit'
  <2>1. /\ Cardinality(ActiveOf(u)) < MaxKeys /\ Cardinality(ActiveOf(u)) \in Nat
        /\ IsFiniteSet(ActiveOf(u))
    BY <1>0, <1>1, <1>2, ActiveFinite DEF IInv, KeyInv, Room
  <2>2. Cardinality(ActiveOf(u)') = Cardinality(ActiveOf(u)) + 1
    BY <1>8, <2>1, FS_AddElement
  <2>. QED
    BY <1>8, <2>1, <2>2, MaxKeysIsPositive DEF IInv, KeyInv, KeyLimit
<1>10. KeyRequests'
  BY <1>3, <1>4 DEF IInv, KeyInv, KeyRequests, Found
<1>11. Room'
  <2> SUFFICES ASSUME NEW q \in Requests, NEW v \in Users,
                      stage'[q] = "keyInsert", ctx'[q].user = v
               PROVE  Cardinality(ActiveOf(v)') < MaxKeys
    BY DEF Room
  <2>1. q # r /\ stage[q] = "keyInsert" /\ ctx[q].user = v
    BY <1>3
  <2>2. v # u
    BY <1>0, <1>1, <2>1 DEF IInv, KeyInv, Locks
  <2>. QED
    BY <1>8, <2>1, <2>2 DEF IInv, KeyInv, Room
<1>. QED
  BY <1>5, <1>6, <1>7, <1>9, <1>10, <1>11 DEF IInv, KeyInv

LEMMA RevokeKeyKeeps ==
  ASSUME IInv, NEW r \in Requests, RevokeKey(r) PROVE IInv'
<1>0. PICK k : k = ctx[r].key
  OBVIOUS
<1>1. /\ stage[r] = "revoke" /\ Moves(r, "idle", Blank)
      /\ UNCHANGED <<mfaVars, lock>>
      /\ key' = [key EXCEPT ![k].status = "revoked"]
      /\ k \in Keys /\ key[k].status # "absent"
  BY <1>0, MovesBasics DEF RevokeKey, IInv, MfaInv, KeyInv, KeyRequests, Found, At
<1>2. KeysStay
  BY <1>1 DEF IInv, KeyInv, KeyRows, KeyTypes, KeysStay
<1>3. Unlock(r)
  BY <1>1 DEF IInv, KeyInv, Locks, Unlock
<1>. QED
  BY <1>1, <1>2, <1>3, EndKeeps, MfaKept DEF IInv

LEMMA AbortKeeps ==
  ASSUME IInv, NEW r \in Requests, Abort(r) PROVE IInv'
<1>1. Stop(r) /\ Moves(r, "idle", Blank) /\ Unlock(r) /\ UNCHANGED key
  BY MovesBasics DEF Abort, Stop, IInv, MfaInv
<1>2. KeysStay
  BY <1>1 DEF IInv, KeyInv, KeyRows, KeysStay
<1>. QED
  BY <1>1, <1>2, EndKeeps, StopKeeps DEF IInv

LEMMA MfaUnread ==
  ASSUME MfaInv, UNCHANGED <<mfaVars, stage, ctx>> PROVE MfaInv'
BY DEF mfaVars, MfaInv, SettingInv, EnabledByProof, CodeInv, RequestInv, Fits,
   CodesInv, Batches, Replacing, BatchesBounded, CodeUsesBounded, Storing, Spending,
   At, OtherInv

LEMMA KeyExpiresKeeps ==
  ASSUME IInv, NEW k \in Keys, KeyExpires(k) PROVE IInv'
<1>1. KeysStay /\ RequestsStay
  BY DEF KeyExpires, IInv, KeyInv, KeyRows, KeyTypes, KeysStay, RequestsStay
<1>2. MfaInv'
  BY MfaUnread DEF KeyExpires, IInv, mfaVars
<1>3. Locks'
  BY DEF KeyExpires, IInv, KeyInv, Locks
<1>. QED
  BY <1>1, <1>2, <1>3, StayKeeps DEF IInv, KeyInv

LEMMA NextInv == IInv /\ [Next]_vars => IInv'
<1>. SUFFICES ASSUME IInv, [Next]_vars PROVE IInv'
  OBVIOUS
<1>1. ASSUME NEW r \in Requests, MfaSteps(r), UNCHANGED <<key, lock>>
      PROVE  IInv'
  BY <1>1, MfaStepKeeps
<1>2. ASSUME NEW r \in Requests, KeySteps(r)
      PROVE  IInv'
  BY <1>2, ArriveKeeps, GateKeeps, KeyLockKeeps, KeyCountKeeps, KeyInsertKeeps,
     RevokeKeyKeeps, AbortKeeps DEF KeySteps
<1>3. ASSUME NEW k \in Keys, KeyExpires(k)
      PROVE  IInv'
  BY <1>3, KeyExpiresKeeps
<1>4. CASE UNCHANGED vars
  <2>1. MfaInv'
    BY <1>4, MfaUnread DEF IInv, vars, mfaVars
  <2>. QED
    BY <1>4, <2>1 DEF vars, IInv, KeyInv, KeyRows, Locks, KeyRequests, Found, Room,
       KeyLimit, ActiveOf
<1>. QED
  BY <1>1, <1>2, <1>3, <1>4 DEF Next

-----------------------------------------------------------------------------
(* The theorems.                                                           *)

\* Every state that ApiKeys and MfaEnrolment reach satisfies the invariant.
THEOREM Inductive == Spec => []IInv
<1>1. Init => IInv
  BY InitInv
<1>2. IInv /\ [Next]_vars => IInv'
  BY NextInv
<1>. QED
  BY <1>1, <1>2, PTL DEF Spec

\* The rows and locals have their types, an enabled setting has a secret, and a
\* transaction at work on an account's keys is the one that holds its lock.
THEOREM KeysTypeSafe == Spec => []KeysTypeOK
<1>1. IInv => KeysTypeOK
  BY IInvImplies
<1>. QED
  BY <1>1, Inductive, PTL

\* createWithLimitCheck counts and inserts under the lock, so that no number of
\* concurrent creations takes an account past the limit.
THEOREM LimitHolds == Spec => []KeyLimit
<1>1. IInv => KeyLimit
  BY IInvImplies
<1>. QED
  BY <1>1, Inductive, PTL

\* verifyMfaSetup enables whatever secret is stored: one that was proved, or one
\* that a setup stored while the confirmation was under way.
THEOREM ProofBeforeEnabled == Spec => []EnabledByProof
<1>1. IInv => EnabledByProof
  BY IInvImplies
<1>. QED
  BY <1>1, Inductive, PTL

\* An account with MFA active has recovery codes unless they were spent, are
\* being replaced, or the request replacing them stopped.
THEOREM CodesThere == Spec => []EnabledHasCodes
<1>1. IInv => EnabledHasCodes
  BY IInvImplies
<1>. QED
  BY <1>1, Inductive, PTL

\* However requests overlap, there are at most as many batches of an account,
\* and uses of one code, as there are requests.
THEOREM Overlaps == Spec => []OverlapBounds
<1>1. IInv => OverlapBounds
  BY IInvImplies
<1>. QED
  BY <1>1, Inductive, PTL

\* A step that is not about keys starts no authentication and leaves keys dead.
LEMMA DeadKept ==
  ASSUME RequestInv, NEW k \in Keys, Dead(k), key'[k] = key[k],
         NEW r \in Requests, NEW s, NEW l, Moves(r, s, l),
         s = "admit" => l.key # k
  PROVE  Dead(k)'
<1>1. /\ stage'[r] = s /\ ctx'[r] = l
      /\ \A q \in Requests \ {r} : stage'[q] = stage[q] /\ ctx'[q] = ctx[q]
  BY MovesBasics
<1>. QED
  BY <1>1 DEF Dead, At

LEMMA DeadStep ==
  ASSUME IInv, Next, NEW k \in Keys, Dead(k) PROVE Dead(k)'
<1>0. RequestInv
  BY DEF IInv, MfaInv
<1>1. ASSUME NEW r \in Requests, MfaSteps(r), UNCHANGED key
      PROVE  Dead(k)'
  <2>1. PICK s, l : Moves(r, s, l) /\ s # "admit"
    BY <1>1, MfaStepsElsewhere DEF IInv, MfaStages
  <2>. QED
    BY <1>0, <1>1, <2>1, DeadKept
<1>2. ASSUME NEW r \in Requests, NEW op, NEW locals, NEW s,
             Arrive(r, op, locals, s), UNCHANGED key,
             s = "admit" => [locals EXCEPT !.op = op].key # k
      PROVE  Dead(k)'
  <2>1. Moves(r, s, [locals EXCEPT !.op = op])
    BY <1>0, <1>2, MovesBasics
  <2>. QED
    BY <1>0, <1>2, <2>1, DeadKept
<1>3. ASSUME NEW r \in Requests, Finish(r), key'[k] = key[k]
      PROVE  Dead(k)'
  <2>1. Moves(r, "idle", Blank)
    BY <1>0, <1>3, MovesBasics
  <2>. QED
    BY <1>0, <1>3, <2>1, DeadKept
<1>4. ASSUME NEW r \in Requests, NEW s, Goto(r, s), s # "admit", UNCHANGED key
      PROVE  Dead(k)'
  <2>1. Moves(r, s, ctx[r])
    BY <1>0, <1>4, MovesBasics
  <2>. QED
    BY <1>0, <1>4, <2>1, DeadKept
<1>5. ASSUME NEW r \in Requests, KeyInsert(r)
      PROVE  Dead(k)'
  <2>1. PICK new \in Keys :
          /\ key[new].status = "absent"
          /\ key' = [key EXCEPT ![new] = [status |-> "active", user |-> ctx[r].user]]
    BY <1>5 DEF KeyInsert, FreshKeys
  <2>2. key'[k] = key[k]
    BY <2>1 DEF Dead
  <2>. QED
    BY <1>3, <1>5, <2>2 DEF KeyInsert
<1>6. ASSUME NEW r \in Requests, RevokeKey(r)
      PROVE  Dead(k)'
  <2>1. /\ Moves(r, "idle", Blank)
        /\ key' = [key EXCEPT ![ctx[r].key].status = "revoked"]
    BY <1>0, <1>6, MovesBasics DEF RevokeKey
  <2>2. key'[k].status \in {"expired", "revoked"}
    BY <2>1 DEF Dead, IInv, KeyInv, KeyRows, KeyTypes
  <2>3. \A q \in Requests \ {r} : stage'[q] = stage[q] /\ ctx'[q] = ctx[q]
    BY <1>0, <2>1, MovesBasics
  <2>4. stage'[r] = "idle"
    BY <1>0, <2>1, MovesBasics
  <2>. QED
    BY <2>2, <2>3, <2>4 DEF Dead, At
<1>7. ASSUME NEW r \in Requests, NEW j \in Keys, AuthFind(r, j)
      PROVE  Dead(k)'
  <2>1. j # k /\ key[j].user \in Users /\ UNCHANGED key
    BY <1>7 DEF AuthFind, Dead, IInv, KeyInv, KeyRows
  <2>2. [[Blank EXCEPT !.user = key[j].user, !.key = j] EXCEPT !.op = "use"].key = j
    BY DEF Blank
  <2>. QED
    BY <1>2, <1>7, <2>1, <2>2 DEF AuthFind
<1>8. ASSUME NEW j \in Keys, KeyExpires(j)
      PROVE  Dead(k)'
  BY <1>8 DEF KeyExpires, Dead, At, IInv, KeyInv, KeyRows, KeyTypes
<1>9. ASSUME NEW r \in Requests, KeySteps(r)
      PROVE  Dead(k)'
  <2>1. CASE \E u \in Users, right \in BOOLEAN : CreateGate(r, u, right)
    BY <1>2, <2>1 DEF CreateGate
  <2>2. CASE \E u \in Users, j \in Keys :
             RevokeFind(r, u, j) \/ AdminRevokeFind(r, u, j)
    BY <1>2, <2>2 DEF RevokeFind, AdminRevokeFind
  <2>3. CASE KeyLock(r) \/ KeyCount(r)
    BY <1>3, <1>4, <2>3 DEF KeyLock, KeyCount
  <2>4. CASE AuthAdmit(r) \/ \E right \in BOOLEAN : RevokeGate(r, right)
    BY <1>3, <1>4, <2>4 DEF AuthAdmit, RevokeGate
  <2>5. CASE Abort(r)
    BY <1>3, <2>5 DEF Abort, Stop
  <2>. QED
    BY <1>5, <1>6, <1>7, <1>9, <2>1, <2>2, <2>3, <2>4, <2>5 DEF KeySteps
<1>. QED
  BY <1>1, <1>8, <1>9 DEF Next

\* A key that expired or was revoked admits nobody any more, whatever creations,
\* revocations and authentications are under way.
THEOREM DeadKeys == Spec => DeadKeyStaysDead
<1>1. IInv /\ [Next]_vars => [\A k \in Keys : Dead(k) => Dead(k)']_vars
  BY DeadStep
<1>. QED
  BY <1>1, Inductive, PTL DEF Spec, DeadKeyStaysDead
=============================================================================

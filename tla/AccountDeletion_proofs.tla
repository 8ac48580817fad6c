------------------------- MODULE AccountDeletion_proofs -------------------------
(***************************************************************************)
(* Theorems of AccountDeletion and, through it, of Accounts, for any sets  *)
(* of accounts, addresses, rows and runs, any finite set of requests, any  *)
(* workloads and any number of faults.                                     *)
(***************************************************************************)
EXTENDS AccountDeletion, FiniteSetTheorems, TLAPS

-----------------------------------------------------------------------------
(* The inductive invariant: BaseInv, and two parts of its own for what a   *)
(* reset promises and for the counts.                                      *)

AccountRows ==
  [status : {"absent", "live", "gone"}, email : Emails \cup {None},
   verified : BOOLEAN, identity : Identities \cup {None},
   resets : Nat, halfReset : BOOLEAN]

TokenRows ==
  [status : {"absent", "unused", "expired", "used", "deleted"},
   user : Users \cup {None}, type : Types \cup {None}]

SessionRows ==
  [status : {"absent", "active", "revoked", "deleted"},
   user : Users \cup {None}, resets : Nat, late : BOOLEAN]

Locals ==
  [user : Users \cup {None}, email : Emails \cup {None},
   identity : Identities \cup {None}, type : Types \cup {None},
   token : Tokens \cup {None}, session : Sessions \cup {None},
   row : Deletions \cup {None}, resets : Nat]

RequestRows ==
  [status : {"absent", "pending", "cancelled", "completed"},
   user : Users \cup {None}, due : BOOLEAN]

Runs ==
  [stage : {"idle", "delete", "complete"}, todo : SUBSET Deletions,
   row : Deletions \cup {None}]

TypeInv ==
  /\ account \in [Users -> AccountRows]
  /\ token \in [Tokens -> TokenRows]
  /\ session \in [Sessions -> SessionRows]
  /\ request \in [Deletions -> RequestRows]
  /\ runner \in [Runners -> Runs]

OtherInv ==
  /\ state \in [States -> {"absent", "pending", "lapsed"}]
  /\ faults \in 0..MaxFaults
  /\ workload \in Workloads

UniqueInv ==
  \A u, v \in Users :
    u # v /\ Live(u) /\ Live(v) => account[u].email # account[v].email

\* Rows on record belong to an account that exists, a deletion request to one
\* that has existed.
RowInv ==
  /\ \A k \in Tokens : token[k].status \in {"unused", "expired", "used"}
                         => token[k].user \in Users /\ Live(token[k].user)
  /\ \A s \in Sessions : session[s].status \in {"active", "revoked"}
                           => session[s].user \in Users /\ Live(session[s].user)
  /\ \A d \in Deletions :
       request[d].status # "absent" =>
         request[d].user \in Users /\ account[request[d].user].status # "absent"
  /\ CompletedMeansGone

Filed(d) == d \in Deletions /\ request[d].status # "absent"

\* A run has rows that were filed, and completes one whose account is gone.
RunnerInv ==
  \A w \in Runners :
    /\ runner[w].stage = "idle" <=> runner[w].row = None
    /\ \A d \in runner[w].todo : Filed(d)
    /\ runner[w].stage # "idle" => Filed(runner[w].row)
    /\ runner[w].stage = "complete" => ~Live(request[runner[w].row].user)

UserStages ==
  {"invalidate", "insert", "verify", "markUsed", "rename", "password",
   "revokeAll", "rotate", "grant", "link", "createRequest", "cancel",
   "forceDelete"}

\* What a request at stage s with the locals c has read: an account, and the
\* row it is about to write.
Fits(s, c) ==
  /\ s \in UserStages => c.user \in Users
  /\ s \in {"verify", "password", "markUsed"} =>
       c.token \in Tokens /\ token[c.token].status # "absent"
  /\ s = "password" => c.type = "password_reset"
  /\ s = "rotate" =>
       c.session \in Sessions /\ session[c.session].status # "absent"
  /\ s = "cancel" => Filed(c.row)

RequestInv ==
  /\ stage \in [Requests -> Stages]
  /\ ctx \in [Requests -> Locals]
  /\ \A r \in Requests : Fits(stage[r], ctx[r])

BaseInv == TypeInv /\ OtherInv /\ UniqueInv /\ RowInv /\ RunnerInv /\ RequestInv

\* A of what is there and B of the requests that may add to it are no more
\* than the requests.
Bounded(A, B) ==
  /\ IsFiniteSet(A)
  /\ Cardinality(A) + Cardinality(B) <= Cardinality(Requests)

TokenCounts == \A u \in Users, t \in Types : Bounded(InForce(u, t), Inserting(u, t))

IdentityCounts == \A p \in Identities : Bounded(Holders(p), Undecided(p))

PendingCounts == \A u \in Users : Bounded(Pending(u), Creating(u))

CountInv == TokenCounts /\ IdentityCounts /\ PendingCounts

IInv == BaseInv /\ ResetEndsSessions /\ CountInv

LEMMA IInvImplies ==
  IInv => /\ DeletionTypeOK /\ ResetEndsSessions /\ OverlapBounds
          /\ CompletedMeansGone
<1>1. IInv => DeletionTypeOK
  BY DEF IInv, BaseInv, TypeInv, OtherInv, UniqueInv, RowInv, RunnerInv, RequestInv,
         DeletionTypeOK, TypeOK, AccountRows, TokenRows, SessionRows, Locals,
         RequestRows, Runs
<1>2. IInv => OverlapBounds
  BY DEF IInv, CountInv, TokenCounts, IdentityCounts, PendingCounts, Bounded,
         OverlapBounds, TokensInForceBounded, IdentitiesBounded, PendingBounded
<1>. QED
  BY <1>1, <1>2 DEF IInv, BaseInv, RowInv

LEMMA Blanked ==
  Blank \in Locals /\ "idle" \in Stages /\ Blank.token = None
BY DEF Blank, Locals, Stages

\* An account that exists has an address of its own.
LEMMA HomeIs ==
  Home \in [Existing -> Emails] /\ \A u, v \in Existing : Home[u] = Home[v] => u = v
BY EnoughEmails DEF Home

-----------------------------------------------------------------------------
(* Counting.                                                               *)

LEMMA SomeRequests ==
  ASSUME NEW B \in SUBSET Requests
  PROVE  /\ IsFiniteSet(B) /\ Cardinality(B) \in Nat
         /\ Cardinality(Requests) \in Nat
         /\ Cardinality(B) <= Cardinality(Requests)
BY RequestsAreFinite, FS_Subset, FS_CardinalityType

\* Nothing was there.
LEMMA BoundedAtFirst ==
  ASSUME NEW B \in SUBSET Requests
  PROVE  Bounded({}, B)
BY SomeRequests, FS_EmptySet DEF Bounded

\* Nothing is added, and nobody comes to add.
LEMMA BoundedShrinks ==
  ASSUME NEW A, NEW B \in SUBSET Requests, Bounded(A, B),
         NEW C \in SUBSET A, NEW D \in SUBSET B
  PROVE  Bounded(C, D)
<1>1. /\ IsFiniteSet(A) /\ IsFiniteSet(C)
      /\ Cardinality(C) <= Cardinality(A)
      /\ Cardinality(A) \in Nat /\ Cardinality(C) \in Nat
  BY FS_Subset, FS_CardinalityType DEF Bounded
<1>2. /\ Cardinality(D) <= Cardinality(B)
      /\ Cardinality(B) \in Nat /\ Cardinality(D) \in Nat
      /\ Cardinality(Requests) \in Nat
  BY SomeRequests, FS_Subset, FS_CardinalityType
<1>. QED
  BY <1>1, <1>2 DEF Bounded

\* A request adds one, and is no longer about to.
LEMMA BoundedMoves ==
  ASSUME NEW A, NEW B \in SUBSET Requests, Bounded(A, B), NEW r \in B, NEW x,
         NEW C \in SUBSET (A \cup {x}), NEW D \in SUBSET (B \ {r})
  PROVE  Bounded(C, D)
<1>1. /\ IsFiniteSet(A \cup {x})
      /\ Cardinality(A \cup {x}) <= Cardinality(A) + 1
      /\ Cardinality(A) \in Nat
  <2>1. IsFiniteSet(A)
    BY DEF Bounded
  <2>2. Cardinality(A) \in Nat
    BY <2>1, FS_CardinalityType
  <2>3. /\ IsFiniteSet(A \cup {x})
        /\ \/ Cardinality(A \cup {x}) = Cardinality(A)
           \/ Cardinality(A \cup {x}) = Cardinality(A) + 1
    BY <2>1, FS_AddElement
  <2>. QED
    BY <2>2, <2>3
<1>2. /\ IsFiniteSet(C) /\ Cardinality(C) <= Cardinality(A \cup {x})
      /\ Cardinality(C) \in Nat /\ Cardinality(A \cup {x}) \in Nat
  BY <1>1, FS_Subset, FS_CardinalityType
<1>3. /\ IsFiniteSet(B) /\ Cardinality(B) \in Nat
      /\ Cardinality(B \ {r}) = Cardinality(B) - 1
      /\ Cardinality(Requests) \in Nat
  BY SomeRequests, FS_RemoveElement
<1>4. /\ Cardinality(D) <= Cardinality(B \ {r}) /\ Cardinality(D) \in Nat
      /\ Cardinality(B \ {r}) \in Nat
  BY <1>3, SomeRequests, FS_Subset
<1>. QED
  BY <1>1, <1>2, <1>3, <1>4 DEF Bounded

-----------------------------------------------------------------------------
(* The first state.                                                        *)

LEMMA InitInv == Init => IInv
<1>. SUFFICES ASSUME Init PROVE IInv
  OBVIOUS
<1>1. /\ token = [k \in Tokens |-> NoToken]
      /\ session = [s \in Sessions |-> NoSession]
      /\ request = [d \in Deletions |-> NoRequest]
      /\ runner = [w \in Runners |-> Idle]
      /\ stage = [r \in Requests |-> "idle"] /\ ctx = [r \in Requests |-> Blank]
      /\ state = [x \in States |-> "absent"] /\ faults = 0 /\ workload \in Workloads
  BY DEF Init, AccountsInit
<1>2. ASSUME NEW u \in Users
      PROVE  /\ account[u] \in AccountRows /\ account[u].identity = None
             /\ Live(u) => u \in Existing /\ account[u].email = Home[u]
  <2>1. NoAccount \in AccountRows /\ NoAccount.identity = None
        /\ NoAccount.status = "absent"
    BY DEF AccountRows, NoAccount
  <2>2. CASE u \notin Existing
    <3>1. account[u] = NoAccount
      BY <2>2 DEF Init, AccountsInit
    <3>. QED
      BY <2>1, <3>1 DEF Live
  <2>3. CASE u \in Existing
    <3>1. account[u] = [NoAccount EXCEPT !.status = "live", !.verified = TRUE,
                                         !.email = Home[u]]
      BY <2>3 DEF Init, AccountsInit
    <3>2. PICK e \in Emails : e = Home[u]
      BY <2>3, HomeIs
    <3>3. account[u] = [status |-> "live", email |-> e, verified |-> TRUE,
                        identity |-> None, resets |-> 0, halfReset |-> FALSE]
      BY <3>1, <3>2 DEF NoAccount
    <3>4. /\ account[u] \in AccountRows /\ account[u].identity = None
          /\ account[u].email = e
      BY <3>3 DEF AccountRows
    <3>. QED
      BY <2>3, <3>2, <3>4
  <2>. QED
    BY <2>2, <2>3
<1>3. account \in [Users -> AccountRows]
  <2>1. account = [u \in Users |-> account[u]]
    BY DEF Init, AccountsInit
  <2>. QED
    BY <1>2, <2>1
<1>4. TypeInv /\ OtherInv
  BY <1>1, <1>3, MaxFaultsIsNatural
     DEF TypeInv, OtherInv, TokenRows, NoToken, SessionRows, NoSession, RequestRows,
         NoRequest, Runs, Idle
<1>5. UniqueInv
  BY <1>2, HomeIs DEF UniqueInv
<1>6. RowInv /\ RunnerInv
  BY <1>1 DEF RowInv, RunnerInv, CompletedMeansGone, NoToken, NoSession, NoRequest,
              Idle
<1>7. RequestInv
  BY <1>1, Blanked DEF RequestInv, Fits, UserStages
<1>8. ResetEndsSessions
  <2>1. \A s \in Sessions : session[s].status # "active"
    BY <1>1 DEF NoSession
  <2>. QED
    BY <2>1 DEF ResetEndsSessions
<1>9. CountInv
  <2>1. \A u \in Users, t \in Types : InForce(u, t) = {} /\ Inserting(u, t) = {}
    BY <1>1 DEF InForce, Inserting, Valid, NoToken, At
  <2>2. \A p \in Identities : Holders(p) = {} /\ Undecided(p) = {}
    BY <1>1, <1>2, NoneIsNothing DEF Holders, Undecided
  <2>3. \A u \in Users : Pending(u) = {} /\ Creating(u) = {}
    BY <1>1 DEF Pending, Creating, NoRequest, At
  <2>. QED
    BY <2>1, <2>2, <2>3, BoundedAtFirst
       DEF CountInv, TokenCounts, IdentityCounts, PendingCounts
<1>. QED
  BY <1>4, <1>5, <1>6, <1>7, <1>8, <1>9 DEF IInv, BaseInv

-----------------------------------------------------------------------------
(* A request that moves on.                                                *)

LEMMA MovesIs ==
  ASSUME RequestInv, NEW r \in Requests
  PROVE  /\ \A s : Goto(r, s) => GotoWith(r, s, ctx[r])
         /\ \A op, c, s : Arrive(r, op, c, s) => GotoWith(r, s, c) /\ At(r, "idle")
BY DEF RequestInv, Goto, GotoWith, Arrive

LEMMA MovedTypes ==
  ASSUME RequestInv, NEW r \in Requests, NEW s \in Stages, NEW c \in Locals,
         GotoWith(r, s, c)
  PROVE  /\ stage' \in [Requests -> Stages] /\ ctx' \in [Requests -> Locals]
         /\ stage'[r] = s /\ ctx'[r] = c
         /\ \A x \in Requests : x # r => stage'[x] = stage[x] /\ ctx'[x] = ctx[x]
BY DEF RequestInv, GotoWith

\* No row that was inserted comes undone.
Kept ==
  /\ \A k \in Tokens :
       token[k].status # "absent" => token'[k].status # "absent"
  /\ \A s \in Sessions :
       session[s].status # "absent" => session'[s].status # "absent"
  /\ \A d \in Deletions :
       request[d].status # "absent" => request'[d].status # "absent"

LEMMA FitsKept ==
  ASSUME Kept, NEW s, NEW c, Fits(s, c)
  PROVE  Fits(s, c)'
BY DEF Kept, Fits, Filed

LEMMA MovedFits ==
  ASSUME RequestInv, Kept, NEW r \in Requests, NEW s \in Stages, NEW c \in Locals,
         GotoWith(r, s, c), Fits(s, c)
  PROVE  RequestInv'
<1>1. ASSUME NEW x \in Requests PROVE Fits(stage[x], ctx[x])'
  <2>1. CASE x = r
    <3>1. Fits(s, c)' /\ stage'[x] = s /\ ctx'[x] = c
      BY <2>1, FitsKept, MovedTypes
    <3>. QED
      BY <3>1 DEF Fits
  <2>2. CASE x # r
    <3>1. stage'[x] = stage[x] /\ ctx'[x] = ctx[x] /\ Fits(stage[x], ctx[x])
      BY <2>2, MovedTypes DEF RequestInv
    <3>. QED
      BY <3>1 DEF Kept, Fits, Filed
  <2>. QED
    BY <2>1, <2>2
<1>. QED
  BY <1>1, MovedTypes DEF RequestInv

\* No request moves.
LEMMA StillFits ==
  ASSUME RequestInv, Kept, UNCHANGED <<stage, ctx>>
  PROVE  RequestInv'
BY DEF RequestInv, Kept, Fits, Filed

LEMMA InFlight ==
  ASSUME RequestInv, NEW r \in Requests
  PROVE  Fits(stage[r], ctx[r]) /\ ctx[r] \in Locals /\ stage[r] \in Stages
BY DEF RequestInv

-----------------------------------------------------------------------------
(* Steps of requests that only read.                                       *)

LEMMA ReadStep ==
  ASSUME BaseInv, NEW r \in Requests, NEW s \in Stages, NEW c \in Locals,
         UNCHANGED <<account, token, session, faults, workload, request, runner>>,
         state' \in [States -> {"absent", "pending", "lapsed"}],
         GotoWith(r, s, c), Fits(s, c)
  PROVE  BaseInv'
<1>1. TypeInv' /\ OtherInv' /\ UniqueInv'
  BY DEF BaseInv, TypeInv, OtherInv, UniqueInv, Live
<1>2. RowInv' /\ RunnerInv'
  BY DEF BaseInv, RowInv, CompletedMeansGone, RunnerInv, Filed, Live
<1>3. RequestInv'
  BY MovedFits DEF BaseInv, Kept
<1>. QED
  BY <1>1, <1>2, <1>3 DEF BaseInv

\* A request that begins.
LEMMA ArriveStep ==
  ASSUME BaseInv, NEW r \in Requests, NEW s \in Stages, NEW c \in Locals,
         UNCHANGED <<account, token, session, state, faults, workload,
                     request, runner>>,
         \E op : Arrive(r, op, c, s), Fits(s, c)
  PROVE  BaseInv'
BY MovesIs, ReadStep DEF BaseInv, OtherInv

LEMMA ArrivalsKeep ==
  ASSUME BaseInv, NEW r \in Requests, UNCHANGED <<request, runner>>,
         \/ \E e \in Emails : RegisterFind(r, e)
         \/ \E u \in Users, e \in Emails : RenameFind(r, u, e)
         \/ \E k \in Tokens : VerifyFind(r, k) \/ ResetFind(r, k)
         \/ \E u \in Users : ForgotFind(r, u) \/ LoginRead(r, u)
         \/ \E s \in Sessions : RefreshFind(r, s)
         \/ \E u \in Users : RequestFind(r, u) \/ ForceFind(r, u)
         \/ \E u \in Users, d \in Deletions : CancelFind(r, u, d)
  PROVE  BaseInv'
<1>. USE DEF Fits, UserStages
<1>1. UNCHANGED <<account, token, session, state, faults, workload>>
  BY DEF RegisterFind, RenameFind, VerifyFind, ResetFind, ForgotFind, LoginRead,
         RefreshFind, RequestFind, ForceFind, CancelFind, Rest
<1>2. ASSUME NEW e \in Emails, RegisterFind(r, e) PROVE BaseInv'
  <2>1. [Blank EXCEPT !.email = e] \in Locals
    BY DEF Blank, Locals
  <2>. QED
    BY <1>1, <1>2, <2>1, ArriveStep DEF RegisterFind, Stages
<1>3. ASSUME NEW u \in Users, NEW e \in Emails, RenameFind(r, u, e) PROVE BaseInv'
  <2>. DEFINE c == [Blank EXCEPT !.user = u, !.email = e]
  <2>1. c \in Locals /\ c.user = u
    BY DEF Blank, Locals
  <2>. HIDE DEF c
  <2>2. Fits("rename", c)
    BY <2>1
  <2>3. Arrive(r, "rename", c, "rename")
    BY <1>3 DEF RenameFind, c
  <2>. QED
    BY <1>1, <2>1, <2>2, <2>3, ArriveStep DEF Stages
<1>4. ASSUME NEW k \in Tokens, VerifyFind(r, k) \/ ResetFind(r, k) PROVE BaseInv'
  <2>1. PICK t \in Types, s \in {"verify", "password"} :
          /\ Valid(k, t) /\ (s = "password" => t = "password_reset")
          /\ \E op : Arrive(r, op, [Blank EXCEPT !.user = token[k].user, !.token = k,
                                                 !.type = t], s)
    BY <1>4 DEF VerifyFind, ResetFind, Types
  <2>2. token[k].user \in Users /\ token[k].status = "unused"
    BY <2>1 DEF Valid, BaseInv, RowInv
  <2>. DEFINE c == [Blank EXCEPT !.user = token[k].user, !.token = k, !.type = t]
  <2>3. c \in Locals /\ c.user \in Users /\ c.token = k /\ c.type = t
    BY <2>2 DEF Blank, Locals
  <2>. HIDE DEF c
  <2>4. Fits(s, c)
    BY <2>1, <2>2, <2>3
  <2>5. \E op : Arrive(r, op, c, s)
    BY <2>1 DEF c
  <2>. QED
    BY <1>1, <2>3, <2>4, <2>5, ArriveStep DEF Stages
<1>5. ASSUME NEW u \in Users, ForgotFind(r, u) PROVE BaseInv'
  <2>. DEFINE c == [Blank EXCEPT !.user = u, !.type = "password_reset"]
  <2>1. c \in Locals /\ c.user = u
    BY DEF Blank, Locals, Types
  <2>. HIDE DEF c
  <2>2. Fits("invalidate", c)
    BY <2>1
  <2>3. Arrive(r, "forgot", c, "invalidate")
    BY <1>5 DEF ForgotFind, c
  <2>. QED
    BY <1>1, <2>1, <2>2, <2>3, ArriveStep DEF Stages
<1>6. ASSUME NEW u \in Users, LoginRead(r, u) PROVE BaseInv'
  <2>. DEFINE c == [Blank EXCEPT !.user = u, !.resets = account[u].resets]
  <2>1. account[u].resets \in Nat
    BY DEF BaseInv, TypeInv, AccountRows
  <2>2. c \in Locals /\ c.user = u
    BY <2>1 DEF Blank, Locals
  <2>. HIDE DEF c
  <2>3. Fits("grant", c)
    BY <2>2
  <2>4. Arrive(r, "login", c, "grant")
    BY <1>6 DEF LoginRead, c
  <2>. QED
    BY <1>1, <2>2, <2>3, <2>4, ArriveStep DEF Stages
<1>7. ASSUME NEW s \in Sessions, RefreshFind(r, s) PROVE BaseInv'
  <2>1. /\ session[s].status = "active" /\ session[s].user \in Users
        /\ session[s].resets \in Nat
    BY <1>7 DEF RefreshFind, BaseInv, RowInv, TypeInv, SessionRows
  <2>. DEFINE c == [Blank EXCEPT !.user = session[s].user, !.session = s,
                                 !.resets = session[s].resets]
  <2>2. c \in Locals /\ c.user \in Users /\ c.session = s
    BY <2>1 DEF Blank, Locals
  <2>. HIDE DEF c
  <2>3. Fits("rotate", c)
    BY <2>1, <2>2
  <2>4. Arrive(r, "refresh", c, "rotate")
    BY <1>7 DEF RefreshFind, c
  <2>. QED
    BY <1>1, <2>2, <2>3, <2>4, ArriveStep DEF Stages
<1>8. ASSUME NEW u \in Users, RequestFind(r, u) \/ ForceFind(r, u) PROVE BaseInv'
  <2>. DEFINE c == [Blank EXCEPT !.user = u]
  <2>1. c \in Locals /\ c.user = u
    BY DEF Blank, Locals
  <2>2. PICK s \in {"createRequest", "forceDelete"} : \E op : Arrive(r, op, c, s)
    BY <1>8 DEF RequestFind, ForceFind
  <2>. HIDE DEF c
  <2>3. Fits(s, c)
    BY <2>1
  <2>. QED
    BY <1>1, <2>1, <2>2, <2>3, ArriveStep DEF Stages
<1>9. ASSUME NEW u \in Users, NEW d \in Deletions, CancelFind(r, u, d)
      PROVE  BaseInv'
  <2>. DEFINE c == [Blank EXCEPT !.user = u, !.row = d]
  <2>1. c \in Locals /\ c.user = u /\ c.row = d /\ Filed(d)
    BY <1>9 DEF Blank, Locals, CancelFind, Pending, Filed
  <2>. HIDE DEF c
  <2>2. Fits("cancel", c)
    BY <2>1
  <2>3. Arrive(r, "cancel", c, "cancel")
    BY <1>9 DEF CancelFind, c
  <2>. QED
    BY <1>1, <2>1, <2>2, <2>3, ArriveStep DEF Stages
<1>. QED
  BY <1>2, <1>3, <1>4, <1>5, <1>6, <1>7, <1>8, <1>9

\* The callback of OAuth, and its reads.
LEMMA OAuthReadsKeep ==
  ASSUME BaseInv, NEW r \in Requests, UNCHANGED <<request, runner>>,
         \/ \E x \in States, p \in Identities, e \in Emails :
              OAuthCallback(r, x, p, e)
         \/ FindIdentity(r) \/ FindEmail(r)
  PROVE  BaseInv'
<1>. USE DEF Fits, UserStages
<1>1. /\ UNCHANGED <<account, token, session, faults, workload>>
      /\ state' \in [States -> {"absent", "pending", "lapsed"}]
  BY DEF OAuthCallback, FindIdentity, FindEmail, BaseInv, OtherInv
<1>2. ASSUME NEW x \in States, NEW p \in Identities, NEW e \in Emails,
             OAuthCallback(r, x, p, e)
      PROVE  BaseInv'
  <2>. DEFINE c == [Blank EXCEPT !.identity = p, !.email = e]
  <2>1. c \in Locals
    BY DEF Blank, Locals
  <2>2. \E op : Arrive(r, op, c, "findIdentity")
    BY <1>2 DEF OAuthCallback
  <2>. HIDE DEF c
  <2>3. Fits("findIdentity", c) /\ GotoWith(r, "findIdentity", c)
    BY <2>2, MovesIs DEF BaseInv
  <2>. QED
    BY <1>1, <2>1, <2>3, ReadStep DEF Stages
<1>3. CASE Goto(r, "findEmail") \/ Goto(r, "createOAuth")
  <2>1. ctx[r] \in Locals
    BY InFlight DEF BaseInv
  <2>2. Fits("findEmail", ctx[r]) /\ Fits("createOAuth", ctx[r])
    OBVIOUS
  <2>. QED
    BY <1>1, <1>3, <2>1, <2>2, MovesIs, ReadStep DEF Stages, BaseInv
<1>4. CASE \E u \in Users : GotoWith(r, "grant", [ctx[r] EXCEPT !.user = u,
                                                    !.resets = account[u].resets])
  <2>1. PICK u \in Users : GotoWith(r, "grant", [ctx[r] EXCEPT !.user = u,
                                                   !.resets = account[u].resets])
    BY <1>4
  <2>2. ctx[r] \in Locals /\ account[u].resets \in Nat
    BY InFlight DEF BaseInv, TypeInv, AccountRows
  <2>. DEFINE c == [ctx[r] EXCEPT !.user = u, !.resets = account[u].resets]
  <2>3. c \in Locals /\ c.user = u
    BY <2>2 DEF Locals
  <2>4. GotoWith(r, "grant", c)
    BY <2>1
  <2>. HIDE DEF c
  <2>5. Fits("grant", c)
    BY <2>3
  <2>. QED
    BY <1>1, <2>3, <2>4, <2>5, ReadStep DEF Stages
<1>5. CASE \E u \in Users : GotoWith(r, "link", [ctx[r] EXCEPT !.user = u])
  <2>1. PICK u \in Users : GotoWith(r, "link", [ctx[r] EXCEPT !.user = u])
    BY <1>5
  <2>2. ctx[r] \in Locals
    BY InFlight DEF BaseInv
  <2>. DEFINE c == [ctx[r] EXCEPT !.user = u]
  <2>3. c \in Locals /\ c.user = u
    BY <2>2 DEF Locals
  <2>4. GotoWith(r, "link", c)
    BY <2>1
  <2>. HIDE DEF c
  <2>5. Fits("link", c)
    BY <2>3
  <2>. QED
    BY <1>1, <2>3, <2>4, <2>5, ReadStep DEF Stages
<1>6. FindIdentity(r) => \/ Goto(r, "findEmail")
                         \/ \E u \in Users :
                              GotoWith(r, "grant",
                                       [ctx[r] EXCEPT !.user = u,
                                                      !.resets = account[u].resets])
  BY DEF FindIdentity, Holders
<1>7. FindEmail(r) => \/ Goto(r, "createOAuth")
                      \/ \E u \in Users :
                           GotoWith(r, "link", [ctx[r] EXCEPT !.user = u])
  BY DEF FindEmail, Owner
<1>. QED
  BY <1>2, <1>3, <1>4, <1>5, <1>6, <1>7

-----------------------------------------------------------------------------
(* Steps that write accounts.                                              *)

\* Accounts come to exist, and none goes.
LEMMA AccountStep ==
  ASSUME BaseInv, UNCHANGED <<token, session, request, runner>>,
         account' \in [Users -> AccountRows], UniqueInv', OtherInv', RequestInv',
         \A u \in Users : \/ account'[u].status = account[u].status
                          \/ account[u].status = "absent"
  PROVE  BaseInv'
<1>1. TypeInv'
  BY DEF BaseInv, TypeInv
<1>2. \A u \in Users : /\ Live(u) => account'[u].status = "live"
                       /\ account[u].status # "absent" =>
                            account'[u].status = account[u].status
  BY DEF Live
<1>3. RowInv'
  BY <1>2 DEF BaseInv, RowInv, CompletedMeansGone, Live
<1>4. RunnerInv'
  <2>1. ASSUME NEW d, Filed(d), ~Live(request[d].user)
        PROVE  ~Live(request[d].user)'
    BY <1>2, <2>1 DEF Filed, BaseInv, RowInv, Live
  <2>. QED
    BY <2>1 DEF BaseInv, RunnerInv, Filed
<1>. QED
  BY <1>1, <1>3, <1>4 DEF BaseInv

\* One row is written, at an address nobody else has.
LEMMA RowWritten ==
  ASSUME BaseInv, NEW u \in Users, NEW a \in AccountRows,
         UNCHANGED <<token, session, request, runner>>,
         account' = [account EXCEPT ![u] = a], OtherInv', RequestInv',
         a.status = account[u].status \/ account[u].status = "absent",
         a.status = "live" => \/ Live(u) /\ a.email = account[u].email
                              \/ Owner(a.email) = {}
  PROVE  BaseInv'
<1>1. /\ account' \in [Users -> AccountRows]
      /\ account'[u] = a
      /\ \A v \in Users : v # u => account'[v] = account[v]
  BY DEF BaseInv, TypeInv
<1>2. UniqueInv'
  BY <1>1 DEF BaseInv, UniqueInv, Owner, Live
<1>. QED
  BY <1>1, <1>2, AccountStep

\* A row that exists is written, its status and address left alone.
LEMMA FieldWritten ==
  ASSUME BaseInv, NEW u \in Users, NEW a \in AccountRows,
         UNCHANGED <<token, session, request, runner>>,
         account' = [account EXCEPT ![u] = a], OtherInv', RequestInv',
         a.status = account[u].status, a.email = account[u].email
  PROVE  BaseInv'
BY RowWritten DEF Live

LEMMA OtherKept ==
  ASSUME BaseInv, UNCHANGED <<state, faults, workload>>
  PROVE  OtherInv'
BY DEF BaseInv, OtherInv

LEMMA AccountKept ==
  ASSUME UNCHANGED <<token, session, request>> PROVE Kept
BY DEF Kept

LEMMA BlankFits == Fits("idle", Blank)
BY DEF Fits, UserStages

\* A request that writes no row of its own moves on.
LEMMA MoveOn ==
  ASSUME BaseInv, NEW r \in Requests, NEW s \in Stages, NEW c \in Locals,
         UNCHANGED <<token, session, request>>, GotoWith(r, s, c), Fits(s, c)
  PROVE  RequestInv'
BY AccountKept, MovedFits DEF BaseInv

LEMMA Finished ==
  ASSUME BaseInv, NEW r \in Requests, UNCHANGED <<token, session, request>>,
         Finish(r)
  PROVE  RequestInv'
BY MoveOn, Blanked, BlankFits DEF Finish

\* Nothing but the request moves.
LEMMA OnlyMoves ==
  ASSUME BaseInv, NEW r \in Requests, Finish(r),
         UNCHANGED <<account, token, session, state, faults, workload,
                     request, runner>>
  PROVE  BaseInv'
BY Blanked, BlankFits, ReadStep DEF Finish, BaseInv, OtherInv

\* An account comes to be, and its request goes on with it.
LEMMA AccountBorn ==
  ASSUME BaseInv, NEW r \in Requests, NEW s \in {"invalidate", "grant"},
         NEW a \in AccountRows, a.status = "live", a.email = ctx[r].email,
         NEW c \in Locals, c.user = NextUser,
         Owner(ctx[r].email) = {}, Unborn # {},
         account' = [account EXCEPT ![NextUser] = a], GotoWith(r, s, c),
         UNCHANGED <<token, session, state, faults, workload, request, runner>>
  PROVE  BaseInv'
<1>1. NextUser \in Users /\ account[NextUser].status = "absent"
  BY DEF NextUser, Unborn
<1>2. Fits(s, c)
  BY <1>1 DEF Fits
<1>3. RequestInv'
  BY <1>2, MoveOn DEF Stages
<1>. QED
  BY <1>1, <1>3, RowWritten, OtherKept

LEMMA CreateUserKeeps ==
  ASSUME BaseInv, NEW r \in Requests, UNCHANGED <<request, runner>>, CreateUser(r)
  PROVE  BaseInv'
<1>1. CASE Owner(ctx[r].email) # {}
  BY <1>1, OnlyMoves DEF CreateUser
<1>2. CASE Owner(ctx[r].email) = {}
  <2>. DEFINE a == [NoAccount EXCEPT !.status = "live", !.email = ctx[r].email]
              c == [ctx[r] EXCEPT !.user = NextUser, !.type = "email_verification"]
  <2>1. ctx[r] \in Locals
    BY InFlight DEF BaseInv
  <2>2. Unborn # {} /\ NextUser \in Users
    BY <1>2 DEF CreateUser, NextUser, Unborn
  <2>3. a \in AccountRows /\ a.status = "live" /\ a.email = ctx[r].email
    BY <2>1 DEF NoAccount, AccountRows, Locals
  <2>4. c \in Locals /\ c.user = NextUser
    BY <2>1, <2>2 DEF Locals, Types
  <2>5. /\ account' = [account EXCEPT ![NextUser] = a]
        /\ GotoWith(r, "invalidate", c)
        /\ UNCHANGED <<token, session, state, faults, workload>>
    BY <1>2 DEF CreateUser
  <2>. HIDE DEF a, c
  <2>. QED
    BY <1>2, <2>2, <2>3, <2>4, <2>5, AccountBorn
<1>. QED
  BY <1>1, <1>2

LEMMA CreateOAuthUserKeeps ==
  ASSUME BaseInv, NEW r \in Requests, UNCHANGED <<request, runner>>,
         CreateOAuthUser(r)
  PROVE  BaseInv'
<1>1. CASE Owner(ctx[r].email) # {}
  BY <1>1, OnlyMoves DEF CreateOAuthUser
<1>2. CASE Owner(ctx[r].email) = {}
  <2>. DEFINE a == [NoAccount EXCEPT !.status = "live", !.verified = TRUE,
                                     !.email = ctx[r].email,
                                     !.identity = ctx[r].identity]
              c == [ctx[r] EXCEPT !.user = NextUser]
  <2>1. ctx[r] \in Locals
    BY InFlight DEF BaseInv
  <2>2. Unborn # {} /\ NextUser \in Users
    BY <1>2 DEF CreateOAuthUser, NextUser, Unborn
  <2>3. a \in AccountRows /\ a.status = "live" /\ a.email = ctx[r].email
    BY <2>1 DEF NoAccount, AccountRows, Locals
  <2>4. c \in Locals /\ c.user = NextUser
    BY <2>1, <2>2 DEF Locals
  <2>5. /\ account' = [account EXCEPT ![NextUser] = a]
        /\ GotoWith(r, "grant", c)
        /\ UNCHANGED <<token, session, state, faults, workload>>
    BY <1>2 DEF CreateOAuthUser
  <2>. HIDE DEF a, c
  <2>. QED
    BY <1>2, <2>2, <2>3, <2>4, <2>5, AccountBorn
<1>. QED
  BY <1>1, <1>2

LEMMA RenameWriteKeeps ==
  ASSUME BaseInv, NEW r \in Requests, UNCHANGED <<request, runner>>, RenameWrite(r)
  PROVE  BaseInv'
<1>. DEFINE u == ctx[r].user
<1>1. u \in Users /\ ctx[r] \in Locals /\ account[u] \in AccountRows
  BY InFlight DEF BaseInv, TypeInv, RenameWrite, At, Fits, UserStages
<1>2. CASE Live(u) /\ Owner(ctx[r].email) = {}
  <2>. DEFINE a == [account[u] EXCEPT !.email = ctx[r].email]
  <2>1. a \in AccountRows /\ a.email = ctx[r].email /\ a.status = account[u].status
    BY <1>1 DEF AccountRows, Locals
  <2>2. account' = [account EXCEPT ![u] = a]
    BY <1>2 DEF RenameWrite
  <2>. HIDE DEF a
  <2>3. RequestInv'
    BY Finished DEF RenameWrite
  <2>. QED
    BY <1>1, <1>2, <2>1, <2>2, <2>3, RowWritten, OtherKept DEF RenameWrite
<1>3. CASE ~(Live(u) /\ Owner(ctx[r].email) = {})
  BY <1>3, OnlyMoves DEF RenameWrite
<1>. QED
  BY <1>2, <1>3

LEMMA SetVerifiedKeeps ==
  ASSUME BaseInv, NEW u \in Users, NEW flag \in BOOLEAN, SetVerified(u, flag),
         UNCHANGED <<request, runner>>
  PROVE  BaseInv'
<1>. DEFINE a == [account[u] EXCEPT !.verified = flag]
<1>1. account[u] \in AccountRows
  BY DEF BaseInv, TypeInv
<1>2. a \in AccountRows /\ a.email = account[u].email /\ a.status = account[u].status
  BY <1>1 DEF AccountRows
<1>3. account' = [account EXCEPT ![u] = a]
  BY DEF SetVerified
<1>. HIDE DEF a
<1>4. RequestInv'
  BY AccountKept, StillFits DEF SetVerified, BaseInv
<1>. QED
  BY <1>2, <1>3, <1>4, FieldWritten, OtherKept DEF SetVerified

LEMMA MarkEmailVerifiedKeeps ==
  ASSUME BaseInv, NEW r \in Requests, UNCHANGED <<request, runner>>,
         MarkEmailVerified(r)
  PROVE  BaseInv'
<1>. DEFINE u == ctx[r].user
            b == account[u].verified \/ Live(u)
            a == [account[u] EXCEPT !.verified = b]
<1>1. /\ u \in Users /\ ctx[r] \in Locals /\ account[u] \in AccountRows
      /\ Fits("markUsed", ctx[r])
  BY InFlight DEF BaseInv, TypeInv, MarkEmailVerified, At, Fits, UserStages
<1>2. account' = [account EXCEPT ![u] = a]
  BY DEF MarkEmailVerified
<1>3. b \in BOOLEAN
  OBVIOUS
<1>. HIDE DEF b
<1>4. a \in AccountRows /\ a.email = account[u].email /\ a.status = account[u].status
  BY <1>1, <1>3 DEF AccountRows
<1>. HIDE DEF a
<1>5. RequestInv'
  BY <1>1, MovesIs, MoveOn DEF MarkEmailVerified, BaseInv, Stages
<1>. QED
  BY <1>1, <1>2, <1>4, <1>5, FieldWritten, OtherKept DEF MarkEmailVerified

LEMMA UpdatePasswordKeeps ==
  ASSUME BaseInv, NEW r \in Requests, UNCHANGED <<request, runner>>,
         UpdatePassword(r)
  PROVE  BaseInv'
<1>. DEFINE u == ctx[r].user
            n == IF Live(u) THEN account[u].resets + 1 ELSE account[u].resets
            a == [account[u] EXCEPT !.resets = n]
<1>1. /\ u \in Users /\ ctx[r] \in Locals /\ account[u] \in AccountRows
      /\ Fits("markUsed", ctx[r])
  BY InFlight DEF BaseInv, TypeInv, UpdatePassword, At, Fits, UserStages
<1>2. account' = [account EXCEPT ![u] = a]
  BY DEF UpdatePassword
<1>3. n \in Nat
  BY <1>1 DEF AccountRows
<1>. HIDE DEF n
<1>4. a \in AccountRows /\ a.email = account[u].email /\ a.status = account[u].status
  BY <1>1, <1>3 DEF AccountRows
<1>. HIDE DEF a
<1>5. RequestInv'
  BY <1>1, MovesIs, MoveOn DEF UpdatePassword, BaseInv, Stages
<1>. QED
  BY <1>1, <1>2, <1>4, <1>5, FieldWritten, OtherKept DEF UpdatePassword

LEMMA LinkOAuthKeeps ==
  ASSUME BaseInv, NEW r \in Requests, UNCHANGED <<request, runner>>, LinkOAuth(r)
  PROVE  BaseInv'
<1>. DEFINE u == ctx[r].user
            a == [account[u] EXCEPT !.identity = ctx[r].identity]
            c == [ctx[r] EXCEPT !.resets = account[u].resets]
<1>1. u \in Users /\ ctx[r] \in Locals /\ account[u] \in AccountRows
  BY InFlight DEF BaseInv, TypeInv, LinkOAuth, At, Fits, UserStages
<1>2. CASE Live(u)
  <2>1. a \in AccountRows /\ a.email = account[u].email /\ a.status = account[u].status
    BY <1>1 DEF AccountRows, Locals
  <2>2. c \in Locals /\ c.user = u
    BY <1>1 DEF AccountRows, Locals
  <2>3. account' = [account EXCEPT ![u] = a] /\ GotoWith(r, "grant", c)
    BY <1>2 DEF LinkOAuth
  <2>4. UNCHANGED <<token, session, state, faults, workload>>
    BY DEF LinkOAuth
  <2>. HIDE DEF a, c
  <2>5. Fits("grant", c)
    BY <1>1, <2>2 DEF Fits
  <2>6. RequestInv'
    BY <2>2, <2>3, <2>4, <2>5, MoveOn DEF Stages
  <2>. QED
    BY <1>1, <2>1, <2>3, <2>4, <2>6, FieldWritten, OtherKept
<1>3. CASE ~Live(u)
  BY <1>3, OnlyMoves DEF LinkOAuth
<1>. QED
  BY <1>2, <1>3

\* What requests leave behind is written to their accounts.
LEMMA StoppedStep ==
  ASSUME BaseInv, NEW S, Stopped(S), UNCHANGED <<token, session, request>>,
         OtherInv', RequestInv', RunnerInv' \/ UNCHANGED runner,
         runner' \in [Runners -> Runs]
  PROVE  BaseInv'
<1>1. ASSUME NEW u \in Users
      PROVE  /\ account'[u] \in AccountRows
             /\ account'[u].status = account[u].status
             /\ account'[u].email = account[u].email
  <2>. DEFINE b == account[u].halfReset \/ \E r \in S :
                     /\ ctx[r].user = u
                     /\ \/ At(r, "revokeAll")
                        \/ At(r, "markUsed") /\ ctx[r].type = "password_reset"
  <2>1. account'[u] = [account[u] EXCEPT !.halfReset = b]
    BY DEF Stopped
  <2>2. account[u] \in AccountRows /\ b \in BOOLEAN
    BY DEF BaseInv, TypeInv
  <2>. HIDE DEF b
  <2>. QED
    BY <2>1, <2>2 DEF AccountRows
<1>2. account' \in [Users -> AccountRows]
  <2>1. account' = [u \in Users |-> account'[u]]
    BY DEF Stopped
  <2>. QED
    BY <1>1, <2>1
<1>3. TypeInv'
  BY <1>2 DEF BaseInv, TypeInv
<1>4. UniqueInv' /\ \A u \in Users : Live(u) <=> Live(u)'
  BY <1>1 DEF BaseInv, UniqueInv, Live
<1>5. RowInv'
  BY <1>1, <1>4 DEF BaseInv, RowInv, CompletedMeansGone
<1>6. RunnerInv'
  <2>1. ASSUME UNCHANGED runner PROVE RunnerInv'
    <3>1. ASSUME NEW d, Filed(d), ~Live(request[d].user)
          PROVE  ~Live(request[d].user)'
      BY <1>4, <3>1 DEF Filed, BaseInv, RowInv
    <3>. QED
      BY <2>1, <3>1 DEF BaseInv, RunnerInv, Filed
  <2>. QED
    BY <2>1
<1>. QED
  BY <1>3, <1>4, <1>5, <1>6 DEF BaseInv

LEMMA AbortKeeps ==
  ASSUME BaseInv, NEW r \in Requests, Abort(r), UNCHANGED <<request, runner>>
  PROVE  BaseInv'
<1>1. OtherInv'
  BY MaxFaultsIsNatural DEF Abort, BaseInv, OtherInv
<1>2. RequestInv' /\ runner' \in [Runners -> Runs]
  BY Finished DEF Abort, BaseInv, TypeInv
<1>. QED
  BY <1>1, <1>2, StoppedStep DEF Abort

LEMMA RestartKeeps == ASSUME BaseInv, Restart PROVE BaseInv'
<1>1. OtherInv'
  BY MaxFaultsIsNatural DEF Restart, BaseInv, OtherInv
<1>2. RequestInv'
  BY Blanked, BlankFits DEF Restart, RequestInv, Fits, UserStages
<1>3. runner' \in [Runners -> Runs] /\ RunnerInv'
  BY DEF Restart, Runs, RunnerInv, Idle
<1>. QED
  BY <1>1, <1>2, <1>3, StoppedStep DEF Restart

-----------------------------------------------------------------------------
(* Steps that write tokens.                                                *)

\* Tokens are written, and those in force or used belong to live accounts.
LEMMA TokenStep ==
  ASSUME BaseInv, UNCHANGED <<account, session, request, runner>>, OtherInv',
         token' \in [Tokens -> TokenRows],
         \A k \in Tokens : token'[k].status \in {"unused", "expired", "used"}
           => token'[k].user \in Users /\ Live(token'[k].user),
         RequestInv'
  PROVE  BaseInv'
<1>1. TypeInv' /\ UniqueInv'
  BY DEF BaseInv, TypeInv, UniqueInv, Live
<1>2. RowInv' /\ RunnerInv'
  BY DEF BaseInv, RowInv, CompletedMeansGone, RunnerInv, Filed, Live
<1>. QED
  BY <1>1, <1>2 DEF BaseInv

\* No token is put back to what it was before it was inserted, and only the
\* one inserted has a user it did not have.
LEMMA RewrittenTokens ==
  ASSUME BaseInv, UNCHANGED <<account, session, request, runner>>, OtherInv',
         NEW S \in SUBSET {"expired", "used"},
         token' \in [Tokens -> TokenRows],
         \A k \in Tokens :
           \/ token'[k] = token[k]
           \/ /\ token[k].status \in {"unused", "expired", "used"}
              /\ token'[k].user = token[k].user
              /\ token'[k].status \in S,
         Kept => RequestInv'
  PROVE  BaseInv'
<1>1. \A k \in Tokens : token[k].status \in {"unused", "expired", "used"}
                          => token[k].user \in Users /\ Live(token[k].user)
  BY DEF BaseInv, RowInv
<1>2. Kept
  BY DEF Kept
<1>. QED
  BY <1>1, <1>2, TokenStep

LEMMA InvalidateKeeps ==
  ASSUME BaseInv, NEW r \in Requests, UNCHANGED <<request, runner>>, Invalidate(r)
  PROVE  BaseInv'
<1>1. ctx[r] \in Locals /\ Fits("insert", ctx[r])
  BY InFlight DEF BaseInv, Invalidate, At, Fits, UserStages
<1>2. Kept => RequestInv'
  BY <1>1, MovesIs, MovedFits DEF Invalidate, BaseInv, Stages
<1>3. ASSUME NEW k \in Tokens
      PROVE  /\ token'[k] \in TokenRows
             /\ \/ token'[k] = token[k]
                \/ /\ token[k].status \in {"unused", "expired", "used"}
                   /\ token'[k].user = token[k].user
                   /\ token'[k].status = "used"
  <2>1. token[k] \in TokenRows
    BY DEF BaseInv, TypeInv
  <2>2. CASE k \in Outstanding(ctx[r].user, ctx[r].type)
    <3>1. token'[k] = [token[k] EXCEPT !.status = "used"]
      BY <2>2 DEF Invalidate
    <3>. QED
      BY <2>1, <2>2, <3>1 DEF TokenRows, Outstanding
  <2>3. CASE k \notin Outstanding(ctx[r].user, ctx[r].type)
    <3>1. token'[k] = token[k]
      BY <2>3 DEF Invalidate
    <3>. QED
      BY <2>1, <3>1
  <2>. QED
    BY <2>2, <2>3
<1>4. token' \in [Tokens -> TokenRows]
  <2>1. token' = [k \in Tokens |-> token'[k]]
    BY DEF Invalidate
  <2>. QED
    BY <1>3, <2>1
<1>. QED
  BY <1>2, <1>3, <1>4, RewrittenTokens, OtherKept DEF Invalidate

\* What MarkUsed writes.
LEMMA MarkedToken ==
  ASSUME BaseInv, NEW r \in Requests, MarkUsed(r)
  PROVE  /\ ctx[r].token \in Tokens /\ token[ctx[r].token].status # "absent"
         /\ token' \in [Tokens -> TokenRows]
         /\ \A k \in Tokens : k # ctx[r].token => token'[k] = token[k]
         /\ token'[ctx[r].token].user = token[ctx[r].token].user
         /\ token'[ctx[r].token].type = token[ctx[r].token].type
         /\ token'[ctx[r].token].status =
              IF token[ctx[r].token].status = "deleted" THEN "deleted" ELSE "used"
<1>1. ctx[r].token \in Tokens /\ token[ctx[r].token].status # "absent"
  BY InFlight DEF BaseInv, MarkUsed, At, Fits
<1>. DEFINE n == IF token[ctx[r].token].status = "deleted" THEN "deleted" ELSE "used"
<1>2. /\ token \in [Tokens -> TokenRows] /\ n \in {"deleted", "used"}
      /\ token' = [token EXCEPT ![ctx[r].token].status = n]
  BY DEF BaseInv, TypeInv, MarkUsed
<1>. HIDE DEF n
<1>3. /\ token' \in [Tokens -> TokenRows]
      /\ \A k \in Tokens : k # ctx[r].token => token'[k] = token[k]
      /\ token'[ctx[r].token] = [token[ctx[r].token] EXCEPT !.status = n]
  BY <1>1, <1>2 DEF TokenRows
<1>. QED
  BY <1>1, <1>2, <1>3 DEF n, TokenRows

LEMMA MarkUsedKeeps ==
  ASSUME BaseInv, NEW r \in Requests, UNCHANGED <<request, runner>>, MarkUsed(r)
  PROVE  BaseInv'
<1>1. ctx[r] \in Locals /\ Fits("revokeAll", ctx[r])
  BY InFlight DEF BaseInv, MarkUsed, At, Fits, UserStages
<1>2. PICK s \in {"revokeAll", "idle"}, c \in {ctx[r], Blank} :
        GotoWith(r, s, c) /\ c \in Locals /\ Fits(s, c)
  BY <1>1, MovesIs, Blanked, BlankFits DEF MarkUsed, Finish, BaseInv
<1>3. Kept => RequestInv'
  BY <1>2, MovedFits DEF BaseInv, Stages
<1>4. \A k \in Tokens : token[k] \in TokenRows
  BY DEF BaseInv, TypeInv
<1>5. ASSUME NEW k \in Tokens
      PROVE  \/ token'[k] = token[k]
             \/ /\ token[k].status \in {"unused", "expired", "used"}
                /\ token'[k].user = token[k].user
                /\ token'[k].status = "used"
  <2>1. CASE k = ctx[r].token /\ token[k].status = "deleted"
    <3>1. /\ token'[k] \in TokenRows /\ token[k] \in TokenRows
          /\ token'[k].user = token[k].user /\ token'[k].type = token[k].type
          /\ token'[k].status = token[k].status
      BY <1>4, <2>1, MarkedToken
    <3>. QED
      BY <3>1 DEF TokenRows
  <2>2. CASE k = ctx[r].token /\ token[k].status # "deleted"
    BY <1>4, <2>2, MarkedToken DEF TokenRows
  <2>3. CASE k # ctx[r].token
    BY <2>3, MarkedToken
  <2>. QED
    BY <2>1, <2>2, <2>3
<1>6. UNCHANGED <<account, session, state, faults, workload>>
  BY DEF MarkUsed
<1>7. token' \in [Tokens -> TokenRows]
  BY MarkedToken
<1>. QED
  BY <1>3, <1>5, <1>6, <1>7, RewrittenTokens, OtherKept

LEMMA TokenExpiresKeeps ==
  ASSUME BaseInv, NEW k \in Tokens, TokenExpires(k), UNCHANGED <<request, runner>>
  PROVE  BaseInv'
<1>1. Kept => RequestInv'
  BY StillFits DEF TokenExpires, BaseInv
<1>2. token \in [Tokens -> TokenRows]
  BY DEF BaseInv, TypeInv
<1>3. /\ token' \in [Tokens -> TokenRows]
      /\ token'[k] = [token[k] EXCEPT !.status = "expired"]
      /\ \A x \in Tokens : x # k => token'[x] = token[x]
  BY <1>2 DEF TokenExpires, TokenRows
<1>4. token'[k].user = token[k].user /\ token'[k].status = "expired"
  BY <1>2, <1>3 DEF TokenRows
<1>. QED
  BY <1>1, <1>3, <1>4, RewrittenTokens, OtherKept DEF TokenExpires

LEMMA InsertTokenKeeps ==
  ASSUME BaseInv, NEW r \in Requests, UNCHANGED <<request, runner>>, InsertToken(r)
  PROVE  BaseInv'
<1>1. CASE ~Live(ctx[r].user)
  BY <1>1, OnlyMoves DEF InsertToken
<1>2. CASE Live(ctx[r].user)
  <2>1. ctx[r].user \in Users /\ ctx[r].type \in Types \cup {None}
    BY InFlight DEF BaseInv, InsertToken, At, Fits, UserStages, Locals
  <2>. DEFINE n == [status |-> "unused", user |-> ctx[r].user, type |-> ctx[r].type]
  <2>2. PICK k \in Tokens : /\ token[k].status = "absent"
                            /\ token' = [token EXCEPT ![k] = n]
    BY <1>2 DEF InsertToken, FreshTokens
  <2>3. n \in TokenRows /\ n.user = ctx[r].user
    BY <2>1 DEF TokenRows
  <2>. HIDE DEF n
  <2>4. /\ token' \in [Tokens -> TokenRows] /\ token'[k] = n
        /\ \A x \in Tokens : x # k => token'[x] = token[x]
    BY <2>2, <2>3 DEF BaseInv, TypeInv
  <2>5. token'[k].status = "unused"
    BY <2>4 DEF n
  <2>6. UNCHANGED <<account, session, state, faults, workload>>
    BY DEF InsertToken
  <2>7. Kept
    BY <2>2, <2>4, <2>6 DEF Kept
  <2>8. RequestInv'
    BY <2>7, MovedFits, Blanked, BlankFits DEF BaseInv, InsertToken, Finish
  <2>9. \A x \in Tokens : token[x].status \in {"unused", "expired", "used"}
                            => token[x].user \in Users /\ Live(token[x].user)
    BY DEF BaseInv, RowInv
  <2>10. \A x \in Tokens : token'[x].status \in {"unused", "expired", "used"}
           => token'[x].user \in Users /\ Live(token'[x].user)
    BY <1>2, <2>1, <2>3, <2>4, <2>9
  <2>. QED
    BY <2>4, <2>6, <2>8, <2>10, TokenStep, OtherKept
<1>. QED
  BY <1>1, <1>2

-----------------------------------------------------------------------------
(* Steps that write sessions.                                              *)

LEMMA SessionStep ==
  ASSUME BaseInv, UNCHANGED <<account, token, state, faults, workload,
                              request, runner>>,
         session' \in [Sessions -> SessionRows],
         \A s \in Sessions : session'[s].status \in {"active", "revoked"}
           => session'[s].user \in Users /\ Live(session'[s].user),
         RequestInv'
  PROVE  BaseInv'
<1>1. TypeInv' /\ UniqueInv' /\ OtherInv'
  BY DEF BaseInv, TypeInv, UniqueInv, OtherInv, Live
<1>2. RowInv' /\ RunnerInv'
  BY DEF BaseInv, RowInv, CompletedMeansGone, RunnerInv, Filed, Live
<1>. QED
  BY <1>1, <1>2 DEF BaseInv

LEMMA RevokeAllForUserKeeps ==
  ASSUME BaseInv, NEW r \in Requests, UNCHANGED <<request, runner>>,
         RevokeAllForUser(r)
  PROVE  BaseInv'
<1>1. ASSUME NEW s \in Sessions
      PROVE  /\ session'[s] \in SessionRows
             /\ session'[s].user = session[s].user
             /\ \/ session'[s].status = session[s].status
                \/ /\ session[s].status = "active"
                   /\ session'[s].status = "revoked"
  <2>1. session[s] \in SessionRows
    BY DEF BaseInv, TypeInv
  <2>2. CASE session[s].user = ctx[r].user /\ session[s].status = "active"
    <3>1. session'[s] = [session[s] EXCEPT !.status = "revoked"]
      BY <2>2 DEF RevokeAllForUser
    <3>. QED
      BY <2>1, <2>2, <3>1 DEF SessionRows
  <2>3. CASE ~(session[s].user = ctx[r].user /\ session[s].status = "active")
    <3>1. session'[s] = session[s]
      BY <2>3 DEF RevokeAllForUser
    <3>. QED
      BY <2>1, <3>1
  <2>. QED
    BY <2>2, <2>3
<1>2. session' \in [Sessions -> SessionRows]
  <2>1. session' = [s \in Sessions |-> session'[s]]
    BY DEF RevokeAllForUser
  <2>. QED
    BY <1>1, <2>1
<1>3. UNCHANGED <<account, token, state, faults, workload>> /\ Finish(r)
  BY DEF RevokeAllForUser
<1>4. Kept
  BY <1>1, <1>3 DEF Kept
<1>5. RequestInv'
  BY <1>3, <1>4, MovedFits, Blanked, BlankFits DEF BaseInv, Finish
<1>6. \A s \in Sessions : session[s].status \in {"active", "revoked"}
                            => session[s].user \in Users /\ Live(session[s].user)
  BY DEF BaseInv, RowInv
<1>7. \A s \in Sessions : session'[s].status \in {"active", "revoked"}
                            => session'[s].user \in Users /\ Live(session'[s].user)
  BY <1>1, <1>6
<1>. QED
  BY <1>2, <1>3, <1>5, <1>7, SessionStep

\* What RefreshRevoke writes.
LEMMA RotatedSession ==
  ASSUME BaseInv, NEW r \in Requests, RefreshRevoke(r)
  PROVE  /\ session' \in [Sessions -> SessionRows]
         /\ \A s \in Sessions :
              \/ session'[s] = session[s]
              \/ /\ session[s].status \in {"active", "revoked"}
                 /\ session'[s].user = session[s].user
                 /\ session'[s].resets = session[s].resets
                 /\ session'[s].late = session[s].late
                 /\ session'[s].status = "revoked"
<1>1. ctx[r].session \in Sessions /\ session[ctx[r].session].status # "absent"
  BY InFlight DEF BaseInv, RefreshRevoke, At, Fits
<1>. DEFINE n == IF session[ctx[r].session].status = "deleted"
                 THEN "deleted" ELSE "revoked"
<1>2. /\ session \in [Sessions -> SessionRows] /\ n \in {"deleted", "revoked"}
      /\ n = "deleted" <=> session[ctx[r].session].status = "deleted"
      /\ session' = [session EXCEPT ![ctx[r].session].status = n]
  BY DEF BaseInv, TypeInv, RefreshRevoke
<1>. HIDE DEF n
<1>3. /\ session' \in [Sessions -> SessionRows]
      /\ \A s \in Sessions : s # ctx[r].session => session'[s] = session[s]
      /\ session'[ctx[r].session] = [session[ctx[r].session] EXCEPT !.status = n]
  BY <1>1, <1>2 DEF SessionRows
<1>4. CASE n = "deleted"
  <2>1. session'[ctx[r].session] = session[ctx[r].session]
    BY <1>1, <1>2, <1>3, <1>4 DEF SessionRows
  <2>. QED
    BY <1>3, <2>1
<1>5. CASE n = "revoked"
  BY <1>1, <1>2, <1>3, <1>5 DEF SessionRows
<1>. QED
  BY <1>2, <1>4, <1>5

LEMMA RefreshRevokeKeeps ==
  ASSUME BaseInv, NEW r \in Requests, UNCHANGED <<request, runner>>,
         RefreshRevoke(r)
  PROVE  BaseInv'
<1>1. UNCHANGED <<account, token, state, faults, workload>>
  BY DEF RefreshRevoke
<1>2. Kept
  BY <1>1, RotatedSession DEF Kept
<1>3. ctx[r] \in Locals /\ Fits("grant", ctx[r])
  BY InFlight DEF BaseInv, RefreshRevoke, At, Fits, UserStages
<1>4. RequestInv'
  BY <1>2, <1>3, MovesIs, MovedFits DEF RefreshRevoke, BaseInv, Stages
<1>5. \A s \in Sessions : session[s].status \in {"active", "revoked"}
                            => session[s].user \in Users /\ Live(session[s].user)
  BY DEF BaseInv, RowInv
<1>6. \A s \in Sessions : session'[s].status \in {"active", "revoked"}
                            => session'[s].user \in Users /\ Live(session'[s].user)
  BY <1>5, RotatedSession
<1>7. session' \in [Sessions -> SessionRows]
  BY RotatedSession
<1>. QED
  BY <1>1, <1>4, <1>6, <1>7, SessionStep

\* What Grant writes for a live account.
LEMMA GrantedSession ==
  ASSUME BaseInv, NEW r \in Requests, Grant(r), Live(ctx[r].user)
  PROVE  /\ ctx[r].user \in Users
         /\ session' \in [Sessions -> SessionRows]
         /\ \E s \in Sessions :
              /\ session[s].status = "absent"
              /\ session'[s].status = "active" /\ session'[s].user = ctx[r].user
              /\ session'[s].resets = ctx[r].resets
              /\ session'[s].late = (ctx[r].resets < account[ctx[r].user].resets)
              /\ \A x \in Sessions : x # s => session'[x] = session[x]
<1>1. /\ ctx[r].user \in Users /\ ctx[r].resets \in Nat
      /\ account[ctx[r].user].resets \in Nat
  BY InFlight DEF BaseInv, TypeInv, AccountRows, Grant, At, Fits, UserStages, Locals
<1>. DEFINE b == ctx[r].resets < account[ctx[r].user].resets
            n == [status |-> "active", user |-> ctx[r].user,
                  resets |-> ctx[r].resets, late |-> b]
<1>2. PICK s \in Sessions : /\ session[s].status = "absent"
                            /\ session' = [session EXCEPT ![s] = n]
  BY DEF Grant, FreshSessions
<1>3. b \in BOOLEAN
  OBVIOUS
<1>. HIDE DEF b
<1>4. /\ n \in SessionRows /\ n.status = "active" /\ n.user = ctx[r].user
      /\ n.resets = ctx[r].resets /\ n.late = b
  BY <1>1, <1>3 DEF SessionRows
<1>. HIDE DEF n
<1>5. /\ session' \in [Sessions -> SessionRows] /\ session'[s] = n
      /\ \A x \in Sessions : x # s => session'[x] = session[x]
  BY <1>2, <1>4 DEF BaseInv, TypeInv
<1>6. /\ session'[s].status = "active" /\ session'[s].user = ctx[r].user
      /\ session'[s].resets = ctx[r].resets /\ session'[s].late = b
  BY <1>4, <1>5, Zenon
<1>7. session'[s].late = (ctx[r].resets < account[ctx[r].user].resets)
  BY <1>6, Zenon DEF b
<1>. QED
  BY <1>1, <1>2, <1>5, <1>6, <1>7, Zenon

LEMMA GrantKeeps ==
  ASSUME BaseInv, NEW r \in Requests, UNCHANGED <<request, runner>>, Grant(r)
  PROVE  BaseInv'
<1>1. CASE ~Live(ctx[r].user)
  BY <1>1, OnlyMoves DEF Grant
<1>2. CASE Live(ctx[r].user)
  <2>1. UNCHANGED <<account, token, state, faults, workload>> /\ Finish(r)
    BY DEF Grant
  <2>2. Kept
    BY <1>2, <2>1, GrantedSession DEF Kept
  <2>3. RequestInv'
    BY <2>1, <2>2, MovedFits, Blanked, BlankFits DEF BaseInv, Finish
  <2>4. \A s \in Sessions : session[s].status \in {"active", "revoked"}
                              => session[s].user \in Users /\ Live(session[s].user)
    BY DEF BaseInv, RowInv
  <2>5. \A s \in Sessions : session'[s].status \in {"active", "revoked"}
          => session'[s].user \in Users /\ Live(session'[s].user)
    BY <1>2, <2>4, GrantedSession
  <2>. QED
    BY <1>2, <2>1, <2>3, <2>5, GrantedSession, SessionStep
<1>. QED
  BY <1>1, <1>2

LEMMA StatesKeep ==
  ASSUME BaseInv, UNCHANGED <<request, runner>>,
         (\E x \in States : OAuthBegin(x) \/ StateLapses(x)) \/ CleanStates
  PROVE  BaseInv'
<1>1. UNCHANGED <<account, token, session, stage, ctx, faults, workload>>
  BY DEF OAuthBegin, StateLapses, CleanStates
<1>2. OtherInv'
  BY DEF OAuthBegin, StateLapses, CleanStates, BaseInv, OtherInv
<1>3. RequestInv'
  BY <1>1, AccountKept, StillFits DEF BaseInv
<1>. QED
  BY <1>1, <1>2, <1>3, AccountStep DEF BaseInv, TypeInv, UniqueInv, Live

-----------------------------------------------------------------------------
(* Steps that write deletion requests.                                     *)

\* Requests are written, and stay with the account they were filed for.
LEMMA RequestStep ==
  ASSUME BaseInv, UNCHANGED <<account, token, session, state, faults, workload>>,
         request' \in [Deletions -> RequestRows],
         \A d \in Deletions :
           \/ request'[d] = request[d]
           \/ /\ request'[d].status # "absent" /\ request'[d].user \in Users
              /\ account[request'[d].user].status # "absent"
              /\ request[d].status # "absent" => request'[d].user = request[d].user
              /\ request'[d].status = "completed" => ~Live(request'[d].user),
         runner' \in [Runners -> Runs], RunnerInv' \/ UNCHANGED runner,
         Kept => RequestInv'
  PROVE  BaseInv'
<1>1. TypeInv' /\ UniqueInv' /\ OtherInv'
  BY DEF BaseInv, TypeInv, UniqueInv, OtherInv, Live
<1>2. \A d \in Deletions : request[d].status # "absent" =>
        request'[d].status # "absent" /\ request'[d].user = request[d].user
  OBVIOUS
<1>3. RowInv'
  <2>1. \A d \in Deletions :
          /\ request[d].status # "absent" =>
               request[d].user \in Users /\ account[request[d].user].status # "absent"
          /\ request[d].status = "completed" => ~Live(request[d].user)
    BY DEF BaseInv, RowInv, CompletedMeansGone
  <2>2. \A d \in Deletions :
          /\ request'[d].status # "absent" =>
               request'[d].user \in Users /\ account[request'[d].user].status # "absent"
          /\ request'[d].status = "completed" => ~Live(request'[d].user)
    BY <2>1
  <2>. QED
    BY <2>2 DEF BaseInv, RowInv, CompletedMeansGone, Live
<1>4. RunnerInv'
  <2>1. ASSUME UNCHANGED runner PROVE RunnerInv'
    BY <1>2, <2>1 DEF BaseInv, RunnerInv, Filed, Live
  <2>. QED
    BY <2>1
<1>5. Kept
  BY <1>2 DEF Kept
<1>. QED
  BY <1>1, <1>3, <1>4, <1>5 DEF BaseInv

LEMMA RequestCreateKeeps ==
  ASSUME BaseInv, NEW r \in Requests, RequestCreate(r)
  PROVE  BaseInv'
<1>1. UNCHANGED <<account, token, session, state, faults, workload, runner>>
  BY DEF RequestCreate, Rest
<1>2. CASE ~Live(ctx[r].user)
  BY <1>1, <1>2, OnlyMoves DEF RequestCreate
<1>3. CASE Live(ctx[r].user)
  <2>1. ctx[r].user \in Users
    BY InFlight DEF BaseInv, RequestCreate, At, Fits, UserStages
  <2>. DEFINE n == [status |-> "pending", user |-> ctx[r].user, due |-> FALSE]
  <2>2. PICK d \in Deletions : /\ request[d].status = "absent"
                               /\ request' = [request EXCEPT ![d] = n]
    BY <1>3 DEF RequestCreate, Unfiled
  <2>3. n \in RequestRows /\ n.status = "pending" /\ n.user = ctx[r].user
    BY <2>1 DEF RequestRows
  <2>. HIDE DEF n
  <2>4. /\ request' \in [Deletions -> RequestRows] /\ request'[d] = n
        /\ \A x \in Deletions : x # d => request'[x] = request[x]
    BY <2>2, <2>3 DEF BaseInv, TypeInv
  <2>5. Kept => RequestInv'
    BY MovedFits, Blanked, BlankFits DEF BaseInv, RequestCreate, Finish
  <2>6. runner' \in [Runners -> Runs]
    BY <1>1 DEF BaseInv, TypeInv
  <2>. QED
    BY <1>1, <1>3, <2>1, <2>2, <2>3, <2>4, <2>5, <2>6, RequestStep DEF Live
<1>. QED
  BY <1>2, <1>3

\* A row that was filed is written, its account left alone.
LEMMA RequestMarked ==
  ASSUME BaseInv, NEW d, Filed(d), NEW s \in {"pending", "cancelled", "completed"},
         request' = [request EXCEPT ![d].status = s]
  PROVE  /\ request' \in [Deletions -> RequestRows]
         /\ \A x \in Deletions : x # d => request'[x] = request[x]
         /\ d \in Deletions /\ request'[d].status = s
         /\ request'[d].user = request[d].user /\ request'[d].due = request[d].due
         /\ request'[d].user \in Users
         /\ account[request'[d].user].status # "absent"
<1>1. /\ d \in Deletions /\ request[d].user \in Users
      /\ account[request[d].user].status # "absent"
  BY DEF Filed, BaseInv, RowInv
<1>2. request \in [Deletions -> RequestRows]
  BY DEF BaseInv, TypeInv
<1>3. request'[d] = [request[d] EXCEPT !.status = s]
  BY <1>1, <1>2
<1>. QED
  BY <1>1, <1>2, <1>3 DEF RequestRows

LEMMA CancelWriteKeeps ==
  ASSUME BaseInv, NEW r \in Requests, CancelWrite(r)
  PROVE  BaseInv'
<1>1. Filed(ctx[r].row)
  BY InFlight DEF BaseInv, CancelWrite, At, Fits
<1>. DEFINE d == ctx[r].row
<1>2. request' = [request EXCEPT ![d].status = "cancelled"] /\ Finish(r)
  BY DEF CancelWrite
<1>3. UNCHANGED <<account, token, session, state, faults, workload, runner>>
  BY DEF CancelWrite, Rest
<1>4. Kept => RequestInv'
  BY <1>2, MovedFits, Blanked, BlankFits DEF BaseInv, Finish
<1>5. runner' \in [Runners -> Runs]
  BY <1>3 DEF BaseInv, TypeInv
<1>. HIDE DEF d
<1>6. /\ request' \in [Deletions -> RequestRows]
      /\ \A x \in Deletions : x # d => request'[x] = request[x]
      /\ d \in Deletions /\ request'[d].status = "cancelled"
      /\ request'[d].user = request[d].user
      /\ request'[d].user \in Users /\ account[request'[d].user].status # "absent"
  BY <1>1, <1>2, RequestMarked DEF d
<1>. QED
  BY <1>3, <1>4, <1>5, <1>6, RequestStep

LEMMA BecomeDueKeeps ==
  ASSUME BaseInv, NEW d \in Deletions, BecomeDue(d)
  PROVE  BaseInv'
<1>1. /\ UNCHANGED <<account, token, session, state, faults, workload, runner>>
      /\ UNCHANGED <<stage, ctx>>
  BY DEF BecomeDue, Rest
<1>2. /\ request[d].user \in Users /\ account[request[d].user].status # "absent"
      /\ request[d].status = "pending"
  BY DEF BecomeDue, BaseInv, RowInv
<1>3. request \in [Deletions -> RequestRows]
  BY DEF BaseInv, TypeInv
<1>4. request'[d] = [request[d] EXCEPT !.due = TRUE]
  BY <1>3 DEF BecomeDue
<1>5. request[d] \in RequestRows
  BY <1>3
<1>6. /\ request'[d] \in RequestRows
      /\ request'[d].status = "pending" /\ request'[d].user = request[d].user
  BY <1>2, <1>4, <1>5 DEF RequestRows
<1>7. /\ request' \in [Deletions -> RequestRows]
      /\ \A x \in Deletions : x # d => request'[x] = request[x]
  BY <1>3, <1>4, <1>6 DEF BecomeDue
<1>8. Kept => RequestInv'
  BY <1>1, StillFits DEF BaseInv
<1>9. runner' \in [Runners -> Runs]
  BY <1>1 DEF BaseInv, TypeInv
<1>. QED
  BY <1>1, <1>2, <1>6, <1>7, <1>8, <1>9, RequestStep

-----------------------------------------------------------------------------
(* Runs of the job.                                                        *)

\* A run with the rows it has left is one of Runs, and the rows are filed.
LEMMA Proceeds ==
  ASSUME BaseInv, NEW w \in Runners, NEW S \in SUBSET Deletions, Proceed(w, S),
         \A d \in S : Filed(d)
  PROVE  /\ runner' \in [Runners -> Runs]
         /\ \A x \in Runners : x # w => runner'[x] = runner[x]
         /\ runner'[w].stage # "complete"
         /\ runner'[w].stage = "idle" <=> runner'[w].row = None
         /\ \A d \in runner'[w].todo : d \in S
         /\ runner'[w].stage # "idle" => runner'[w].row \in S
<1>1. Idle \in Runs
  BY DEF Idle, Runs
<1>2. CASE S = {}
  <2>1. runner' = [runner EXCEPT ![w] = Idle]
    BY <1>2 DEF Proceed
  <2>. QED
    BY <1>1, <2>1 DEF BaseInv, TypeInv, Idle
<1>3. CASE S # {}
  <2>1. PICK d \in S : runner' = [runner EXCEPT ![w] =
                         [stage |-> "delete", todo |-> S \ {d}, row |-> d]]
    BY <1>3 DEF Proceed
  <2>2. [stage |-> "delete", todo |-> S \ {d}, row |-> d] \in Runs
    BY DEF Runs
  <2>3. d # None
    BY NoneIsNothing
  <2>. QED
    BY <2>1, <2>2, <2>3 DEF BaseInv, TypeInv
<1>. QED
  BY <1>2, <1>3

\* RunnerInv after such a step, if filed rows stay filed.
LEMMA ProceedsInv ==
  ASSUME BaseInv, NEW w \in Runners, NEW S \in SUBSET Deletions, Proceed(w, S),
         \A d \in S : Filed(d), UNCHANGED account,
         \A d \in Deletions : request[d].status # "absent" =>
           request'[d].status # "absent" /\ request'[d].user = request[d].user
  PROVE  RunnerInv'
<1>. DEFINE Still(d) == /\ d \in Deletions /\ request'[d].status # "absent"
                        /\ request'[d].user = request[d].user
<1>1. ASSUME NEW d, Filed(d) PROVE Still(d)
  BY <1>1 DEF Filed
<1>2. ASSUME NEW x \in Runners
      PROVE  /\ runner'[x].stage = "idle" <=> runner'[x].row = None
             /\ \A d \in runner'[x].todo : Still(d)
             /\ runner'[x].stage # "idle" => Still(runner'[x].row)
             /\ runner'[x].stage = "complete" =>
                  ~Live(request[runner'[x].row].user)
  <2>1. CASE x = w
    BY <1>1, <2>1, Proceeds
  <2>2. CASE x # w
    <3>1. runner'[x] = runner[x]
      BY <2>2, Proceeds
    <3>2. /\ runner[x].stage = "idle" <=> runner[x].row = None
          /\ \A d \in runner[x].todo : Filed(d)
          /\ runner[x].stage # "idle" => Filed(runner[x].row)
          /\ runner[x].stage = "complete" => ~Live(request[runner[x].row].user)
      BY DEF BaseInv, RunnerInv
    <3>. QED
      BY <1>1, <3>1, <3>2
  <2>. QED
    BY <2>1, <2>2
<1>. QED
  BY <1>2 DEF RunnerInv, Live, Filed

LEMMA NothingWritten ==
  ASSUME BaseInv, NEW w \in Runners, NEW S \in SUBSET Deletions, Proceed(w, S),
         \A d \in S : Filed(d), OtherInv',
         UNCHANGED <<account, token, session, stage, ctx, request>>
  PROVE  BaseInv'
<1>1. RunnerInv'
  BY ProceedsInv
<1>2. TypeInv'
  BY Proceeds DEF BaseInv, TypeInv
<1>3. RowInv' /\ UniqueInv'
  BY DEF BaseInv, RowInv, CompletedMeansGone, UniqueInv, Live
<1>4. RequestInv'
  BY StillFits, AccountKept DEF BaseInv
<1>. QED
  BY <1>1, <1>2, <1>3, <1>4 DEF BaseInv

LEMMA StartRunKeeps ==
  ASSUME BaseInv, NEW w \in Runners, StartRun(w)
  PROVE  BaseInv'
<1>. DEFINE S == {d \in FindDue : Live(request[d].user)}
<1>1. S \in SUBSET Deletions /\ \A d \in S : Filed(d)
  BY DEF FindDue, Filed
<1>2. Proceed(w, S)
  BY DEF StartRun
<1>3. UNCHANGED <<account, token, session, stage, ctx, request>> /\ OtherInv'
  BY DEF StartRun, Rest, BaseInv, OtherInv
<1>. HIDE DEF S
<1>. QED
  BY <1>1, <1>2, <1>3, NothingWritten

LEMMA PurgeSkipKeeps ==
  ASSUME BaseInv, NEW w \in Runners, PurgeSkip(w)
  PROVE  BaseInv'
<1>1. runner[w].todo \in SUBSET Deletions /\ \A d \in runner[w].todo : Filed(d)
  BY DEF BaseInv, TypeInv, Runs, RunnerInv
<1>2. UNCHANGED <<account, token, session, stage, ctx, request>> /\ OtherInv'
  BY MaxFaultsIsNatural DEF PurgeSkip, BaseInv, OtherInv
<1>. QED
  BY <1>1, <1>2, NothingWritten DEF PurgeSkip

LEMMA PurgeCompleteKeeps ==
  ASSUME BaseInv, NEW w \in Runners, PurgeComplete(w)
  PROVE  BaseInv'
<1>. DEFINE d == runner[w].row
<1>1. /\ runner[w].todo \in SUBSET Deletions /\ \A x \in runner[w].todo : Filed(x)
      /\ Filed(d) /\ ~Live(request[d].user)
  BY DEF BaseInv, TypeInv, Runs, RunnerInv, PurgeComplete
<1>2. /\ request' = [request EXCEPT ![d].status = "completed"]
      /\ Proceed(w, runner[w].todo)
      /\ UNCHANGED <<account, token, session, state, faults, workload, stage, ctx>>
  BY DEF PurgeComplete, Rest
<1>. HIDE DEF d
<1>3. /\ request' \in [Deletions -> RequestRows]
      /\ \A x \in Deletions : x # d => request'[x] = request[x]
      /\ d \in Deletions /\ request'[d].status = "completed"
      /\ request'[d].user = request[d].user
      /\ request'[d].user \in Users /\ account[request'[d].user].status # "absent"
  BY <1>1, <1>2, RequestMarked
<1>4. RunnerInv'
  BY <1>1, <1>2, <1>3, ProceedsInv
<1>5. runner' \in [Runners -> Runs]
  BY <1>1, <1>2, Proceeds
<1>6. Kept => RequestInv'
  BY <1>2, StillFits DEF BaseInv
<1>. QED
  BY <1>1, <1>2, <1>3, <1>4, <1>5, <1>6, RequestStep

-----------------------------------------------------------------------------
(* Deleting an account.                                                    *)

LEMMA DeletedAccounts ==
  ASSUME BaseInv, NEW u \in Users, DeleteUser(u)
  PROVE  /\ account' \in [Users -> AccountRows]
         /\ \A v \in Users :
              /\ account'[v].status =
                   IF v = u /\ account[v].status = "live" THEN "gone"
                   ELSE account[v].status
              /\ account'[v].email = account[v].email
              /\ account'[v].identity = account[v].identity
              /\ account'[v].resets = account[v].resets
              /\ account'[v].halfReset = account[v].halfReset
<1>. DEFINE n == IF account[u].status = "live" THEN "gone" ELSE account[u].status
<1>1. account' = [account EXCEPT ![u].status = n]
  BY DEF DeleteUser
<1>2. account \in [Users -> AccountRows] /\ account[u] \in AccountRows
  BY DEF BaseInv, TypeInv
<1>3. n \in {"absent", "gone"}
  BY <1>2 DEF AccountRows
<1>4. n = IF account[u].status = "live" THEN "gone" ELSE account[u].status
  OBVIOUS
<1>. HIDE DEF n
<1>5. /\ account'[u] = [account[u] EXCEPT !.status = n]
      /\ \A v \in Users : v # u => account'[v] = account[v]
  BY <1>1, <1>2
<1>6. /\ account'[u] \in AccountRows /\ account'[u].status = n
      /\ account'[u].email = account[u].email
      /\ account'[u].identity = account[u].identity
      /\ account'[u].resets = account[u].resets
      /\ account'[u].halfReset = account[u].halfReset
  BY <1>2, <1>3, <1>5 DEF AccountRows
<1>. QED
  BY <1>1, <1>2, <1>4, <1>5, <1>6

\* A row of a table that cascades is as it was, or deleted with its account.
LEMMA DeletedTokens ==
  ASSUME BaseInv, NEW u \in Users, DeleteUser(u)
  PROVE  /\ token' \in [Tokens -> TokenRows]
         /\ \A k \in Tokens : token[k].user # u => token'[k] = token[k]
         /\ \A k \in Tokens : token[k].user = u =>
              /\ token'[k].status = "deleted" /\ token'[k].user = token[k].user
              /\ token'[k].type = token[k].type
<1>1. token' = [k \in Tokens |->
                  IF token[k].user = u THEN [token[k] EXCEPT !.status = "deleted"]
                  ELSE token[k]]
  BY DEF DeleteUser
<1>2. \A k \in Tokens : token[k] \in TokenRows
  BY DEF BaseInv, TypeInv
<1>. QED
  BY <1>1, <1>2 DEF TokenRows

LEMMA DeletedSessions ==
  ASSUME BaseInv, NEW u \in Users, DeleteUser(u)
  PROVE  /\ session' \in [Sessions -> SessionRows]
         /\ \A s \in Sessions : session[s].user # u => session'[s] = session[s]
         /\ \A s \in Sessions : session[s].user = u =>
              session'[s].status = "deleted" /\ session'[s].user = session[s].user
<1>1. session' = [s \in Sessions |->
                    IF session[s].user = u
                    THEN [session[s] EXCEPT !.status = "deleted"]
                    ELSE session[s]]
  BY DEF DeleteUser
<1>2. \A s \in Sessions : session[s] \in SessionRows
  BY DEF BaseInv, TypeInv
<1>. QED
  BY <1>1, <1>2 DEF SessionRows

LEMMA DeleteStep ==
  ASSUME BaseInv, NEW u \in Users, DeleteUser(u),
         UNCHANGED <<state, faults, workload, request>>,
         runner' \in [Runners -> Runs], Kept => RequestInv',
         \A w \in Runners :
           \/ runner'[w] = runner[w]
           \/ /\ runner[w].stage # "idle" /\ runner'[w].stage # "idle"
              /\ runner'[w].row = runner[w].row /\ runner'[w].todo = runner[w].todo
              /\ request[runner[w].row].user = u
  PROVE  BaseInv'
<1>1. TypeInv' /\ OtherInv'
  BY DeletedAccounts, DeletedTokens, DeletedSessions
     DEF BaseInv, TypeInv, OtherInv
<1>2. /\ \A v \in Users : Live(v)' <=> Live(v) /\ v # u
      /\ \A v \in Users : account[v].status # "absent" =>
                            account'[v].status # "absent"
  BY DeletedAccounts DEF Live
<1>3. UniqueInv'
  BY <1>2, DeletedAccounts DEF BaseInv, UniqueInv
<1>4. RowInv'
  <2>1. /\ \A k \in Tokens : token[k].status \in {"unused", "expired", "used"}
                               => token[k].user \in Users /\ Live(token[k].user)
        /\ \A s \in Sessions : session[s].status \in {"active", "revoked"}
                               => session[s].user \in Users /\ Live(session[s].user)
        /\ \A d \in Deletions :
             /\ request[d].status # "absent" =>
                  request[d].user \in Users
                  /\ account[request[d].user].status # "absent"
             /\ request[d].status = "completed" => ~Live(request[d].user)
    BY DEF BaseInv, RowInv, CompletedMeansGone
  <2>2. \A k \in Tokens : token'[k].status \in {"unused", "expired", "used"}
          => token'[k].user \in Users /\ Live(token[k].user)' /\ token'[k] = token[k]
    BY <1>2, <2>1, DeletedTokens
  <2>3. \A s \in Sessions : session'[s].status \in {"active", "revoked"}
          => /\ session'[s].user \in Users /\ Live(session[s].user)'
             /\ session'[s] = session[s]
    BY <1>2, <2>1, DeletedSessions
  <2>4. \A d \in Deletions :
          /\ request'[d].status # "absent" =>
               request'[d].user \in Users
               /\ account'[request'[d].user].status # "absent"
          /\ request'[d].status = "completed" =>
               account'[request'[d].user].status # "live"
    BY <1>2, <2>1 DEF Live
  <2>. QED
    BY <2>2, <2>3, <2>4 DEF RowInv, CompletedMeansGone, Live
<1>5. RunnerInv'
  <2>1. ASSUME NEW d, Filed(d)
        PROVE  /\ Filed(d)' /\ request[d].user \in Users
               /\ ~Live(request[d].user) \/ request[d].user = u =>
                    account'[request[d].user].status # "live"
    BY <1>2, <2>1 DEF Filed, BaseInv, RowInv, Live
  <2>2. ASSUME NEW w \in Runners
        PROVE  /\ runner'[w].stage = "idle" <=> runner'[w].row = None
               /\ \A d \in runner'[w].todo : Filed(d)'
               /\ runner'[w].stage # "idle" => Filed(runner[w].row)'
                                               /\ runner'[w].row = runner[w].row
               /\ runner'[w].stage = "complete" =>
                    account'[request[runner[w].row].user].status # "live"
    <3>1. /\ runner[w].stage = "idle" <=> runner[w].row = None
          /\ \A d \in runner[w].todo : Filed(d)
          /\ runner[w].stage # "idle" => Filed(runner[w].row)
          /\ runner[w].stage = "complete" => ~Live(request[runner[w].row].user)
      BY DEF BaseInv, RunnerInv
    <3>. QED
      BY <2>1, <3>1
  <2>. QED
    BY <2>2 DEF RunnerInv, Live, Filed
<1>6. Kept
  <2>1. \A k \in Tokens : token[k].status # "absent" => token'[k].status # "absent"
    BY DeletedTokens
  <2>2. \A s \in Sessions :
          session[s].status # "absent" => session'[s].status # "absent"
    BY DeletedSessions
  <2>. QED
    BY <2>1, <2>2 DEF Kept
<1>. QED
  BY <1>1, <1>3, <1>4, <1>5, <1>6 DEF BaseInv

LEMMA ForceDeleteKeeps ==
  ASSUME BaseInv, NEW r \in Requests, ForceDelete(r)
  PROVE  BaseInv'
<1>1. ctx[r].user \in Users
  BY InFlight DEF BaseInv, ForceDelete, At, Fits, UserStages
<1>2. Kept => RequestInv'
  BY MovedFits, Blanked, BlankFits DEF BaseInv, ForceDelete, Finish
<1>3. /\ DeleteUser(ctx[r].user)
      /\ UNCHANGED <<state, faults, workload, request, runner>>
  BY DEF ForceDelete, Rest
<1>4. runner' \in [Runners -> Runs]
  BY <1>3 DEF BaseInv, TypeInv
<1>. QED
  BY <1>1, <1>2, <1>3, <1>4, DeleteStep

LEMMA PurgeDeleteKeeps ==
  ASSUME BaseInv, NEW w \in Runners, PurgeDelete(w)
  PROVE  BaseInv'
<1>. DEFINE u == request[runner[w].row].user
<1>1. u \in Users /\ runner[w].stage = "delete"
  BY DEF BaseInv, RunnerInv, RowInv, Filed, PurgeDelete
<1>2. /\ DeleteUser(u) /\ runner' = [runner EXCEPT ![w].stage = "complete"]
      /\ UNCHANGED <<state, faults, workload, request, stage, ctx>>
  BY DEF PurgeDelete, Rest
<1>3. /\ runner' \in [Runners -> Runs] /\ runner'[w].stage = "complete"
      /\ runner'[w].row = runner[w].row /\ runner'[w].todo = runner[w].todo
      /\ \A x \in Runners : x # w => runner'[x] = runner[x]
  <2>1. runner \in [Runners -> Runs] /\ runner[w] \in Runs
    BY DEF BaseInv, TypeInv
  <2>2. runner'[w] = [runner[w] EXCEPT !.stage = "complete"]
    BY <1>2, <2>1
  <2>3. /\ runner'[w] \in Runs /\ runner'[w].stage = "complete"
        /\ runner'[w].row = runner[w].row /\ runner'[w].todo = runner[w].todo
    BY <2>1, <2>2 DEF Runs
  <2>. QED
    BY <1>2, <2>1, <2>2, <2>3
<1>4. Kept => RequestInv'
  BY <1>2, StillFits DEF BaseInv
<1>5. request[runner[w].row].user = u
  OBVIOUS
<1>. HIDE DEF u
<1>. QED
  BY <1>1, <1>2, <1>3, <1>4, <1>5, DeleteStep

-----------------------------------------------------------------------------
(* Every step keeps BaseInv.                                               *)

LEMMA BaseKept == BaseInv /\ [Next]_vars => BaseInv'
<1>. SUFFICES ASSUME BaseInv, [Next]_vars PROVE BaseInv'
  OBVIOUS
<1>1. CASE UNCHANGED vars
  <2>1. UNCHANGED <<account, token, session, state, stage, ctx, faults, workload,
                    request, runner>>
    BY <1>1 DEF vars
  <2>2. TypeInv' /\ OtherInv' /\ UniqueInv' /\ RowInv' /\ RunnerInv'
    BY <2>1 DEF BaseInv, TypeInv, OtherInv, UniqueInv, RowInv, RunnerInv,
                CompletedMeansGone, Filed, Live
  <2>3. RequestInv'
    BY <2>1, StillFits, AccountKept DEF BaseInv
  <2>. QED
    BY <2>2, <2>3 DEF BaseInv
<1>2. ASSUME NEW r \in Requests, RequestSteps(r), UNCHANGED <<request, runner>>
      PROVE  BaseInv'
  BY <1>2, ArrivalsKeep, OAuthReadsKeep, CreateUserKeeps, RenameWriteKeeps,
     InvalidateKeeps, InsertTokenKeeps, MarkEmailVerifiedKeeps, MarkUsedKeeps,
     UpdatePasswordKeeps, RevokeAllForUserKeeps, RefreshRevokeKeeps, GrantKeeps,
     LinkOAuthKeeps, CreateOAuthUserKeeps, AbortKeeps, Zenon DEF RequestSteps
<1>3. ASSUME OtherSteps, UNCHANGED <<request, runner>> PROVE BaseInv'
  BY <1>3, SetVerifiedKeeps, TokenExpiresKeeps, StatesKeep, Zenon DEF OtherSteps
<1>4. ASSUME NEW r \in Requests, NEW u \in Users,
             \/ RequestFind(r, u)
             \/ \E d \in Deletions : CancelFind(r, u, d)
             \/ ForceFind(r, u)
      PROVE  BaseInv'
  <2>1. UNCHANGED <<request, runner>>
    BY <1>4 DEF RequestFind, CancelFind, ForceFind
  <2>. QED
    BY <1>4, <2>1, ArrivalsKeep, Zenon
<1>5. ASSUME NEW r \in Requests, RequestCreate(r) \/ CancelWrite(r) \/ ForceDelete(r)
      PROVE  BaseInv'
  BY <1>5, RequestCreateKeeps, CancelWriteKeeps, ForceDeleteKeeps
<1>6. ASSUME NEW w \in Runners, RunnerStep(w) \/ PurgeSkip(w) PROVE BaseInv'
  BY <1>6, StartRunKeeps, PurgeDeleteKeeps, PurgeCompleteKeeps, PurgeSkipKeeps
     DEF RunnerStep
<1>. QED
  BY <1>1, <1>2, <1>3, <1>4, <1>5, <1>6, BecomeDueKeeps, RestartKeeps, Zenon DEF Next

-----------------------------------------------------------------------------
(* Who writes what.                                                        *)

LEMMA AccountWrites ==
  ASSUME Next
  PROVE  \/ UNCHANGED account
         \/ \E r \in Requests :
              \/ CreateUser(r) \/ RenameWrite(r) \/ MarkEmailVerified(r)
              \/ UpdatePassword(r) \/ LinkOAuth(r) \/ CreateOAuthUser(r)
              \/ ForceDelete(r)
         \/ \E S \in SUBSET Requests : Stopped(S)
         \/ \E u \in Users, flag \in BOOLEAN : SetVerified(u, flag)
         \/ \E w \in Runners : PurgeDelete(w)
BY DEF Next, RequestSteps, OtherSteps, RunnerStep, RegisterFind, RenameFind, Invalidate,
       InsertToken, VerifyFind, ResetFind, MarkUsed, ForgotFind, LoginRead,
       RevokeAllForUser, RefreshFind, RefreshRevoke, Grant, OAuthCallback, FindIdentity,
       FindEmail, Abort, TokenExpires, OAuthBegin, StateLapses, CleanStates, RequestFind,
       CancelFind, ForceFind, RequestCreate, CancelWrite, BecomeDue, StartRun,
       PurgeComplete, PurgeSkip, Restart

LEMMA TokenWrites ==
  ASSUME Next
  PROVE  \/ UNCHANGED token
         \/ \E r \in Requests : \/ Invalidate(r) \/ InsertToken(r) \/ MarkUsed(r)
                                \/ ForceDelete(r)
         \/ \E k \in Tokens : TokenExpires(k)
         \/ \E w \in Runners : PurgeDelete(w)
BY DEF Next, RequestSteps, OtherSteps, RunnerStep, RegisterFind, RenameFind, CreateUser,
       RenameWrite, VerifyFind, ResetFind, MarkEmailVerified, ForgotFind, LoginRead,
       UpdatePassword, RevokeAllForUser, RefreshFind, RefreshRevoke, Grant,
       OAuthCallback, FindIdentity, FindEmail, LinkOAuth, CreateOAuthUser, Abort,
       SetVerified, OAuthBegin, StateLapses, CleanStates, RequestFind, CancelFind,
       ForceFind, RequestCreate, CancelWrite, BecomeDue, StartRun, PurgeComplete,
       PurgeSkip, Restart

LEMMA SessionWrites ==
  ASSUME Next
  PROVE  \/ UNCHANGED session
         \/ \E r \in Requests : \/ RevokeAllForUser(r) \/ RefreshRevoke(r) \/ Grant(r)
                                \/ ForceDelete(r)
         \/ \E w \in Runners : PurgeDelete(w)
BY DEF Next, RequestSteps, OtherSteps, RunnerStep, RegisterFind, RenameFind, CreateUser,
       RenameWrite, Invalidate, InsertToken, VerifyFind, ResetFind, MarkEmailVerified,
       MarkUsed, ForgotFind, LoginRead, UpdatePassword, RefreshFind, OAuthCallback,
       FindIdentity, FindEmail, LinkOAuth, CreateOAuthUser, Abort, SetVerified,
       TokenExpires, OAuthBegin, StateLapses, CleanStates, RequestFind, CancelFind,
       ForceFind, RequestCreate, CancelWrite, BecomeDue, StartRun, PurgeComplete,
       PurgeSkip, Restart

LEMMA RequestWrites ==
  ASSUME Next
  PROVE  \/ UNCHANGED request
         \/ \E r \in Requests : RequestCreate(r) \/ CancelWrite(r)
         \/ \E d \in Deletions : BecomeDue(d)
         \/ \E w \in Runners : PurgeComplete(w)
BY DEF Next, RunnerStep, RequestFind, CancelFind, ForceFind, ForceDelete, StartRun,
       PurgeDelete, PurgeSkip, Restart

\* Where request r goes, and by which step if it matters.
Leads(r, s, c) ==
  /\ GotoWith(r, s, c)
  /\ s = "insert" => Invalidate(r)
  /\ s = "findEmail" => FindIdentity(r)
  /\ s \in {"link", "createOAuth"} => FindEmail(r)
  /\ s = "createRequest" => \E u \in Users : RequestFind(r, u)
  /\ s = "forceDelete" => \E u \in Users : ForceFind(r, u) /\ c.user = u
  /\ At(r, "markUsed") => MarkUsed(r) \/ Abort(r)
  /\ At(r, "revokeAll") => RevokeAllForUser(r) \/ Abort(r)

LEMMA StageWrites ==
  ASSUME BaseInv, Next
  PROVE  \/ UNCHANGED <<stage, ctx>>
         \/ Restart
         \/ \E r \in Requests : \E s, c : Leads(r, s, c)
<1>. USE MovesIs DEF BaseInv, Leads
<1>1. ASSUME NEW r \in Requests,
             \/ \E e \in Emails : RegisterFind(r, e)
             \/ \E u \in Users, e \in Emails : RenameFind(r, u, e)
             \/ \E k \in Tokens : VerifyFind(r, k) \/ ResetFind(r, k)
             \/ \E u \in Users : ForgotFind(r, u) \/ LoginRead(r, u)
             \/ \E s \in Sessions : RefreshFind(r, s)
             \/ \E u \in Users : RequestFind(r, u) \/ ForceFind(r, u)
             \/ \E u \in Users, d \in Deletions : CancelFind(r, u, d)
             \/ \E x \in States, p \in Identities, e \in Emails :
                  OAuthCallback(r, x, p, e)
      PROVE  \E s, c : Leads(r, s, c)
  <2>1. \/ \E op, s, c : /\ Arrive(r, op, c, s)
                         /\ s \in {"create", "rename", "verify", "password",
                                   "invalidate", "grant", "rotate", "cancel",
                                   "findIdentity"}
        \/ \E op, c : /\ Arrive(r, op, c, "createRequest")
                      /\ \E u \in Users : RequestFind(r, u)
        \/ \E u \in Users :
             /\ Arrive(r, "force", [Blank EXCEPT !.user = u], "forceDelete")
             /\ ForceFind(r, u)
    BY <1>1, Zenon DEF RegisterFind, RenameFind, VerifyFind, ResetFind, ForgotFind,
       LoginRead, RefreshFind, RequestFind, ForceFind, CancelFind, OAuthCallback
  <2>2. \A op, c, s : Arrive(r, op, c, s) => ~At(r, "markUsed") /\ ~At(r, "revokeAll")
    BY DEF Arrive, At
  <2>3. ASSUME NEW u \in Users, ForceFind(r, u),
               Arrive(r, "force", [Blank EXCEPT !.user = u], "forceDelete")
        PROVE  \E s, c : Leads(r, s, c)
    <3>. DEFINE c == [Blank EXCEPT !.user = u]
    <3>1. c.user = u
      BY DEF Blank
    <3>2. Arrive(r, "force", c, "forceDelete")
      BY <2>3
    <3>. HIDE DEF c
    <3>3. Leads(r, "forceDelete", c)
      BY <2>2, <2>3, <3>1, <3>2
    <3>. QED
      BY <3>3
  <2>4. ASSUME NEW op, NEW s, NEW c, Arrive(r, op, c, s),
               \/ s \in {"create", "rename", "verify", "password", "invalidate",
                        "grant", "rotate", "cancel", "findIdentity"}
               \/ s = "createRequest" /\ \E u \in Users : RequestFind(r, u)
        PROVE  Leads(r, s, c)
    BY <2>2, <2>4
  <2>. QED
    BY <2>1, <2>3, <2>4
<1>2. ASSUME NEW r \in Requests,
             \/ CreateUser(r) \/ RenameWrite(r) \/ InsertToken(r)
             \/ MarkEmailVerified(r) \/ MarkUsed(r) \/ UpdatePassword(r)
             \/ RevokeAllForUser(r) \/ RefreshRevoke(r) \/ Grant(r)
             \/ LinkOAuth(r) \/ CreateOAuthUser(r) \/ Abort(r)
             \/ RequestCreate(r) \/ CancelWrite(r) \/ ForceDelete(r)
      PROVE  \E s, c : Leads(r, s, c)
  <2>1. \E s \in {"idle", "invalidate", "markUsed", "revokeAll", "grant"} :
          /\ Goto(r, s) \/ \E c : GotoWith(r, s, c)
          /\ At(r, "markUsed") => MarkUsed(r) \/ Abort(r)
          /\ At(r, "revokeAll") => RevokeAllForUser(r) \/ Abort(r)
    BY <1>2 DEF At, CreateUser, RenameWrite, InsertToken, MarkEmailVerified, MarkUsed,
       UpdatePassword, RevokeAllForUser, RefreshRevoke, Grant, LinkOAuth,
       CreateOAuthUser, Abort, RequestCreate, CancelWrite, ForceDelete, Finish
  <2>. QED
    BY <2>1
<1>3. ASSUME NEW r \in Requests, Invalidate(r) PROVE \E s, c : Leads(r, s, c)
  BY <1>3 DEF Invalidate, At
<1>4. ASSUME NEW r \in Requests, FindIdentity(r) PROVE \E s, c : Leads(r, s, c)
  <2>1. \E s \in {"findEmail", "grant"} : \E c : GotoWith(r, s, c)
    BY <1>4 DEF FindIdentity
  <2>2. ~At(r, "markUsed") /\ ~At(r, "revokeAll")
    BY <1>4 DEF FindIdentity, At
  <2>. QED
    BY <1>4, <2>1, <2>2
<1>5. ASSUME NEW r \in Requests, FindEmail(r) PROVE \E s, c : Leads(r, s, c)
  <2>1. \E s \in {"link", "createOAuth"} : \E c : GotoWith(r, s, c)
    BY <1>5 DEF FindEmail
  <2>2. ~At(r, "markUsed") /\ ~At(r, "revokeAll")
    BY <1>5 DEF FindEmail, At
  <2>. QED
    BY <1>5, <2>1, <2>2
<1>6. ASSUME OtherSteps PROVE UNCHANGED <<stage, ctx>>
  BY <1>6 DEF OtherSteps, SetVerified, TokenExpires, OAuthBegin, StateLapses,
     CleanStates
<1>7. ASSUME NEW w \in Runners, RunnerStep(w) \/ PurgeSkip(w)
      PROVE  UNCHANGED <<stage, ctx>>
  BY <1>7 DEF RunnerStep, StartRun, PurgeDelete, PurgeComplete, PurgeSkip
<1>8. ASSUME NEW d \in Deletions, BecomeDue(d) PROVE UNCHANGED <<stage, ctx>>
  BY <1>8 DEF BecomeDue
<1>9. ASSUME NEW r \in Requests, RequestSteps(r) PROVE \E s, c : Leads(r, s, c)
  BY <1>1, <1>2, <1>3, <1>4, <1>5, <1>9, Zenon DEF RequestSteps
<1>. QED
  BY <1>1, <1>2, <1>6, <1>7, <1>8, <1>9, Zenon DEF Next

\* What a step does to the accounts that matter to what follows.
LEMMA AccountEffects ==
  ASSUME BaseInv, Next, NEW u \in Users
  PROVE  /\ Live(u)' => Live(u) \/ account[u].status = "absent"
         /\ Live(u) =>
              /\ account[u].halfReset => account'[u].halfReset
              /\ \/ account'[u].resets = account[u].resets
                 \/ \E r \in Requests : UpdatePassword(r) /\ ctx[r].user = u
         /\ \A p \in Identities :
              Live(u)' /\ account'[u].identity = p =>
                \/ Live(u) /\ account[u].identity = p
                \/ \E r \in Requests : LinkOAuth(r) \/ CreateOAuthUser(r)
<1>. USE DEF Live
<1>1. account \in [Users -> AccountRows] /\ account[u] \in AccountRows
  BY DEF BaseInv, TypeInv
<1>2. CASE UNCHANGED account
  BY <1>2
<1>3. ASSUME NEW r \in Requests, CreateUser(r) \/ CreateOAuthUser(r)
      PROVE  \/ account'[u] = account[u]
             \/ /\ account[u].status = "absent"
                /\ CreateUser(r) => account'[u].identity = None
  <2>1. /\ Unborn # {} => NextUser \in Users /\ account[NextUser].status = "absent"
        /\ ctx[r] \in Locals
    BY InFlight DEF NextUser, Unborn, BaseInv
  <2>2. CASE CreateUser(r)
    <3>1. \/ UNCHANGED account
          \/ /\ Unborn # {}
             /\ account' = [account EXCEPT ![NextUser] =
                              [NoAccount EXCEPT !.status = "live",
                                                !.email = ctx[r].email]]
      BY <2>2 DEF CreateUser
    <3>2. [NoAccount EXCEPT !.status = "live", !.email = ctx[r].email].identity = None
      BY <2>1 DEF NoAccount, Locals
    <3>. QED
      BY <1>1, <2>1, <3>1, <3>2
  <2>3. CASE CreateOAuthUser(r) /\ ~CreateUser(r)
    <3>1. \/ UNCHANGED account
          \/ Unborn # {} /\ \E a : account' = [account EXCEPT ![NextUser] = a]
      BY <2>3 DEF CreateOAuthUser
    <3>. QED
      BY <1>1, <2>1, <2>3, <3>1
  <2>. QED
    BY <1>3, <2>2, <2>3
<1>4. ASSUME NEW r \in Requests, LinkOAuth(r)
      PROVE  /\ account'[u].status = account[u].status
             /\ account'[u].resets = account[u].resets
             /\ account'[u].halfReset = account[u].halfReset
  <2>1. \/ UNCHANGED account
        \/ account' = [account EXCEPT ![ctx[r].user].identity = ctx[r].identity]
    BY <1>4 DEF LinkOAuth
  <2>. QED
    BY <1>1, <2>1 DEF AccountRows
<1>5. ASSUME NEW r \in Requests, UpdatePassword(r)
      PROVE  /\ account'[u].status = account[u].status
             /\ account'[u].identity = account[u].identity
             /\ account'[u].halfReset = account[u].halfReset
             /\ ctx[r].user # u => account'[u].resets = account[u].resets
  <2>1. \E n : account' = [account EXCEPT ![ctx[r].user].resets = n]
    BY <1>5 DEF UpdatePassword
  <2>. QED
    BY <1>1, <2>1 DEF AccountRows
<1>6. ASSUME \/ \E r \in Requests : RenameWrite(r) \/ MarkEmailVerified(r)
             \/ \E v \in Users, flag \in BOOLEAN : SetVerified(v, flag)
      PROVE  /\ account'[u].status = account[u].status
             /\ account'[u].identity = account[u].identity
             /\ account'[u].resets = account[u].resets
             /\ account'[u].halfReset = account[u].halfReset
  <2>1. \/ UNCHANGED account
        \/ \E v, e : account' = [account EXCEPT ![v].email = e]
        \/ \E v, b : account' = [account EXCEPT ![v].verified = b]
    BY <1>6 DEF RenameWrite, MarkEmailVerified, SetVerified
  <2>. QED
    BY <1>1, <2>1 DEF AccountRows
<1>7. ASSUME NEW S, Stopped(S)
      PROVE  /\ account'[u].status = account[u].status
             /\ account'[u].identity = account[u].identity
             /\ account'[u].resets = account[u].resets
             /\ account[u].halfReset => account'[u].halfReset
  <2>. DEFINE b == account[u].halfReset \/ \E r \in S :
                     /\ ctx[r].user = u
                     /\ \/ At(r, "revokeAll")
                        \/ At(r, "markUsed") /\ ctx[r].type = "password_reset"
  <2>1. account'[u] = [account[u] EXCEPT !.halfReset = b]
    BY <1>7 DEF Stopped
  <2>2. account[u].halfReset => b
    OBVIOUS
  <2>. HIDE DEF b
  <2>. QED
    BY <1>1, <2>1, <2>2 DEF AccountRows
<1>8. ASSUME \/ \E r \in Requests : ForceDelete(r)
             \/ \E w \in Runners : PurgeDelete(w)
      PROVE  /\ account'[u].status = "live" => account[u].status = "live"
             /\ account'[u].identity = account[u].identity
             /\ account'[u].resets = account[u].resets
             /\ account'[u].halfReset = account[u].halfReset
  <2>1. \E v \in Users : DeleteUser(v)
    <3>1. \A r \in Requests : ForceDelete(r) => ctx[r].user \in Users
      BY InFlight DEF BaseInv, ForceDelete, At, Fits, UserStages
    <3>2. \A w \in Runners : PurgeDelete(w) => request[runner[w].row].user \in Users
      BY DEF BaseInv, RunnerInv, RowInv, Filed, PurgeDelete
    <3>. QED
      BY <1>8, <3>1, <3>2 DEF ForceDelete, PurgeDelete
  <2>. QED
    BY <2>1, DeletedAccounts
<1>9. \A p \in Identities : p # None
  BY NoneIsNothing
<1>10. CASE \E r \in Requests : CreateUser(r) \/ CreateOAuthUser(r)
  BY <1>3, <1>9, <1>10
<1>. QED
  BY <1>2, <1>4, <1>5, <1>6, <1>7, <1>8, <1>10, AccountWrites

LEMMA TokenEffects ==
  ASSUME BaseInv, Next, NEW k \in Tokens
  PROVE  \/ token'[k] = token[k]
         \/ token'[k].status \in {"used", "expired", "deleted"}
         \/ \E r \in Requests : InsertToken(r) /\ token[k].status = "absent"
<1>1. token \in [Tokens -> TokenRows] /\ token[k] \in TokenRows
  BY DEF BaseInv, TypeInv
<1>2. ASSUME NEW r \in Requests, Invalidate(r)
      PROVE  token'[k] = token[k] \/ token'[k].status = "used"
  <2>1. token'[k] = token[k] \/ token'[k] = [token[k] EXCEPT !.status = "used"]
    BY <1>2 DEF Invalidate
  <2>. QED
    BY <1>1, <2>1 DEF TokenRows
<1>3. ASSUME NEW r \in Requests, MarkUsed(r)
      PROVE  token'[k] = token[k] \/ token'[k].status \in {"used", "deleted"}
  BY <1>3, MarkedToken
<1>4. ASSUME NEW r \in Requests, InsertToken(r)
      PROVE  token'[k] = token[k] \/ token[k].status = "absent"
  <2>1. \/ UNCHANGED token
        \/ FreshTokens # {} /\ \E n : token' =
             [token EXCEPT ![CHOOSE x \in FreshTokens : TRUE] = n]
    BY <1>4 DEF InsertToken
  <2>. QED
    BY <1>1, <2>1 DEF FreshTokens
<1>5. ASSUME NEW x \in Tokens, TokenExpires(x)
      PROVE  token'[k] = token[k] \/ token'[k].status = "expired"
  <2>1. token'[k] = token[k] \/ token'[k] = [token[k] EXCEPT !.status = "expired"]
    BY <1>1, <1>5 DEF TokenExpires
  <2>. QED
    BY <1>1, <2>1 DEF TokenRows
<1>6. ASSUME \/ \E r \in Requests : ForceDelete(r)
             \/ \E w \in Runners : PurgeDelete(w)
      PROVE  token'[k] = token[k] \/ token'[k].status = "deleted"
  <2>1. \E v \in Users : DeleteUser(v)
    <3>1. \A r \in Requests : ForceDelete(r) => ctx[r].user \in Users
      BY InFlight DEF BaseInv, ForceDelete, At, Fits, UserStages
    <3>2. \A w \in Runners : PurgeDelete(w) => request[runner[w].row].user \in Users
      BY DEF BaseInv, RunnerInv, RowInv, Filed, PurgeDelete
    <3>. QED
      BY <1>6, <3>1, <3>2 DEF ForceDelete, PurgeDelete
  <2>. QED
    BY <2>1, DeletedTokens
<1>. QED
  BY <1>2, <1>3, <1>4, <1>5, <1>6, TokenWrites

LEMMA Moved ==
  ASSUME RequestInv, NEW r \in Requests, NEW s, NEW c, GotoWith(r, s, c)
  PROVE  /\ stage'[r] = s /\ ctx'[r] = c
         /\ \A x \in Requests : x # r => stage'[x] = stage[x] /\ ctx'[x] = ctx[x]
BY DEF RequestInv, GotoWith

\* Each request is where it was, is done, or is the one that moved.
LEMMA StageEffects ==
  ASSUME BaseInv, Next, NEW x \in Requests
  PROVE  \/ stage'[x] = stage[x] /\ ctx'[x] = ctx[x]
         \/ stage'[x] = "idle"
         \/ /\ stage'[x] = "insert" => Invalidate(x)
            /\ stage'[x] = "findEmail" => FindIdentity(x)
            /\ stage'[x] \in {"link", "createOAuth"} => FindEmail(x)
            /\ stage'[x] = "createRequest" => \E u \in Users : RequestFind(x, u)
            /\ stage'[x] = "forceDelete" =>
                 \E u \in Users : ForceFind(x, u) /\ ctx'[x].user = u
<1>1. CASE Restart
  BY <1>1 DEF Restart
<1>2. CASE \E r \in Requests : \E s, c : Leads(r, s, c)
  <2>1. PICK r \in Requests : \E s, c : Leads(r, s, c)
    BY <1>2
  <2>2. PICK s, c : Leads(r, s, c)
    BY <2>1
  <2>3. CASE x = r
    BY <2>2, <2>3, Moved DEF Leads, BaseInv
  <2>4. CASE x # r
    BY <2>2, <2>4, Moved DEF Leads, BaseInv
  <2>. QED
    BY <2>3, <2>4
<1>. QED
  BY <1>1, <1>2, StageWrites

-----------------------------------------------------------------------------
(* The counts.                                                             *)

\* While r takes a step of its own, the others stay where they are.
LEMMA OthersStay ==
  ASSUME BaseInv, NEW r \in Requests, NEW s, NEW c,
         Goto(r, s) \/ GotoWith(r, s, c) \/ Finish(r)
  PROVE  \A x \in Requests : x # r => stage'[x] = stage[x] /\ ctx'[x] = ctx[x]
BY MovesIs, Moved DEF Finish, BaseInv

LEMMA TokenCountsKept ==
  ASSUME BaseInv, TokenCounts, Next, NEW u \in Users, NEW t \in Types
  PROVE  Bounded(InForce(u, t)', Inserting(u, t)')
<1>1. Bounded(InForce(u, t), Inserting(u, t)) /\ Inserting(u, t) \in SUBSET Requests
  BY DEF TokenCounts, Inserting
<1>2. CASE \E r \in Requests : Invalidate(r)
  <2>1. PICK r \in Requests : Invalidate(r)
    BY <1>2
  <2>2. Goto(r, "insert")
    BY <2>1 DEF Invalidate
  <2>3. \A x \in Requests : ctx'[x] = ctx[x]
    BY <2>2 DEF Goto
  <2>4. \A x \in Requests : x # r => stage'[x] = stage[x]
    BY <2>2, OthersStay
  <2>5. CASE ctx[r].user = u /\ ctx[r].type = t
    <3>1. ASSUME NEW k \in Tokens, token'[k].status = "unused"
          PROVE  ~(token'[k].type = t /\ token'[k].user = u)
      BY <2>1, <2>5, <3>1 DEF Invalidate, Outstanding, BaseInv, TypeInv, TokenRows
    <3>2. InForce(u, t)' = {}
      BY <3>1 DEF InForce, Valid
    <3>3. Inserting(u, t)' \in SUBSET Requests
      BY DEF Inserting
    <3>. QED
      BY <3>2, <3>3, BoundedAtFirst
  <2>6. CASE ~(ctx[r].user = u /\ ctx[r].type = t)
    <3>1. Inserting(u, t)' \in SUBSET Inserting(u, t)
      BY <2>3, <2>4, <2>6 DEF Inserting, At
    <3>2. \A k \in Tokens : token'[k].status = "unused" => token'[k] = token[k]
      <4>1. \A x \in Requests : InsertToken(x) => UNCHANGED token
        BY <2>1 DEF Invalidate, InsertToken, At, Finish, Goto, GotoWith, BaseInv,
                    RequestInv
      <4>. QED
        BY <2>1, TokenEffects, <4>1
    <3>3. InForce(u, t)' \in SUBSET InForce(u, t)
      BY <3>2 DEF InForce, Valid
    <3>. QED
      BY <1>1, <3>1, <3>3, BoundedShrinks
  <2>. QED
    BY <2>5, <2>6
<1>3. CASE \E r \in Requests : InsertToken(r)
  <2>1. PICK r \in Requests : InsertToken(r)
    BY <1>3
  <2>2. Finish(r) /\ At(r, "insert")
    BY <2>1 DEF InsertToken
  <2>3. /\ \A x \in Requests : x # r => stage'[x] = stage[x] /\ ctx'[x] = ctx[x]
        /\ stage'[r] = "idle"
    BY <2>2, OthersStay, Moved DEF Finish, BaseInv
  <2>4. Inserting(u, t)' \in SUBSET (Inserting(u, t) \ {r})
    BY <2>3 DEF Inserting, At
  <2>5. CASE UNCHANGED token
    <3>1. InForce(u, t)' = InForce(u, t)
      BY <2>5 DEF InForce, Valid
    <3>. QED
      BY <1>1, <2>4, <3>1, BoundedShrinks
  <2>6. CASE ~UNCHANGED token
    <3>. DEFINE n == [status |-> "unused", user |-> ctx[r].user, type |-> ctx[r].type]
    <3>1. PICK k \in Tokens : token' = [token EXCEPT ![k] = n]
      BY <2>1, <2>6 DEF InsertToken, FreshTokens
    <3>2. n.user = ctx[r].user /\ n.type = ctx[r].type
      OBVIOUS
    <3>. HIDE DEF n
    <3>3. token'[k] = n /\ \A x \in Tokens : x # k => token'[x] = token[x]
      BY <3>1 DEF BaseInv, TypeInv
    <3>4. CASE ctx[r].user = u /\ ctx[r].type = t
      <4>1. InForce(u, t)' \in SUBSET (InForce(u, t) \cup {k})
        BY <3>3 DEF InForce, Valid
      <4>2. r \in Inserting(u, t)
        BY <2>2, <3>4 DEF Inserting
      <4>. QED
        BY <1>1, <2>4, <4>1, <4>2, BoundedMoves
    <3>5. CASE ~(ctx[r].user = u /\ ctx[r].type = t)
      <4>1. InForce(u, t)' \in SUBSET InForce(u, t)
        BY <3>2, <3>3, <3>5 DEF InForce, Valid
      <4>. QED
        BY <1>1, <2>4, <4>1, BoundedShrinks
    <3>. QED
      BY <3>4, <3>5
  <2>. QED
    BY <2>5, <2>6
<1>4. CASE ~ \E r \in Requests : Invalidate(r) \/ InsertToken(r)
  <2>1. Inserting(u, t)' \in SUBSET Inserting(u, t)
    BY <1>4, StageEffects DEF Inserting, At
  <2>2. \A k \in Tokens : token'[k].status = "unused" => token'[k] = token[k]
    BY <1>4, TokenEffects
  <2>3. InForce(u, t)' \in SUBSET InForce(u, t)
    BY <2>2 DEF InForce, Valid
  <2>. QED
    BY <1>1, <2>1, <2>3, BoundedShrinks
<1>. QED
  BY <1>2, <1>3, <1>4

\* Linking or creating gives the identity at hand to one account.
LEMMA IdentityGiven ==
  ASSUME BaseInv, NEW r \in Requests, LinkOAuth(r) \/ CreateOAuthUser(r)
  PROVE  /\ stage[r] \in {"link", "createOAuth"}
         /\ stage'[r] \in {"grant", "idle"}
         /\ \A x \in Requests : x # r => stage'[x] = stage[x] /\ ctx'[x] = ctx[x]
         /\ \/ UNCHANGED account
            \/ \E u \in Users :
                 /\ account'[u].identity = ctx[r].identity
                 /\ \A v \in Users : v # u => account'[v] = account[v]
<1>1. account \in [Users -> AccountRows] /\ ctx[r] \in Locals
  BY InFlight DEF BaseInv, TypeInv
<1>2. /\ stage[r] \in {"link", "createOAuth"}
      /\ \E s \in {"grant", "idle"} : \E c : GotoWith(r, s, c)
  BY DEF LinkOAuth, CreateOAuthUser, Finish, At
<1>3. /\ stage'[r] \in {"grant", "idle"}
      /\ \A x \in Requests : x # r => stage'[x] = stage[x] /\ ctx'[x] = ctx[x]
  BY <1>2, Moved DEF BaseInv
<1>4. CASE LinkOAuth(r)
  <2>1. \/ UNCHANGED account
        \/ account' = [account EXCEPT ![ctx[r].user].identity = ctx[r].identity]
    BY <1>4 DEF LinkOAuth
  <2>2. ctx[r].user \in Users
    BY <1>4, InFlight DEF BaseInv, LinkOAuth, At, Fits, UserStages
  <2>3. account[ctx[r].user] \in AccountRows
    BY <1>1, <2>2
  <2>4. [account[ctx[r].user] EXCEPT !.identity = ctx[r].identity].identity
          = ctx[r].identity
    BY <1>1, <2>3 DEF AccountRows, Locals
  <2>. QED
    BY <1>1, <1>2, <1>3, <2>1, <2>2, <2>4
<1>5. CASE CreateOAuthUser(r)
  <2>. DEFINE a == [NoAccount EXCEPT !.status = "live", !.verified = TRUE,
                                     !.email = ctx[r].email,
                                     !.identity = ctx[r].identity]
  <2>1. \/ UNCHANGED account
        \/ Unborn # {} /\ account' = [account EXCEPT ![NextUser] = a]
    BY <1>5 DEF CreateOAuthUser
  <2>2. a.identity = ctx[r].identity
    BY <1>1 DEF NoAccount, Locals
  <2>3. Unborn # {} => NextUser \in Users
    BY DEF NextUser, Unborn
  <2>. HIDE DEF a
  <2>. QED
    BY <1>1, <1>2, <1>3, <2>1, <2>2, <2>3
<1>. QED
  BY <1>4, <1>5

LEMMA IdentityCountsKept ==
  ASSUME BaseInv, IdentityCounts, Next, NEW p \in Identities
  PROVE  Bounded(Holders(p)', Undecided(p)')
<1>1. Bounded(Holders(p), Undecided(p)) /\ Undecided(p) \in SUBSET Requests
  BY DEF IdentityCounts, Undecided
<1>2. CASE \E r \in Requests : LinkOAuth(r) \/ CreateOAuthUser(r)
  <2>1. PICK r \in Requests : LinkOAuth(r) \/ CreateOAuthUser(r)
    BY <1>2
  <2>2. Undecided(p)' \in SUBSET (Undecided(p) \ {r})
    BY <2>1, IdentityGiven DEF Undecided
  <2>3. CASE UNCHANGED account
    <3>1. Holders(p)' = Holders(p)
      BY <2>3 DEF Holders, Live
    <3>. QED
      BY <1>1, <2>2, <3>1, BoundedShrinks
  <2>4. CASE ~UNCHANGED account
    <3>1. PICK u \in Users : /\ account'[u].identity = ctx[r].identity
                             /\ \A v \in Users : v # u => account'[v] = account[v]
      BY <2>1, <2>4, IdentityGiven
    <3>2. CASE ctx[r].identity = p
      <4>1. Holders(p)' \in SUBSET (Holders(p) \cup {u})
        BY <3>1 DEF Holders, Live
      <4>2. r \in Undecided(p)
        BY <2>1, <3>2, IdentityGiven DEF Undecided
      <4>. QED
        BY <1>1, <2>2, <4>1, <4>2, BoundedMoves
    <3>3. CASE ctx[r].identity # p
      <4>1. Holders(p)' \in SUBSET Holders(p)
        BY <3>1, <3>3 DEF Holders, Live
      <4>. QED
        BY <1>1, <2>2, <4>1, BoundedShrinks
    <3>. QED
      BY <3>2, <3>3
  <2>. QED
    BY <2>3, <2>4
<1>3. CASE \E r \in Requests : FindIdentity(r)
  <2>1. PICK r \in Requests : FindIdentity(r)
    BY <1>3
  <2>2. UNCHANGED account /\ At(r, "findIdentity")
    BY <2>1 DEF FindIdentity
  <2>3. Holders(p)' = Holders(p)
    BY <2>2 DEF Holders, Live
  <2>4. CASE Goto(r, "findEmail") /\ Holders(ctx[r].identity) = {}
    <3>1. CASE ctx[r].identity = p
      <4>1. Undecided(p)' \in SUBSET Requests
        BY DEF Undecided
      <4>. QED
        BY <2>3, <2>4, <3>1, <4>1, BoundedAtFirst
    <3>2. CASE ctx[r].identity # p
      <4>1. /\ ctx' = ctx
            /\ \A x \in Requests : x # r => stage'[x] = stage[x] /\ ctx'[x] = ctx[x]
        BY <2>4, OthersStay DEF Goto
      <4>2. Undecided(p)' \in SUBSET Undecided(p)
        BY <3>2, <4>1 DEF Undecided
      <4>. QED
        BY <1>1, <2>3, <4>2, BoundedShrinks
    <3>. QED
      BY <3>1, <3>2
  <2>5. CASE \E c : GotoWith(r, "grant", c)
    <3>1. /\ stage'[r] = "grant"
          /\ \A x \in Requests : x # r => stage'[x] = stage[x] /\ ctx'[x] = ctx[x]
      BY <2>5, Moved DEF BaseInv
    <3>2. Undecided(p)' \in SUBSET Undecided(p)
      BY <3>1 DEF Undecided
    <3>. QED
      BY <1>1, <2>3, <3>2, BoundedShrinks
  <2>. QED
    BY <2>1, <2>4, <2>5 DEF FindIdentity
<1>4. CASE \E r \in Requests : FindEmail(r)
  <2>1. PICK r \in Requests : FindEmail(r)
    BY <1>4
  <2>2. UNCHANGED account /\ At(r, "findEmail")
    BY <2>1 DEF FindEmail
  <2>3. Holders(p)' = Holders(p)
    BY <2>2 DEF Holders, Live
  <2>4. PICK s \in {"createOAuth", "link"} :
          \/ Goto(r, s)
          \/ \E u : GotoWith(r, s, [ctx[r] EXCEPT !.user = u])
    BY <2>1 DEF FindEmail
  <2>5. /\ ctx'[r].identity = ctx[r].identity
        /\ \A x \in Requests : x # r => stage'[x] = stage[x] /\ ctx'[x] = ctx[x]
    <3>1. ctx[r] \in Locals
      BY InFlight DEF BaseInv
    <3>2. CASE Goto(r, s)
      BY <3>2, OthersStay DEF Goto
    <3>3. CASE \E u : GotoWith(r, s, [ctx[r] EXCEPT !.user = u])
      <4>1. PICK u : GotoWith(r, s, [ctx[r] EXCEPT !.user = u])
        BY <3>3
      <4>. DEFINE c == [ctx[r] EXCEPT !.user = u]
      <4>2. GotoWith(r, s, c) /\ c.identity = ctx[r].identity
        BY <3>1, <4>1 DEF Locals
      <4>. HIDE DEF c
      <4>. QED
        BY <4>2, Moved DEF BaseInv
    <3>. QED
      BY <2>4, <3>2, <3>3
  <2>6. Undecided(p)' \in SUBSET Undecided(p)
    BY <2>2, <2>5 DEF Undecided, At
  <2>. QED
    BY <1>1, <2>3, <2>6, BoundedShrinks
<1>5. CASE ~ \E r \in Requests : \/ LinkOAuth(r) \/ CreateOAuthUser(r)
                                 \/ FindIdentity(r) \/ FindEmail(r)
  <2>1. Holders(p)' \in SUBSET Holders(p)
    BY <1>5, AccountEffects DEF Holders
  <2>2. Undecided(p)' \in SUBSET Undecided(p)
    BY <1>5, StageEffects DEF Undecided
  <2>. QED
    BY <1>1, <2>1, <2>2, BoundedShrinks
<1>. QED
  BY <1>2, <1>3, <1>4, <1>5

LEMMA RequestEffects ==
  ASSUME BaseInv, Next, NEW d \in Deletions
  PROVE  \/ request'[d] = request[d]
         \/ /\ request'[d].status \in {"cancelled", "completed"}
            /\ request'[d].user = request[d].user
         \/ /\ BecomeDue(d) /\ request[d].status = "pending"
            /\ request'[d].user = request[d].user
         \/ /\ \E r \in Requests : RequestCreate(r)
            /\ request[d].status = "absent" /\ ~request'[d].due
<1>1. request \in [Deletions -> RequestRows] /\ request[d] \in RequestRows
  BY DEF BaseInv, TypeInv
<1>2. ASSUME NEW r \in Requests, RequestCreate(r)
      PROVE  \/ request'[d] = request[d]
             \/ request[d].status = "absent" /\ ~request'[d].due
  <2>. DEFINE n == [status |-> "pending", user |-> ctx[r].user, due |-> FALSE]
  <2>1. \/ UNCHANGED request
        \/ Unfiled # {} /\ request' =
             [request EXCEPT ![CHOOSE x \in Unfiled : TRUE] = n]
    BY <1>2 DEF RequestCreate
  <2>2. ~n.due
    OBVIOUS
  <2>. HIDE DEF n
  <2>. QED
    BY <1>1, <2>1, <2>2 DEF Unfiled
<1>3. ASSUME \/ \E r \in Requests : CancelWrite(r)
             \/ \E w \in Runners : PurgeComplete(w)
      PROVE  \/ request'[d] = request[d]
             \/ /\ request'[d].status \in {"cancelled", "completed"}
                /\ request'[d].user = request[d].user
  <2>1. PICK s \in {"cancelled", "completed"} :
          \E x : Filed(x) /\ request' = [request EXCEPT ![x].status = s]
    <3>1. \A r \in Requests : CancelWrite(r) =>
            /\ Filed(ctx[r].row)
            /\ request' = [request EXCEPT ![ctx[r].row].status = "cancelled"]
      BY InFlight DEF BaseInv, CancelWrite, At, Fits
    <3>2. \A w \in Runners : PurgeComplete(w) =>
            /\ Filed(runner[w].row)
            /\ request' = [request EXCEPT ![runner[w].row].status = "completed"]
      BY DEF BaseInv, RunnerInv, PurgeComplete
    <3>. QED
      BY <1>3, <3>1, <3>2
  <2>. QED
    BY <2>1, RequestMarked
<1>4. ASSUME NEW x \in Deletions, BecomeDue(x)
      PROVE  \/ request'[d] = request[d]
             \/ /\ BecomeDue(d) /\ request[d].status = "pending"
                /\ request'[d].user = request[d].user
  <2>1. request' = [request EXCEPT ![x].due = TRUE] /\ request[x].status = "pending"
    BY <1>4 DEF BecomeDue
  <2>2. CASE x = d
    <3>1. request'[d] = [request[d] EXCEPT !.due = TRUE]
      BY <1>1, <2>1, <2>2
    <3>2. request'[d].user = request[d].user
      BY <1>1, <3>1 DEF RequestRows
    <3>. QED
      BY <1>4, <2>1, <2>2, <3>2
  <2>. QED
    BY <1>1, <2>1, <2>2
<1>. QED
  BY <1>2, <1>3, <1>4, RequestWrites

LEMMA PendingCountsKept ==
  ASSUME BaseInv, PendingCounts, Next, NEW u \in Users
  PROVE  Bounded(Pending(u)', Creating(u)')
<1>1. Bounded(Pending(u), Creating(u)) /\ Creating(u) \in SUBSET Requests
  BY DEF PendingCounts, Creating
<1>2. CASE \E r \in Requests, v \in Users : RequestFind(r, v)
  <2>1. PICK r \in Requests, v \in Users : RequestFind(r, v)
    BY <1>2
  <2>2. UNCHANGED <<account, request>> /\ Pending(v) = {}
    BY <2>1 DEF RequestFind
  <2>3. Pending(u)' = Pending(u)
    BY <2>2 DEF Pending, Live
  <2>4. CASE u = v
    <3>1. Creating(u)' \in SUBSET Requests
      BY DEF Creating
    <3>. QED
      BY <2>2, <2>3, <2>4, <3>1, BoundedAtFirst
  <2>5. CASE u # v
    <3>. DEFINE c == [Blank EXCEPT !.user = v]
    <3>1. GotoWith(r, "createRequest", c)
      BY <2>1, MovesIs DEF RequestFind, BaseInv
    <3>2. c.user = v
      BY DEF Blank
    <3>. HIDE DEF c
    <3>3. /\ ctx'[r].user = v
          /\ \A x \in Requests : x # r => stage'[x] = stage[x] /\ ctx'[x] = ctx[x]
      BY <3>1, <3>2, Moved DEF BaseInv
    <3>4. Creating(u)' \in SUBSET Creating(u)
      BY <2>5, <3>3 DEF Creating, At
    <3>. QED
      BY <1>1, <2>3, <3>4, BoundedShrinks
  <2>. QED
    BY <2>4, <2>5
<1>3. CASE \E r \in Requests : RequestCreate(r)
  <2>1. PICK r \in Requests : RequestCreate(r)
    BY <1>3
  <2>2. UNCHANGED account /\ Finish(r) /\ At(r, "createRequest")
    BY <2>1 DEF RequestCreate
  <2>3. /\ \A x \in Requests : x # r => stage'[x] = stage[x] /\ ctx'[x] = ctx[x]
        /\ stage'[r] = "idle"
    BY <2>2, OthersStay, Moved DEF Finish, BaseInv
  <2>4. Creating(u)' \in SUBSET (Creating(u) \ {r})
    BY <2>3 DEF Creating, At
  <2>5. CASE UNCHANGED request
    <3>1. Pending(u)' = Pending(u)
      BY <2>2, <2>5 DEF Pending, Live
    <3>. QED
      BY <1>1, <2>4, <3>1, BoundedShrinks
  <2>6. CASE ~UNCHANGED request
    <3>. DEFINE n == [status |-> "pending", user |-> ctx[r].user, due |-> FALSE]
    <3>1. PICK d \in Deletions : request' = [request EXCEPT ![d] = n]
      BY <2>1, <2>6 DEF RequestCreate, Unfiled
    <3>2. n.user = ctx[r].user
      OBVIOUS
    <3>. HIDE DEF n
    <3>3. request'[d] = n /\ \A x \in Deletions : x # d => request'[x] = request[x]
      BY <3>1 DEF BaseInv, TypeInv
    <3>4. CASE ctx[r].user = u
      <4>1. Pending(u)' \in SUBSET (Pending(u) \cup {d})
        BY <2>2, <3>3 DEF Pending, Live
      <4>2. r \in Creating(u)
        BY <2>2, <3>4 DEF Creating
      <4>. QED
        BY <1>1, <2>4, <4>1, <4>2, BoundedMoves
    <3>5. CASE ctx[r].user # u
      <4>1. Pending(u)' \in SUBSET Pending(u)
        BY <2>2, <3>2, <3>3, <3>5 DEF Pending, Live
      <4>. QED
        BY <1>1, <2>4, <4>1, BoundedShrinks
    <3>. QED
      BY <3>4, <3>5
  <2>. QED
    BY <2>5, <2>6
<1>4. CASE /\ ~ \E r \in Requests, v \in Users : RequestFind(r, v)
           /\ ~ \E r \in Requests : RequestCreate(r)
  <2>1. Creating(u)' \in SUBSET Creating(u)
    BY <1>4, StageEffects DEF Creating, At
  <2>2. ASSUME NEW d \in Deletions, request'[d].status = "pending",
               request'[d].user = u
        PROVE  request[d].status = "pending" /\ request[d].user = u
    BY <1>4, <2>2, RequestEffects
  <2>3. \A d \in Deletions : request[d].status = "pending" =>
          account[request[d].user].status # "absent"
    BY DEF BaseInv, RowInv
  <2>4. Live(u)' => Live(u) \/ account[u].status = "absent"
    BY AccountEffects
  <2>5. Pending(u)' \in SUBSET Pending(u)
    BY <2>2, <2>3, <2>4 DEF Pending
  <2>. QED
    BY <1>1, <2>1, <2>5, BoundedShrinks
<1>. QED
  BY <1>2, <1>3, <1>4

LEMMA CountsKept == BaseInv /\ CountInv /\ [Next]_vars => CountInv'
<1>. SUFFICES ASSUME BaseInv, CountInv, [Next]_vars PROVE CountInv'
  OBVIOUS
<1>1. CASE UNCHANGED vars
  <2>1. \A u \in Users, t \in Types :
          InForce(u, t)' = InForce(u, t) /\ Inserting(u, t)' = Inserting(u, t)
    BY <1>1 DEF vars, InForce, Valid, Inserting, At
  <2>2. \A p \in Identities :
          Holders(p)' = Holders(p) /\ Undecided(p)' = Undecided(p)
    BY <1>1 DEF vars, Holders, Undecided, Live
  <2>3. \A u \in Users : Pending(u)' = Pending(u) /\ Creating(u)' = Creating(u)
    BY <1>1 DEF vars, Pending, Creating, Live, At
  <2>. QED
    BY <2>1, <2>2, <2>3
       DEF CountInv, TokenCounts, IdentityCounts, PendingCounts, Bounded
<1>2. CASE Next
  BY <1>2, TokenCountsKept, IdentityCountsKept, PendingCountsKept
     DEF CountInv, TokenCounts, IdentityCounts, PendingCounts
<1>. QED
  BY <1>1, <1>2

-----------------------------------------------------------------------------
(* What a reset promises.                                                  *)

\* An active session was active before, or has just been granted.
LEMMA SessionEffects ==
  ASSUME BaseInv, Next, NEW s \in Sessions, session'[s].status = "active"
  PROVE  \/ session'[s] = session[s]
         \/ /\ UNCHANGED account
            /\ session'[s].late =
                 (session'[s].resets < account[session'[s].user].resets)
<1>1. session \in [Sessions -> SessionRows] /\ session[s] \in SessionRows
  BY DEF BaseInv, TypeInv
<1>2. ASSUME NEW r \in Requests, RevokeAllForUser(r)
      PROVE  session'[s] = session[s] \/ session'[s].status = "revoked"
  <2>1. \/ session'[s] = session[s]
        \/ session'[s] = [session[s] EXCEPT !.status = "revoked"]
    BY <1>2 DEF RevokeAllForUser
  <2>. QED
    BY <1>1, <2>1 DEF SessionRows
<1>3. ASSUME NEW r \in Requests, RefreshRevoke(r)
      PROVE  session'[s] = session[s] \/ session'[s].status = "revoked"
  BY <1>3, RotatedSession
<1>4. ASSUME NEW r \in Requests, Grant(r)
      PROVE  \/ session'[s] = session[s]
             \/ /\ UNCHANGED account
                /\ session'[s].late =
                     (session'[s].resets < account[session'[s].user].resets)
  <2>1. CASE ~Live(ctx[r].user)
    BY <1>4, <2>1 DEF Grant
  <2>2. CASE Live(ctx[r].user)
    <3>1. PICK n \in Sessions :
            /\ session'[n].user = ctx[r].user
            /\ session'[n].resets = ctx[r].resets
            /\ session'[n].late = (ctx[r].resets < account[ctx[r].user].resets)
            /\ \A x \in Sessions : x # n => session'[x] = session[x]
      BY <1>4, <2>2, GrantedSession, Zenon
    <3>2. UNCHANGED account
      BY <1>4 DEF Grant
    <3>. QED
      BY <3>1, <3>2, Zenon
  <2>. QED
    BY <2>1, <2>2
<1>5. ASSUME \/ \E r \in Requests : ForceDelete(r)
             \/ \E w \in Runners : PurgeDelete(w)
      PROVE  session'[s] = session[s] \/ session'[s].status = "deleted"
  <2>1. \E v \in Users : DeleteUser(v)
    <3>1. \A r \in Requests : ForceDelete(r) => ctx[r].user \in Users
      BY InFlight DEF BaseInv, ForceDelete, At, Fits, UserStages
    <3>2. \A w \in Runners : PurgeDelete(w) => request[runner[w].row].user \in Users
      BY DEF BaseInv, RunnerInv, RowInv, Filed, PurgeDelete
    <3>. QED
      BY <1>5, <3>1, <3>2 DEF ForceDelete, PurgeDelete
  <2>. QED
    BY <2>1, DeletedSessions
<1>6. CASE \E r \in Requests : Grant(r)
  BY <1>4, <1>6, Zenon
<1>. QED
  BY <1>2, <1>3, <1>5, <1>6, SessionWrites

\* A reset goes on to revoke, has just revoked, or is on record as stopped.
LEMMA ResettingEffects ==
  ASSUME BaseInv, Next, NEW u \in Users, Resetting(u)
  PROVE  \/ Resetting(u)'
         \/ account'[u].halfReset
         \/ \E r \in Requests : RevokeAllForUser(r) /\ ctx[r].user = u
<1>1. PICK x \in Requests :
        /\ ctx[x].user = u
        /\ \/ At(x, "revokeAll")
           \/ At(x, "markUsed") /\ ctx[x].type = "password_reset"
  BY DEF Resetting
<1>2. account[u] \in AccountRows
  BY DEF BaseInv, TypeInv
<1>3. ASSUME NEW S, Stopped(S), x \in S PROVE account'[u].halfReset
  <2>. DEFINE b == account[u].halfReset \/ \E r \in S :
                     /\ ctx[r].user = u
                     /\ \/ At(r, "revokeAll")
                        \/ At(r, "markUsed") /\ ctx[r].type = "password_reset"
  <2>1. account'[u] = [account[u] EXCEPT !.halfReset = b]
    BY <1>3 DEF Stopped
  <2>2. b = TRUE
    BY <1>1, <1>3
  <2>. HIDE DEF b
  <2>. QED
    BY <1>2, <2>1, <2>2 DEF AccountRows
<1>4. CASE UNCHANGED <<stage, ctx>>
  BY <1>1, <1>4 DEF Resetting, At
<1>5. CASE Restart
  BY <1>3, <1>5 DEF Restart
<1>6. CASE \E r \in Requests : \E s, c : Leads(r, s, c)
  <2>1. PICK r \in Requests : \E s, c : Leads(r, s, c)
    BY <1>6
  <2>2. PICK s, c : Leads(r, s, c)
    BY <2>1
  <2>3. CASE x # r
    <3>1. stage'[x] = stage[x] /\ ctx'[x] = ctx[x]
      BY <2>2, <2>3, Moved DEF Leads, BaseInv
    <3>. QED
      BY <1>1, <3>1 DEF Resetting, At
  <2>4. CASE x = r /\ Abort(r)
    BY <1>3, <2>4 DEF Abort
  <2>5. CASE x = r /\ At(r, "revokeAll") /\ ~Abort(r)
    BY <1>1, <2>2, <2>5 DEF Leads
  <2>6. CASE x = r /\ At(r, "markUsed") /\ ~Abort(r)
    <3>1. MarkUsed(r) /\ ctx[r].type = "password_reset"
      BY <1>1, <2>2, <2>6 DEF Leads, At
    <3>2. Goto(r, "revokeAll")
      BY <3>1 DEF MarkUsed
    <3>3. stage'[r] = "revokeAll" /\ ctx' = ctx
      BY <3>2 DEF Goto, BaseInv, RequestInv
    <3>. QED
      BY <1>1, <2>6, <3>3 DEF Resetting, At
  <2>. QED
    BY <1>1, <2>3, <2>4, <2>5, <2>6
<1>. QED
  BY <1>4, <1>5, <1>6, StageWrites

LEMMA ResetBegins ==
  ASSUME BaseInv, NEW r \in Requests, UpdatePassword(r), NEW u, ctx[r].user = u
  PROVE  Resetting(u)'
<1>1. ctx[r].type = "password_reset" /\ Goto(r, "markUsed")
  BY InFlight DEF BaseInv, UpdatePassword, At, Fits
<1>2. stage'[r] = "markUsed" /\ ctx' = ctx
  BY <1>1 DEF Goto, BaseInv, RequestInv
<1>. QED
  BY <1>1, <1>2 DEF Resetting, At

LEMMA ResetKept ==
  BaseInv /\ ResetEndsSessions /\ [Next]_vars => ResetEndsSessions'
<1>. SUFFICES ASSUME BaseInv, ResetEndsSessions, [Next]_vars
              PROVE  ResetEndsSessions'
  OBVIOUS
<1>1. CASE UNCHANGED vars
  BY <1>1 DEF vars, ResetEndsSessions, Resetting, At
<1>2. CASE Next
  <2>. SUFFICES ASSUME NEW s \in Sessions, NEW u, session'[s].user = u,
                       session'[s].status = "active",
                       session'[s].resets < account'[u].resets
                PROVE  session'[s].late \/ Resetting(u)' \/ account'[u].halfReset
    BY DEF ResetEndsSessions, Resetting, At
  <2>1. CASE UNCHANGED account /\ session'[s].late =
                 (session'[s].resets < account[session'[s].user].resets)
    BY <2>1
  <2>2. CASE session'[s] = session[s]
    <3>1. u \in Users /\ Live(u) /\ session[s].user = u
      BY <2>2 DEF BaseInv, RowInv
    <3>2. account[u].halfReset => account'[u].halfReset
      BY <1>2, <3>1, AccountEffects
    <3>3. CASE \E r \in Requests : UpdatePassword(r) /\ ctx[r].user = u
      BY <3>3, ResetBegins
    <3>4. CASE ~ \E r \in Requests : UpdatePassword(r) /\ ctx[r].user = u
      <4>1. account'[u].resets = account[u].resets
        BY <1>2, <3>1, <3>4, AccountEffects
      <4>2. session[s].late \/ Resetting(u) \/ account[u].halfReset
        BY <2>2, <3>1, <4>1 DEF ResetEndsSessions
      <4>3. ~ \E r \in Requests : RevokeAllForUser(r) /\ ctx[r].user = u
        <5>1. SUFFICES ASSUME NEW r \in Requests, RevokeAllForUser(r), ctx[r].user = u
                       PROVE  FALSE
          OBVIOUS
        <5>2. session'[s] = [session[s] EXCEPT !.status = "revoked"]
          BY <2>2, <3>1, <5>1 DEF RevokeAllForUser
        <5>3. session[s] \in SessionRows
          BY DEF BaseInv, TypeInv
        <5>4. session'[s].status = "revoked"
          BY <5>2, <5>3 DEF SessionRows
        <5>. QED
          BY <5>4
      <4>. QED
        BY <1>2, <2>2, <3>1, <3>2, <4>2, <4>3, ResettingEffects
    <3>. QED
      BY <3>3, <3>4
  <2>. QED
    BY <1>2, <2>1, <2>2, SessionEffects
<1>. QED
  BY <1>1, <1>2

-----------------------------------------------------------------------------
(* What a step may never do.                                               *)

\* The token a request has afterwards is the one it had, an unused one or none.
LEMMA HeldTokens ==
  ASSUME BaseInv, Next, NEW x \in Requests
  PROVE  \/ ctx'[x].token \in {None, ctx[x].token}
         \/ ctx'[x].token \in Tokens /\ token[ctx'[x].token].status = "unused"
<1>1. /\ ctx \in [Requests -> Locals] /\ ctx[x] \in Locals
      /\ Blank = [user |-> None, email |-> None, identity |-> None, type |-> None,
                  token |-> None, session |-> None, row |-> None, resets |-> 0]
  BY DEF BaseInv, RequestInv, Blank
<1>2. ASSUME NEW r \in Requests,
             \/ \E e \in Emails : RegisterFind(r, e)
             \/ \E u \in Users, e \in Emails : RenameFind(r, u, e)
             \/ \E u \in Users : ForgotFind(r, u) \/ LoginRead(r, u)
             \/ \E s \in Sessions : RefreshFind(r, s)
             \/ \E u \in Users : RequestFind(r, u) \/ ForceFind(r, u)
             \/ \E u \in Users, d \in Deletions : CancelFind(r, u, d)
             \/ \E y \in States, p \in Identities, e \in Emails :
                  OAuthCallback(r, y, p, e)
      PROVE  ctx'[x].token \in {None, ctx[x].token}
  <2>1. ASSUME NEW e \in Emails, RegisterFind(r, e)
        PROVE  ctx'[x].token \in {None, ctx[x].token}
    <3>. DEFINE c == [Blank EXCEPT !.email = e]
    <3>1. c.token = None /\ ctx' = [ctx EXCEPT ![r] = c]
      BY <1>1, <2>1 DEF RegisterFind, Arrive
    <3>. HIDE DEF c
    <3>. QED
      BY <1>1, <3>1
  <2>2. ASSUME NEW u \in Users, NEW e \in Emails, RenameFind(r, u, e)
        PROVE  ctx'[x].token \in {None, ctx[x].token}
    <3>. DEFINE c == [Blank EXCEPT !.user = u, !.email = e]
    <3>1. c.token = None /\ ctx' = [ctx EXCEPT ![r] = c]
      BY <1>1, <2>2 DEF RenameFind, Arrive
    <3>. HIDE DEF c
    <3>. QED
      BY <1>1, <3>1
  <2>3. ASSUME NEW u \in Users, ForgotFind(r, u)
        PROVE  ctx'[x].token \in {None, ctx[x].token}
    <3>. DEFINE c == [Blank EXCEPT !.user = u, !.type = "password_reset"]
    <3>1. c.token = None /\ ctx' = [ctx EXCEPT ![r] = c]
      BY <1>1, <2>3 DEF ForgotFind, Arrive
    <3>. HIDE DEF c
    <3>. QED
      BY <1>1, <3>1
  <2>4. ASSUME NEW u \in Users, LoginRead(r, u)
        PROVE  ctx'[x].token \in {None, ctx[x].token}
    <3>. DEFINE c == [Blank EXCEPT !.user = u, !.resets = account[u].resets]
    <3>1. c.token = None /\ ctx' = [ctx EXCEPT ![r] = c]
      BY <1>1, <2>4 DEF LoginRead, Arrive
    <3>. HIDE DEF c
    <3>. QED
      BY <1>1, <3>1
  <2>5. ASSUME NEW s \in Sessions, RefreshFind(r, s)
        PROVE  ctx'[x].token \in {None, ctx[x].token}
    <3>. DEFINE c == [Blank EXCEPT !.user = session[s].user, !.session = s,
                                   !.resets = session[s].resets]
    <3>1. c.token = None /\ ctx' = [ctx EXCEPT ![r] = c]
      BY <1>1, <2>5 DEF RefreshFind, Arrive
    <3>. HIDE DEF c
    <3>. QED
      BY <1>1, <3>1
  <2>6. ASSUME NEW u \in Users, RequestFind(r, u) \/ ForceFind(r, u)
        PROVE  ctx'[x].token \in {None, ctx[x].token}
    <3>. DEFINE c == [Blank EXCEPT !.user = u]
    <3>1. c.token = None /\ ctx' = [ctx EXCEPT ![r] = c]
      BY <1>1, <2>6 DEF RequestFind, ForceFind, Arrive
    <3>. HIDE DEF c
    <3>. QED
      BY <1>1, <3>1
  <2>7. ASSUME NEW u \in Users, NEW d \in Deletions, CancelFind(r, u, d)
        PROVE  ctx'[x].token \in {None, ctx[x].token}
    <3>. DEFINE c == [Blank EXCEPT !.user = u, !.row = d]
    <3>1. c.token = None /\ ctx' = [ctx EXCEPT ![r] = c]
      BY <1>1, <2>7 DEF CancelFind, Arrive
    <3>. HIDE DEF c
    <3>. QED
      BY <1>1, <3>1
  <2>8. ASSUME NEW y \in States, NEW p \in Identities, NEW e \in Emails,
               OAuthCallback(r, y, p, e)
        PROVE  ctx'[x].token \in {None, ctx[x].token}
    <3>. DEFINE c == [Blank EXCEPT !.identity = p, !.email = e]
    <3>1. c.token = None /\ ctx' = [ctx EXCEPT ![r] = c]
      BY <1>1, <2>8 DEF OAuthCallback, Arrive
    <3>. HIDE DEF c
    <3>. QED
      BY <1>1, <3>1
  <2>. QED
    BY <1>2, <2>1, <2>2, <2>3, <2>4, <2>5, <2>6, <2>7, <2>8
<1>3. ASSUME NEW r \in Requests, NEW k \in Tokens, VerifyFind(r, k) \/ ResetFind(r, k)
      PROVE  \/ ctx'[x] = ctx[x]
             \/ ctx'[x].token = k /\ token[k].status = "unused"
  BY <1>1, <1>3 DEF VerifyFind, ResetFind, Valid, Arrive
<1>4. ASSUME NEW r \in Requests,
             \/ CreateUser(r) \/ RenameWrite(r) \/ InsertToken(r)
             \/ MarkEmailVerified(r) \/ MarkUsed(r) \/ UpdatePassword(r)
             \/ RevokeAllForUser(r) \/ RefreshRevoke(r) \/ Grant(r)
             \/ LinkOAuth(r) \/ CreateOAuthUser(r) \/ Abort(r) \/ Invalidate(r)
             \/ FindIdentity(r) \/ FindEmail(r)
             \/ RequestCreate(r) \/ CancelWrite(r) \/ ForceDelete(r)
      PROVE  ctx'[x].token \in {None, ctx[x].token}
  <2>1. \/ UNCHANGED ctx
        \/ \E s : GotoWith(r, s, Blank)
        \/ \E s, u, t, n :
             \/ GotoWith(r, s, [ctx[r] EXCEPT !.user = u])
             \/ GotoWith(r, s, [ctx[r] EXCEPT !.resets = n])
             \/ GotoWith(r, s, [ctx[r] EXCEPT !.user = u, !.type = t])
             \/ GotoWith(r, s, [ctx[r] EXCEPT !.user = u, !.resets = n])
    BY <1>4, Zenon
       DEF CreateUser, RenameWrite, InsertToken, MarkEmailVerified, MarkUsed,
           UpdatePassword, RevokeAllForUser, RefreshRevoke, Grant, LinkOAuth,
           CreateOAuthUser, Abort, Invalidate, FindIdentity, FindEmail,
           RequestCreate, CancelWrite, ForceDelete, Finish, Goto
  <2>2. ASSUME NEW s, NEW c, GotoWith(r, s, c), c.token \in {None, ctx[r].token}
        PROVE  ctx'[x].token \in {None, ctx[x].token}
    BY <1>1, <2>2 DEF GotoWith
  <2>3. ctx[r] \in Locals
    BY <1>1
  <2>4. ASSUME NEW s, NEW u, GotoWith(r, s, [ctx[r] EXCEPT !.user = u])
        PROVE  ctx'[x].token \in {None, ctx[x].token}
    <3>. DEFINE c == [ctx[r] EXCEPT !.user = u]
    <3>1. c.token = ctx[r].token /\ GotoWith(r, s, c)
      BY <2>3, <2>4 DEF Locals
    <3>. HIDE DEF c
    <3>. QED
      BY <2>2, <3>1
  <2>5. ASSUME NEW s, NEW n, GotoWith(r, s, [ctx[r] EXCEPT !.resets = n])
        PROVE  ctx'[x].token \in {None, ctx[x].token}
    <3>. DEFINE c == [ctx[r] EXCEPT !.resets = n]
    <3>1. c.token = ctx[r].token /\ GotoWith(r, s, c)
      BY <2>3, <2>5 DEF Locals
    <3>. HIDE DEF c
    <3>. QED
      BY <2>2, <3>1
  <2>6. ASSUME NEW s, NEW u, NEW t,
               GotoWith(r, s, [ctx[r] EXCEPT !.user = u, !.type = t])
        PROVE  ctx'[x].token \in {None, ctx[x].token}
    <3>. DEFINE c == [ctx[r] EXCEPT !.user = u, !.type = t]
    <3>1. c.token = ctx[r].token /\ GotoWith(r, s, c)
      BY <2>3, <2>6 DEF Locals
    <3>. HIDE DEF c
    <3>. QED
      BY <2>2, <3>1
  <2>7. ASSUME NEW s, NEW u, NEW n,
               GotoWith(r, s, [ctx[r] EXCEPT !.user = u, !.resets = n])
        PROVE  ctx'[x].token \in {None, ctx[x].token}
    <3>. DEFINE c == [ctx[r] EXCEPT !.user = u, !.resets = n]
    <3>1. c.token = ctx[r].token /\ GotoWith(r, s, c)
      BY <2>3, <2>7 DEF Locals
    <3>. HIDE DEF c
    <3>. QED
      BY <2>2, <3>1
  <2>8. Blank.token = None
    BY <1>1
  <2>. QED
    BY <2>1, <2>2, <2>4, <2>5, <2>6, <2>7, <2>8, Zenon
<1>5. ASSUME \/ OtherSteps \/ \E d \in Deletions : BecomeDue(d)
             \/ \E w \in Runners : RunnerStep(w) \/ PurgeSkip(w)
      PROVE  UNCHANGED ctx
  BY <1>5 DEF OtherSteps, SetVerified, TokenExpires, OAuthBegin, StateLapses,
     CleanStates, RunnerStep, StartRun, PurgeDelete, PurgeComplete, PurgeSkip,
     BecomeDue
<1>6. Restart => ctx'[x] = Blank
  BY DEF Restart
<1>7. ASSUME NEW r \in Requests, RequestSteps(r)
      PROVE  \/ ctx'[x].token \in {None, ctx[x].token}
             \/ ctx'[x].token \in Tokens /\ token[ctx'[x].token].status = "unused"
  <2>1. CASE \E k \in Tokens : VerifyFind(r, k) \/ ResetFind(r, k)
    BY <1>3, <2>1
  <2>2. CASE ~ \E k \in Tokens : VerifyFind(r, k) \/ ResetFind(r, k)
    BY <1>2, <1>4, <1>7, <2>2, Zenon DEF RequestSteps
  <2>. QED
    BY <2>1, <2>2
<1>8. ctx' = ctx \/ ctx'[x] = Blank => ctx'[x].token \in {None, ctx[x].token}
  BY <1>1
<1>. QED
  BY <1>2, <1>4, <1>5, <1>6, <1>7, <1>8, Zenon DEF Next

LEMMA SpentKept ==
  ASSUME BaseInv, Next, NEW k \in Tokens, Spent(k)
  PROVE  Spent(k)'
<1>1. token[k].status \in {"used", "expired", "deleted"}
      /\ \A r \in Requests : ctx[r].token # k
  BY DEF Spent
<1>2. token'[k].status \in {"used", "expired", "deleted"}
  BY <1>1, TokenEffects
<1>3. \A r \in Requests : ctx'[r].token # k
  BY <1>1, HeldTokens, NoneIsNothing
<1>. QED
  BY <1>2, <1>3 DEF Spent

\* A row is in a run's hands because it was, or because it is due.
LEMMA RunnerEffects ==
  ASSUME BaseInv, Next, NEW w \in Runners, NEW d \in Deletions,
         d \in runner'[w].todo \/ d = runner'[w].row
  PROVE  \/ d \in runner[w].todo \/ d = runner[w].row
         \/ d \in FindDue /\ Live(request[d].user)
<1>1. /\ runner \in [Runners -> Runs] /\ runner[w] \in Runs
      /\ \A v \in Runners : runner[v].todo \in SUBSET Deletions
      /\ \A v \in Runners : \A x \in runner[v].todo : Filed(x)
      /\ d # None
  BY NoneIsNothing DEF BaseInv, TypeInv, Runs, RunnerInv
<1>2. Idle.todo = {} /\ Idle.row = None
  BY DEF Idle
<1>3. ASSUME NEW v \in Runners, NEW S \in SUBSET Deletions, Proceed(v, S),
             \A x \in S : Filed(x)
      PROVE  d \in S \/ d \in runner[w].todo \/ d = runner[w].row
  <2>1. CASE v = w
    BY <1>1, <1>3, <2>1, Proceeds
  <2>2. CASE v # w
    BY <1>3, <2>2, Proceeds
  <2>. QED
    BY <2>1, <2>2
<1>4. CASE UNCHANGED runner
  BY <1>4
<1>5. ASSUME NEW v \in Runners, StartRun(v)
      PROVE  \/ d \in runner[w].todo \/ d = runner[w].row
             \/ d \in FindDue /\ Live(request[d].user)
  <2>. DEFINE S == {x \in FindDue : Live(request[x].user)}
  <2>1. S \in SUBSET Deletions /\ (\A x \in S : Filed(x)) /\ Proceed(v, S)
    BY <1>5 DEF FindDue, Filed, StartRun
  <2>2. d \in S => d \in FindDue /\ Live(request[d].user)
    OBVIOUS
  <2>. HIDE DEF S
  <2>. QED
    BY <1>3, <2>1, <2>2
<1>6. ASSUME NEW v \in Runners, PurgeComplete(v) \/ PurgeSkip(v)
      PROVE  d \in runner[w].todo \/ d = runner[w].row
  <2>1. d \in runner[v].todo \/ d \in runner[w].todo \/ d = runner[w].row
    BY <1>1, <1>3, <1>6 DEF PurgeComplete, PurgeSkip
  <2>2. CASE v # w
    <3>1. runner'[w] = runner[w]
      BY <1>1, <1>6, <2>2, Proceeds DEF PurgeComplete, PurgeSkip
    <3>. QED
      BY <3>1
  <2>. QED
    BY <2>1, <2>2
<1>7. ASSUME NEW v \in Runners, PurgeDelete(v)
      PROVE  d \in runner[w].todo \/ d = runner[w].row
  <2>1. runner' = [runner EXCEPT ![v].stage = "complete"]
    BY <1>7 DEF PurgeDelete
  <2>2. runner'[w] = runner[w] \/ runner'[w] = [runner[w] EXCEPT !.stage = "complete"]
    BY <1>1, <2>1
  <2>3. runner'[w].todo = runner[w].todo /\ runner'[w].row = runner[w].row
    BY <1>1, <2>2 DEF Runs
  <2>. QED
    BY <2>3
<1>8. Restart => runner'[w] = Idle
  BY DEF Restart
<1>9. Next => \/ UNCHANGED runner \/ Restart
              \/ \E v \in Runners : \/ StartRun(v) \/ PurgeDelete(v)
                                    \/ PurgeComplete(v) \/ PurgeSkip(v)
  BY DEF Next, RunnerStep, RequestFind, CancelFind, ForceFind, RequestCreate,
         CancelWrite, ForceDelete, BecomeDue
<1>. QED
  BY <1>1, <1>2, <1>4, <1>5, <1>6, <1>7, <1>8, <1>9

\* Nothing but the two deletions ends an account.
LEMMA StaysLive ==
  ASSUME BaseInv, Next, NEW u \in Users, Live(u),
         ~ \E r \in Requests : ForceDelete(r), ~ \E w \in Runners : PurgeDelete(w)
  PROVE  Live(u)'
<1>. USE DEF Live
<1>1. account \in [Users -> AccountRows] /\ account[u] \in AccountRows
  BY DEF BaseInv, TypeInv
<1>2. ASSUME NEW r \in Requests, CreateUser(r) \/ CreateOAuthUser(r)
      PROVE  account'[u] = account[u]
  <2>1. Unborn # {} => NextUser \in Users /\ account[NextUser].status = "absent"
    BY DEF NextUser, Unborn
  <2>2. \/ UNCHANGED account
        \/ Unborn # {} /\ \E a : account' = [account EXCEPT ![NextUser] = a]
    BY <1>2 DEF CreateUser, CreateOAuthUser
  <2>. QED
    BY <1>1, <2>1, <2>2
<1>3. ASSUME \/ \E r \in Requests : \/ RenameWrite(r) \/ MarkEmailVerified(r)
                                    \/ UpdatePassword(r) \/ LinkOAuth(r)
             \/ \E v \in Users, flag \in BOOLEAN : SetVerified(v, flag)
      PROVE  account'[u].status = account[u].status
  <2>1. \/ UNCHANGED account
        \/ \E v, e : account' = [account EXCEPT ![v].email = e]
        \/ \E v, b : account' = [account EXCEPT ![v].verified = b]
        \/ \E v, n : account' = [account EXCEPT ![v].resets = n]
        \/ \E v, p : account' = [account EXCEPT ![v].identity = p]
    BY <1>3 DEF RenameWrite, MarkEmailVerified, SetVerified, UpdatePassword, LinkOAuth
  <2>. QED
    BY <1>1, <2>1 DEF AccountRows
<1>4. ASSUME NEW S, Stopped(S) PROVE account'[u].status = account[u].status
  <2>1. \E b : account'[u] = [account[u] EXCEPT !.halfReset = b]
    BY <1>4 DEF Stopped
  <2>. QED
    BY <1>1, <2>1 DEF AccountRows
<1>. QED
  BY <1>2, <1>3, <1>4, AccountWrites

\* Each of the ways an account can be endangered needs one of the two beginnings.
LEMMA QuietKept ==
  ASSUME BaseInv, Next, NEW u \in Users, Quiet(u),
         \A d \in Pending(u) : ~(~request[d].due /\ request'[d].due),
         \A r \in Requests : ~ForceFind(r, u)
  PROVE  Quiet(u)'
<1>1. /\ Live(u)
      /\ \A d \in Pending(u) : ~request[d].due
      /\ \A w \in Runners, d \in Deletions :
           d \in runner[w].todo \/ d = runner[w].row => request[d].user # u
      /\ \A r \in Requests : At(r, "forceDelete") => ctx[r].user # u
  BY DEF Quiet
<1>2. Live(u)'
  <2>1. CASE \E r \in Requests : ForceDelete(r)
    <3>1. PICK r \in Requests : ForceDelete(r)
      BY <2>1
    <3>2. ctx[r].user \in Users /\ ctx[r].user # u /\ DeleteUser(ctx[r].user)
      BY <1>1, <3>1, InFlight DEF BaseInv, ForceDelete, At, Fits, UserStages
    <3>. QED
      BY <1>1, <3>2, DeletedAccounts DEF Live
  <2>2. CASE \E w \in Runners : PurgeDelete(w)
    <3>1. PICK w \in Runners : PurgeDelete(w)
      BY <2>2
    <3>2. Filed(runner[w].row)
      BY <3>1 DEF PurgeDelete, BaseInv, RunnerInv
    <3>3. /\ request[runner[w].row].user \in Users
          /\ request[runner[w].row].user # u
          /\ DeleteUser(request[runner[w].row].user)
      BY <1>1, <3>1, <3>2 DEF PurgeDelete, BaseInv, RowInv, Filed
    <3>. QED
      BY <1>1, <3>3, DeletedAccounts DEF Live
  <2>3. CASE ~ \/ \E r \in Requests : ForceDelete(r)
               \/ \E w \in Runners : PurgeDelete(w)
    BY <1>1, <2>3, StaysLive
  <2>. QED
    BY <2>1, <2>2, <2>3
<1>3. ASSUME NEW d \in Deletions, request'[d].status = "pending",
             request'[d].user = u
      PROVE  ~request'[d].due
  <2>1. CASE request[d].status = "pending" /\ request[d].user = u
    BY <1>1, <2>1 DEF Pending
  <2>2. CASE ~(request[d].status = "pending" /\ request[d].user = u)
    BY <1>3, <2>2, RequestEffects
  <2>. QED
    BY <2>1, <2>2
<1>4. \A d \in Pending(u)' : ~request'[d].due
  BY <1>3 DEF Pending
<1>5. ASSUME NEW w \in Runners, NEW d \in Deletions,
             d \in runner'[w].todo \/ d = runner'[w].row
      PROVE  request'[d].user # u
  <2>1. /\ d \in runner[w].todo \/ d = runner[w].row => Filed(d)
        /\ d \in FindDue => Filed(d)
    BY NoneIsNothing DEF BaseInv, RunnerInv, FindDue, Filed
  <2>2. \/ d \in runner[w].todo \/ d = runner[w].row
        \/ d \in FindDue /\ Live(request[d].user)
    BY <1>5, RunnerEffects
  <2>3. request[d].user # u
    BY <1>1, <2>2 DEF FindDue, Pending
  <2>4. request'[d].user = request[d].user
    BY <2>1, <2>2, RequestEffects DEF Filed
  <2>. QED
    BY <2>3, <2>4
<1>6. ASSUME NEW r \in Requests, stage'[r] = "forceDelete" PROVE ctx'[r].user # u
  BY <1>1, <1>6, StageEffects DEF At
<1>. QED
  BY <1>2, <1>4, <1>5, <1>6 DEF Quiet, At

-----------------------------------------------------------------------------
(* The theorems.                                                           *)

\* The invariant the others follow from.
THEOREM Inductive == Spec => []IInv
<1>1. IInv /\ [Next]_vars => IInv'
  BY BaseKept, ResetKept, CountsKept DEF IInv
<1>. QED
  BY <1>1, InitInv, PTL DEF Spec

\* Every account, token, session, request and run is what the schema and the
\* handlers make of it; an address names one account, and no token or session
\* on record is left behind by an account that is gone.
THEOREM DeletionTypeSafe == Spec => []DeletionTypeOK
BY Inductive, IInvImplies, PTL

\* A deletion request is marked completed only once its account is gone.
THEOREM CompletedIsGone == Spec => []CompletedMeansGone
BY Inductive, IInvImplies, PTL

\* After a password reset no session of an earlier credential stays active,
\* but for those of a reset on its way or stopped and those stored late.
THEOREM ResetEnds == Spec => []ResetEndsSessions
BY Inductive, IInvImplies, PTL

\* Tokens in force, holders of an identity and pending deletions of an account
\* are never more than the requests that overlap.
THEOREM OverlapsBound == Spec => []OverlapBounds
BY Inductive, IInvImplies, PTL

\* A token that is used up or expired, and that no request holds, is never
\* held or in force again.
THEOREM SpentForGood == Spec => SpentTokenStaysSpent
<1>1. BaseInv /\ [Next]_vars =>
        [\A k \in Tokens : Spent(k) => Spent(k)']_<<token, ctx>>
  <2>. SUFFICES ASSUME BaseInv, [Next]_vars, NEW k \in Tokens, Spent(k),
                       ~UNCHANGED <<token, ctx>>
                PROVE  Spent(k)'
    OBVIOUS
  <2>1. Next
    BY DEF vars
  <2>. QED
    BY <2>1, SpentKept
<1>2. IInv => BaseInv
  BY DEF IInv
<1>. QED
  BY <1>1, <1>2, Inductive, PTL DEF Spec, SpentTokenStaysSpent

\* An account nobody is about to delete stays, until a pending request of it
\* becomes due or an administrator looks it up to delete it.
THEOREM QuietIsSafe == Spec => SafeWhileQuiet
<1>. DEFINE A == \A u \in Users :
       Quiet(u) => \/ Quiet(u)'
                   \/ \E d \in Pending(u) : ~request[d].due /\ request'[d].due
                   \/ \E r \in Requests : ForceFind(r, u)
<1>1. BaseInv /\ [Next]_vars => [A]_vars
  BY QuietKept
<1>2. IInv => BaseInv
  BY DEF IInv
<1>. HIDE DEF A
<1>3. Spec => [][A]_vars
  BY <1>1, <1>2, Inductive, PTL DEF Spec
<1>. QED
  BY <1>3 DEF A, SafeWhileQuiet
=============================================================================

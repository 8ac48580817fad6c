-------------------------- MODULE MfaEnrolment_proofs --------------------------
(***************************************************************************)
(* What the steps of MfaEnrolment preserve, for any sets of accounts,      *)
(* codes and requests, finitely many requests at once, and any number of   *)
(* setups.  ApiKeys_proofs draws the theorems from these lemmas.           *)
(***************************************************************************)
EXTENDS MfaEnrolment, FiniteSetTheorems, TLAPS

-----------------------------------------------------------------------------
(* The inductive invariant, one part per table.                            *)

SettingTypes ==
  [secret : Secrets, enabled : BOOLEAN, proved : SUBSET Secrets,
   overtaken : BOOLEAN, excused : BOOLEAN]

CodeTypes ==
  [status : {"absent", "live", "gone"}, user : Users \cup {None}, uses : Nat]

Contexts ==
  [op : Operations, user : Users \cup {None}, secret : Secrets,
   code : Codes \cup {None}, key : Keys \cup {None}]

\* A row that is enabled has a secret, and one its owner has shown to have
\* unless a setup overtook the confirmation.
SettingInv ==
  /\ setting \in [Users -> SettingTypes]
  /\ \A u \in Users : setting[u].enabled => setting[u].secret # 0
  /\ EnabledByProof

\* A code on record belongs to an account, and has admitted nobody while it is
\* there; finitely many were inserted.
CodeInv ==
  /\ code \in [Codes -> CodeTypes]
  /\ \A c \in Codes :
       /\ code[c].status # "absent" => code[c].user \in Users
       /\ code[c].status # "gone" => code[c].uses = 0
  /\ IsFiniteSet({c \in Codes : code[c].status # "absent"})

\* What a request at stage s with the locals k has read: it works for an
\* account, the first code was right for the secret it goes on to enable, and
\* the code it goes on to spend is one of the account's.
Fits(s, k) ==
  /\ s # "idle" => k.user \in Users
  /\ s = "enable" => k.secret \in setting[k.user].proved
  /\ s = "spend" =>
       /\ k.code \in Codes
       /\ code[k.code].status # "absent" /\ code[k.code].user = k.user

RequestInv ==
  /\ stage \in [Requests -> Stages]
  /\ ctx \in [Requests -> Contexts]
  /\ \A r \in Requests : Fits(stage[r], ctx[r])

\* Whoever can be enabled has codes, unless excused or about to get them.
Replacing(u) ==
  \E r \in Requests : ctx[r].user = u /\ stage[r] \in {"clear", "store"}

CodesInv ==
  \A u \in Users :
    setting[u].secret # 0 =>
      Batches(u) # {} \/ setting[u].excused \/ Replacing(u)

OtherInv == setups \in Secrets /\ workload \in Workloads

MfaInv ==
  /\ SettingInv
  /\ CodeInv
  /\ RequestInv
  /\ CodesInv
  /\ BatchesBounded
  /\ CodeUsesBounded
  /\ OtherInv

LEMMA MfaInvImplies ==
  MfaInv => TypeOK /\ OverlapBounds /\ EnabledByProof /\ EnabledHasCodes
<1>. SUFFICES ASSUME MfaInv
              PROVE  TypeOK /\ OverlapBounds /\ EnabledByProof /\ EnabledHasCodes
  OBVIOUS
<1>1. TypeOK
  <2>1. \A r \in Requests : At(r, "spend") => ctx[r].code # None
    BY NoneIsNothing DEF MfaInv, RequestInv, Fits, At
  <2>. QED
    BY <2>1 DEF MfaInv, SettingInv, CodeInv, RequestInv, OtherInv, TypeOK,
       SettingTypes, CodeTypes, Contexts
<1>2. OverlapBounds /\ EnabledByProof
  BY DEF MfaInv, SettingInv, OverlapBounds
<1>3. EnabledHasCodes
  BY DEF MfaInv, SettingInv, CodesInv, Replacing, EnabledHasCodes
<1>. QED
  BY <1>1, <1>2, <1>3

LEMMA BlankType == Blank \in Contexts
BY MaxSetupsIsNatural DEF Blank, Contexts, Secrets, Operations

LEMMA MfaInitInv == MfaInit => MfaInv
<1>. SUFFICES ASSUME MfaInit PROVE MfaInv
  OBVIOUS
<1>1. SettingInv /\ OtherInv
  BY MaxSetupsIsNatural
     DEF MfaInit, SettingInv, OtherInv, SettingTypes, NoSetting, Secrets, EnabledByProof
<1>2. CodeInv
  <2>1. {c \in Codes : code[c].status # "absent"} = {}
    BY DEF MfaInit, NoCode
  <2>. QED
    BY <2>1, FS_EmptySet DEF MfaInit, CodeInv, CodeTypes, NoCode
<1>3. RequestInv
  BY BlankType DEF MfaInit, RequestInv, Stages, Fits
<1>4. CodesInv
  BY DEF MfaInit, CodesInv, NoSetting
<1>5. Cardinality(Requests) \in Nat
  BY RequestsAreFinite, FS_CardinalityType
<1>6. BatchesBounded
  <2>1. \A u \in Users : Batches(u) = {} /\ Storing(u) = {}
    BY DEF MfaInit, Batches, Storing, At, NoCode
  <2>. QED
    BY <1>5, <2>1, FS_EmptySet DEF BatchesBounded
<1>7. CodeUsesBounded
  <2>1. \A c \in Codes : Spending(c) = {} /\ code[c].uses = 0
    BY DEF MfaInit, Spending, At, NoCode
  <2>. QED
    BY <1>5, <2>1, FS_EmptySet DEF CodeUsesBounded
<1>. QED
  BY <1>1, <1>2, <1>3, <1>4, <1>6, <1>7 DEF MfaInv

-----------------------------------------------------------------------------
(* What the kinds of steps preserve.                                       *)

\* Request r alone goes to stage s with the locals k.
Moves(r, s, k) ==
  stage' = [stage EXCEPT ![r] = s] /\ ctx' = [ctx EXCEPT ![r] = k]

LEMMA MovesBasics ==
  ASSUME RequestInv, NEW r \in Requests
  PROVE  /\ Finish(r) => Moves(r, "idle", Blank)
         /\ \A s : Goto(r, s) => Moves(r, s, ctx[r])
         /\ \A op, k, s : Arrive(r, op, k, s) =>
              stage[r] = "idle" /\ Moves(r, s, [k EXCEPT !.op = op])
         /\ \A s, k : Moves(r, s, k) =>
              /\ stage'[r] = s /\ ctx'[r] = k
              /\ \A q \in Requests \ {r} : stage'[q] = stage[q] /\ ctx'[q] = ctx[q]
BY DEF RequestInv, Finish, Goto, Arrive, Moves, At

\* Rows that were inserted stay, and a secret that was proved stays proved.
RowsGrow ==
  /\ \A u \in Users : setting[u].proved \subseteq setting'[u].proved
  /\ \A c \in Codes : code[c].status # "absent" =>
       code'[c].status # "absent" /\ code'[c].user = code[c].user

LEMMA RequestKept ==
  ASSUME RequestInv, RowsGrow, NEW r \in Requests, NEW s \in Stages,
         NEW k \in Contexts, Moves(r, s, k), Fits(s, k)'
  PROVE  RequestInv'
<1>1. stage' \in [Requests -> Stages] /\ ctx' \in [Requests -> Contexts]
  BY DEF RequestInv, Moves
<1>2. ASSUME NEW q \in Requests PROVE Fits(stage[q], ctx[q])'
  <2>1. CASE q = r
    BY <2>1, MovesBasics DEF Fits
  <2>2. CASE q # r
    <3>1. Fits(stage[q], ctx[q]) /\ stage'[q] = stage[q] /\ ctx'[q] = ctx[q]
      BY <2>2, MovesBasics DEF RequestInv
    <3>. QED
      BY <3>1 DEF Fits, RowsGrow
  <2>. QED
    BY <2>1, <2>2
<1>. QED
  BY <1>1, <1>2 DEF RequestInv

\* Counting: a bound is kept when sets only lose members.
LEMMA Shrinks ==
  ASSUME NEW S, IsFiniteSet(S), NEW T \in SUBSET S
  PROVE  /\ IsFiniteSet(T) /\ Cardinality(T) \in Nat /\ Cardinality(S) \in Nat
         /\ Cardinality(T) <= Cardinality(S)
BY FS_Subset, FS_CardinalityType

LEMMA RequestSets ==
  ASSUME NEW T \in SUBSET Requests
  PROVE  /\ IsFiniteSet(T) /\ Cardinality(T) \in Nat
         /\ Cardinality(Requests) \in Nat
         /\ Cardinality(T) <= Cardinality(Requests)
BY RequestsAreFinite, Shrinks

LEMMA BatchesFinite ==
  ASSUME CodeInv, NEW u
  PROVE  IsFiniteSet(Batches(u)) /\ Cardinality(Batches(u)) \in Nat
BY Shrinks DEF CodeInv, Batches

\* A step that adds neither a batch nor a request that stores one.
LEMMA BatchesKept ==
  ASSUME CodeInv, NEW u \in Users,
         Cardinality(Batches(u)) + Cardinality(Storing(u)) <= Cardinality(Requests),
         Batches(u)' \subseteq Batches(u), Storing(u)' \subseteq Storing(u)
  PROVE  Cardinality(Batches(u)') + Cardinality(Storing(u)')
           <= Cardinality(Requests)
<1>1. /\ Cardinality(Batches(u)') <= Cardinality(Batches(u))
      /\ Cardinality(Batches(u)) \in Nat /\ Cardinality(Batches(u)') \in Nat
  BY BatchesFinite, Shrinks
<1>2. IsFiniteSet(Storing(u))
  BY RequestSets DEF Storing
<1>3. /\ Cardinality(Storing(u)') <= Cardinality(Storing(u))
      /\ Cardinality(Storing(u)) \in Nat /\ Cardinality(Storing(u)') \in Nat
      /\ Cardinality(Requests) \in Nat
  BY <1>2, Shrinks, RequestSets, FS_CardinalityType
<1>. QED
  BY <1>1, <1>3

\* A step that neither uses code c nor finds it.
LEMMA UsesKept ==
  ASSUME CodeInv, NEW c \in Codes,
         code[c].uses + Cardinality(Spending(c)) <= Cardinality(Requests),
         code'[c].uses = code[c].uses \/ code'[c].uses = 0,
         code'[c].uses = 0 \/ Spending(c)' \subseteq Spending(c)
  PROVE  code'[c].uses + Cardinality(Spending(c)') <= Cardinality(Requests)
<1>1. Spending(c) \in SUBSET Requests /\ Spending(c)' \in SUBSET Requests
  BY DEF Spending
<1>2. /\ Cardinality(Spending(c)) \in Nat /\ Cardinality(Spending(c)') \in Nat
      /\ Cardinality(Requests) \in Nat
      /\ Cardinality(Spending(c)') <= Cardinality(Requests)
  BY <1>1, RequestSets
<1>3. code[c].uses \in Nat
  BY DEF CodeInv, CodeTypes
<1>4. CASE code'[c].uses = 0
  BY <1>2, <1>4
<1>5. CASE code'[c].uses = code[c].uses /\ Spending(c)' \subseteq Spending(c)
  <2>1. Cardinality(Spending(c)') <= Cardinality(Spending(c))
    BY <1>1, <1>5, RequestSets, Shrinks
  <2>. QED
    BY <1>2, <1>3, <1>5, <2>1
<1>. QED
  BY <1>4, <1>5

\* A step that leaves the codes alone and does not go on to store any.
LEMMA CodesAlone ==
  ASSUME RequestInv, CodeInv, BatchesBounded, CodeUsesBounded,
         NEW r \in Requests, NEW s \in Stages \ {"store"}, NEW k \in Contexts,
         Moves(r, s, k), UNCHANGED code,
         s = "spend" => k.code \in Codes /\ code[k.code].uses = 0
  PROVE  CodeInv' /\ BatchesBounded' /\ CodeUsesBounded'
<1>1. CodeInv'
  BY DEF CodeInv
<1>2. /\ stage'[r] = s /\ ctx'[r] = k
      /\ \A q \in Requests \ {r} : stage'[q] = stage[q] /\ ctx'[q] = ctx[q]
  BY MovesBasics
<1>3. BatchesBounded'
  <2> SUFFICES ASSUME NEW u \in Users
               PROVE  Cardinality(Batches(u)') + Cardinality(Storing(u)')
                        <= Cardinality(Requests)
    BY DEF BatchesBounded
  <2>1. Batches(u)' \subseteq Batches(u) /\ Storing(u)' \subseteq Storing(u)
    BY <1>2 DEF Batches, Storing, At
  <2>. QED
    BY <2>1, BatchesKept DEF BatchesBounded
<1>4. CodeUsesBounded'
  <2> SUFFICES ASSUME NEW c \in Codes
               PROVE  code'[c].uses + Cardinality(Spending(c)')
                   <= Cardinality(Requests)
    BY DEF CodeUsesBounded
  <2>1. code'[c].uses = 0 \/ Spending(c)' \subseteq Spending(c)
    BY <1>2 DEF Spending, At
  <2>. QED
    BY <2>1, UsesKept DEF CodeUsesBounded
<1>. QED
  BY <1>1, <1>3, <1>4

\* A step that reads settings and codes and writes neither.
LEMMA QuietKeeps ==
  ASSUME MfaInv, NEW r \in Requests, NEW s \in Stages \ {"store"},
         NEW k \in Contexts, Moves(r, s, k), Fits(s, k),
         stage[r] \notin {"clear", "store"},
         UNCHANGED <<setting, code, setups, workload>>,
         s = "spend" => code[k.code].uses = 0
  PROVE  MfaInv'
<1>1. CodeInv' /\ BatchesBounded' /\ CodeUsesBounded'
  BY CodesAlone DEF MfaInv, Fits
<1>2. SettingInv' /\ OtherInv'
  BY DEF MfaInv, SettingInv, EnabledByProof, OtherInv
<1>3. RequestInv'
  BY RequestKept DEF MfaInv, RowsGrow, Fits
<1>4. CodesInv'
  <2>1. \A u \in Users : Batches(u)' = Batches(u) /\ (Replacing(u) => Replacing(u)')
    BY MovesBasics DEF MfaInv, Batches, Replacing
  <2>. QED
    BY <2>1 DEF MfaInv, CodesInv
<1>. QED
  BY <1>1, <1>2, <1>3, <1>4 DEF MfaInv

\* The locals handlers start with.
LEMMA LocalsType ==
  /\ \A u \in Users : LET k == [Blank EXCEPT !.user = u]
                      IN  k \in Contexts /\ k.user = u
  /\ \A u \in Users, secret \in Secrets :
       LET k == [Blank EXCEPT !.user = u, !.secret = secret]
       IN  k \in Contexts /\ k.user = u /\ k.secret = secret
BY BlankType DEF Contexts

LEMMA ArriveMoves ==
  ASSUME RequestInv, NEW r \in Requests, NEW op \in Operations,
         NEW locals \in Contexts, NEW s, Arrive(r, op, locals, s)
  PROVE  \E k \in Contexts :
           /\ k.user = locals.user /\ k.secret = locals.secret
           /\ k.key = locals.key
           /\ stage[r] = "idle" /\ Moves(r, s, k)
<1> DEFINE k == [locals EXCEPT !.op = op]
<1>1. /\ k \in Contexts /\ k.user = locals.user /\ k.secret = locals.secret
      /\ k.key = locals.key
  BY DEF Contexts
<1>2. stage[r] = "idle" /\ Moves(r, s, k)
  BY MovesBasics
<1>. QED
  BY <1>1, <1>2

LEMMA ReadKeeps ==
  ASSUME MfaInv, NEW r \in Requests, NEW u \in Users,
         LoginCodeRead(r, u) \/ DisableRead(r, u) \/ AdminDisableRead(r, u)
           \/ Regenerate(r, u)
  PROVE  MfaInv'
<1> DEFINE k == [Blank EXCEPT !.user = u, !.secret = setting[u].secret]
           l == [Blank EXCEPT !.user = u]
<1>1. k \in Contexts /\ k.user = u /\ l \in Contexts /\ l.user = u
  BY LocalsType DEF MfaInv, SettingInv, SettingTypes
<1>2. PICK op \in Operations, locals \in Contexts,
           s \in {"findCode", "delete", "clear"} :
        locals.user = u /\ Arrive(r, op, locals, s)
  <2>1. CASE LoginCodeRead(r, u)
    BY <1>1, <2>1 DEF LoginCodeRead, Operations
  <2>2. CASE DisableRead(r, u)
    BY <1>1, <2>2 DEF DisableRead, Operations
  <2>3. CASE AdminDisableRead(r, u)
    BY <1>1, <2>3 DEF AdminDisableRead, Operations
  <2>4. CASE Regenerate(r, u)
    BY <1>1, <2>4 DEF Regenerate, Operations
  <2>. QED
    BY <2>1, <2>2, <2>3, <2>4
<1>3. PICK c \in Contexts : c.user = u /\ stage[r] = "idle" /\ Moves(r, s, c)
  BY <1>2, ArriveMoves DEF MfaInv
<1>4. UNCHANGED <<setting, code, setups, workload>>
  BY DEF LoginCodeRead, DisableRead, AdminDisableRead, Regenerate
<1>. QED
  BY <1>2, <1>3, <1>4, QuietKeeps DEF Fits, Stages

LEMMA CodeWrongKeeps ==
  ASSUME MfaInv, NEW r \in Requests, CodeWrong(r) PROVE MfaInv'
<1>1. Moves(r, "idle", Blank) /\ stage[r] = "findCode"
  BY MovesBasics DEF MfaInv, CodeWrong, At
<1>2. UNCHANGED <<setting, code, setups, workload>>
  BY DEF CodeWrong
<1>. QED
  BY <1>1, <1>2, QuietKeeps, BlankType DEF Fits, Stages

LEMMA CodeFindKeeps ==
  ASSUME MfaInv, NEW r \in Requests, NEW c \in Codes, CodeFind(r, c)
  PROVE  MfaInv'
<1> DEFINE k == [ctx[r] EXCEPT !.code = c]
<1>1. k \in Contexts /\ k.user = ctx[r].user /\ k.code = c
  BY DEF MfaInv, RequestInv, Contexts
<1>2. Moves(r, "spend", k) /\ stage[r] = "findCode"
  BY DEF CodeFind, Moves, MfaInv, RequestInv, At
<1>3. code[c].uses = 0 /\ Fits("spend", k)
  BY <1>1, <1>2 DEF CodeFind, Batches, MfaInv, CodeInv, RequestInv, Fits
<1>4. UNCHANGED <<setting, code, setups, workload>>
  BY DEF CodeFind
<1> HIDE DEF k
<1>. QED
  BY <1>1, <1>2, <1>3, <1>4, QuietKeeps DEF Stages

LEMMA SetupUpsertKeeps ==
  ASSUME MfaInv, NEW r \in Requests, NEW u \in Users, SetupUpsert(r, u)
  PROVE  MfaInv'
<1>1. /\ setups' = setups + 1 /\ setups + 1 \in Secrets
      /\ setting' = [setting EXCEPT ![u].secret = setups + 1,
                       ![u].enabled = FALSE, ![u].overtaken = FALSE]
      /\ UNCHANGED <<code, workload>>
  BY MaxSetupsIsNatural DEF SetupUpsert, MfaInv, OtherInv, Secrets
<1>2. PICK k \in Contexts : k.user = u /\ stage[r] = "idle" /\ Moves(r, "clear", k)
  <2> DEFINE locals == [Blank EXCEPT !.user = u, !.secret = setups + 1]
  <2>1. locals \in Contexts /\ locals.user = u
    BY <1>1, LocalsType
  <2>2. Arrive(r, "setup", locals, "clear") /\ "setup" \in Operations
    BY DEF SetupUpsert, Operations
  <2> HIDE DEF locals
  <2>. QED
    BY <2>1, <2>2, ArriveMoves DEF MfaInv
<1>3. /\ setting' \in [Users -> SettingTypes]
      /\ ~setting'[u].enabled
      /\ \A v \in Users : setting'[v].proved = setting[v].proved
      /\ \A v \in Users \ {u} : setting'[v] = setting[v]
  BY <1>1 DEF MfaInv, SettingInv, SettingTypes
<1>4. SettingInv' /\ OtherInv'
  BY <1>1, <1>3 DEF MfaInv, SettingInv, EnabledByProof, OtherInv
<1>5. CodeInv' /\ BatchesBounded' /\ CodeUsesBounded'
  BY <1>1, <1>2, CodesAlone DEF MfaInv, Stages
<1>6. RequestInv'
  BY <1>1, <1>2, <1>3, RequestKept DEF MfaInv, RowsGrow, Fits, Stages
<1>7. CodesInv'
  <2>1. \A v \in Users : Batches(v)' = Batches(v) /\ (Replacing(v) => Replacing(v)')
    BY <1>1, <1>2, MovesBasics DEF MfaInv, Batches, Replacing
  <2>2. Replacing(u)'
    BY <1>2, MovesBasics DEF MfaInv, Replacing
  <2>. QED
    BY <1>3, <2>1, <2>2 DEF MfaInv, CodesInv
<1>. QED
  BY <1>4, <1>5, <1>6, <1>7 DEF MfaInv

LEMMA VerifyReadKeeps ==
  ASSUME MfaInv, NEW r \in Requests, NEW u \in Users, VerifyRead(r, u)
  PROVE  MfaInv'
<1> DEFINE locals == [Blank EXCEPT !.user = u, !.secret = setting[u].secret]
<1>1. locals \in Contexts /\ locals.user = u /\ locals.secret = setting[u].secret
  BY LocalsType DEF MfaInv, SettingInv, SettingTypes
<1>2. Arrive(r, "verify", locals, "enable") /\ "verify" \in Operations
  BY DEF VerifyRead, Operations
<1> HIDE DEF locals
<1>3. PICK k \in Contexts :
        /\ k.user = u /\ k.secret = setting[u].secret
        /\ stage[r] = "idle" /\ Moves(r, "enable", k)
  BY <1>1, <1>2, ArriveMoves DEF MfaInv
<1>4. /\ setting' = [setting EXCEPT ![u].proved = @ \cup {setting[u].secret}]
      /\ UNCHANGED <<code, setups, workload>>
  BY DEF VerifyRead
<1>5. /\ setting' \in [Users -> SettingTypes]
      /\ setting'[u].proved = setting[u].proved \cup {setting[u].secret}
      /\ \A v \in Users : /\ setting'[v].secret = setting[v].secret
                          /\ setting'[v].enabled = setting[v].enabled
                          /\ setting'[v].overtaken = setting[v].overtaken
                          /\ setting'[v].excused = setting[v].excused
      /\ \A v \in Users \ {u} : setting'[v] = setting[v]
  BY <1>4 DEF MfaInv, SettingInv, SettingTypes
<1>6. SettingInv' /\ OtherInv'
  BY <1>4, <1>5 DEF MfaInv, SettingInv, EnabledByProof, OtherInv
<1>7. CodeInv' /\ BatchesBounded' /\ CodeUsesBounded'
  BY <1>3, <1>4, CodesAlone DEF MfaInv, Stages
<1>8. RequestInv'
  BY <1>3, <1>4, <1>5, RequestKept DEF MfaInv, RowsGrow, Fits, Stages
<1>9. CodesInv'
  <2>1. \A v \in Users : Batches(v)' = Batches(v) /\ (Replacing(v) => Replacing(v)')
    BY <1>3, <1>4, MovesBasics DEF MfaInv, Batches, Replacing
  <2>. QED
    BY <1>5, <2>1 DEF MfaInv, CodesInv
<1>. QED
  BY <1>6, <1>7, <1>8, <1>9 DEF MfaInv

\* The locals of a request, and that ending it needs nothing of them.
LEMMA Ends ==
  ASSUME RequestInv, NEW r \in Requests, stage[r] # "idle"
  PROVE  /\ ctx[r].user \in Users /\ ctx[r] \in Contexts /\ Fits(stage[r], ctx[r])
         /\ Blank \in Contexts /\ "idle" \in Stages
         /\ \A k : Fits("idle", k)'
BY BlankType DEF RequestInv, Fits, Stages

LEMMA EnableKeeps ==
  ASSUME MfaInv, NEW r \in Requests, Enable(r) PROVE MfaInv'
<1> DEFINE u == ctx[r].user
           row == setting[u]
<1>1. /\ stage[r] = "enable" /\ Moves(r, "idle", Blank)
      /\ UNCHANGED <<code, setups, workload>>
  BY MovesBasics DEF Enable, MfaInv, At
<1>2. u \in Users /\ ctx[r].secret \in row.proved /\ row \in SettingTypes
  BY <1>1, Ends DEF Fits, MfaInv, SettingInv
<1>3. setting' = [setting EXCEPT ![u] =
        [row EXCEPT !.enabled = row.secret # 0,
                    !.overtaken = row.overtaken \/ row.secret \notin {0, ctx[r].secret}]]
  BY <1>2 DEF Enable, MfaInv, SettingInv, SettingTypes
<1>4. /\ setting' \in [Users -> SettingTypes]
      /\ setting'[u].enabled = (row.secret # 0)
      /\ setting'[u].overtaken = (row.overtaken \/ row.secret \notin {0, ctx[r].secret})
      /\ \A v \in Users : /\ setting'[v].secret = setting[v].secret
                          /\ setting'[v].proved = setting[v].proved
                          /\ setting'[v].excused = setting[v].excused
      /\ \A v \in Users \ {u} : setting'[v] = setting[v]
  BY <1>2, <1>3 DEF MfaInv, SettingInv, SettingTypes
<1> HIDE DEF u, row
<1>5. SettingInv' /\ OtherInv'
  BY <1>1, <1>2, <1>4 DEF row, MfaInv, SettingInv, EnabledByProof, OtherInv
<1>6. CodeInv' /\ BatchesBounded' /\ CodeUsesBounded'
  BY <1>1, CodesAlone, BlankType DEF MfaInv, Stages
<1>7. RequestInv'
  BY <1>1, <1>4, Ends, RequestKept DEF MfaInv, RowsGrow
<1>8. CodesInv'
  <2>1. \A v \in Users : Batches(v)' = Batches(v) /\ (Replacing(v) => Replacing(v)')
    BY <1>1, MovesBasics DEF MfaInv, Batches, Replacing
  <2>. QED
    BY <1>4, <2>1 DEF MfaInv, CodesInv
<1>. QED
  BY <1>5, <1>6, <1>7, <1>8 DEF MfaInv

LEMMA DeleteSettingKeeps ==
  ASSUME MfaInv, NEW r \in Requests, DeleteSetting(r) PROVE MfaInv'
<1> DEFINE u == ctx[r].user
<1>1. /\ stage[r] = "delete" /\ Moves(r, "idle", Blank)
      /\ UNCHANGED <<code, setups, workload>>
  BY MovesBasics DEF DeleteSetting, MfaInv, At
<1>2. u \in Users
  BY <1>1, Ends DEF MfaInv
<1>3. setting' = [setting EXCEPT ![u].secret = 0, ![u].enabled = FALSE,
                                 ![u].overtaken = FALSE]
  BY DEF DeleteSetting
<1> HIDE DEF u
<1>4. /\ setting' \in [Users -> SettingTypes]
      /\ setting'[u].secret = 0 /\ ~setting'[u].enabled
      /\ \A v \in Users : setting'[v].proved = setting[v].proved
      /\ \A v \in Users \ {u} : setting'[v] = setting[v]
  <2>1. 0 \in Secrets
    BY MaxSetupsIsNatural DEF Secrets
  <2>. QED
    BY <1>2, <1>3, <2>1 DEF MfaInv, SettingInv, SettingTypes
<1>5. SettingInv' /\ OtherInv'
  BY <1>1, <1>4 DEF MfaInv, SettingInv, EnabledByProof, OtherInv
<1>6. CodeInv' /\ BatchesBounded' /\ CodeUsesBounded'
  BY <1>1, CodesAlone, BlankType DEF MfaInv, Stages
<1>7. RequestInv'
  BY <1>1, <1>4, Ends, RequestKept DEF MfaInv, RowsGrow
<1>8. CodesInv'
  <2>1. \A v \in Users : Batches(v)' = Batches(v) /\ (Replacing(v) => Replacing(v)')
    BY <1>1, MovesBasics DEF MfaInv, Batches, Replacing
  <2>. QED
    BY <1>4, <2>1 DEF MfaInv, CodesInv
<1>. QED
  BY <1>5, <1>6, <1>7, <1>8 DEF MfaInv

\* A request that stops with codes missing excuses that they are.
LEMMA StopKeeps ==
  ASSUME MfaInv, NEW r \in Requests, Stop(r) PROVE MfaInv'
<1>1. /\ stage[r] # "idle" /\ Moves(r, "idle", Blank)
      /\ UNCHANGED <<code, setups, workload>>
      /\ setting' = [u \in Users |->
           [setting[u] EXCEPT !.excused =
              @ \/ (ctx[r].user = u /\ stage[r] \in {"clear", "store"})]]
  BY MovesBasics DEF Stop, MfaInv, At
<1>2. \A u \in Users :
        /\ setting'[u] \in SettingTypes
        /\ setting'[u].secret = setting[u].secret
        /\ setting'[u].enabled = setting[u].enabled
        /\ setting'[u].proved = setting[u].proved
        /\ setting'[u].overtaken = setting[u].overtaken
        /\ setting[u].excused => setting'[u].excused
        /\ ctx[r].user = u /\ stage[r] \in {"clear", "store"} => setting'[u].excused
  BY <1>1 DEF MfaInv, SettingInv, SettingTypes
<1>3. SettingInv' /\ OtherInv'
  <2>1. setting' \in [Users -> SettingTypes]
    BY <1>1, <1>2
  <2>2. EnabledByProof'
    BY <1>2 DEF MfaInv, SettingInv, EnabledByProof
  <2>3. OtherInv'
    BY <1>1 DEF MfaInv, OtherInv
  <2>. QED
    BY <1>2, <2>1, <2>2, <2>3 DEF MfaInv, SettingInv
<1>4. CodeInv' /\ BatchesBounded' /\ CodeUsesBounded'
  BY <1>1, CodesAlone, BlankType DEF MfaInv, Stages
<1>5. RequestInv'
  BY <1>1, <1>2, Ends, RequestKept DEF MfaInv, RowsGrow
<1>6. CodesInv'
  <2>1. \A v \in Users : /\ Batches(v)' = Batches(v)
                         /\ Replacing(v) => Replacing(v)' \/ setting'[v].excused
    BY <1>1, <1>2, MovesBasics DEF MfaInv, Batches, Replacing
  <2>. QED
    BY <1>2, <2>1 DEF MfaInv, CodesInv
<1>. QED
  BY <1>3, <1>4, <1>5, <1>6 DEF MfaInv

-----------------------------------------------------------------------------
(* The steps that write the codes.                                         *)

LEMMA ClearCodesKeeps ==
  ASSUME MfaInv, NEW r \in Requests, ClearCodes(r) PROVE MfaInv'
<1>0. PICK k, u : k = ctx[r] /\ u = ctx[r].user
  OBVIOUS
<1>1. /\ stage[r] = "clear" /\ Moves(r, "store", k)
      /\ UNCHANGED <<setting, setups, workload>>
      /\ code' = [c \in Codes |->
                    IF c \in Batches(u) THEN [code[c] EXCEPT !.status = "gone"]
                    ELSE code[c]]
  BY <1>0, MovesBasics DEF ClearCodes, MfaInv, At
<1>2. u \in Users /\ k \in Contexts /\ k.user = u
  BY <1>0, <1>1, Ends DEF MfaInv
<1>3. \A c \in Codes :
        /\ code'[c] \in CodeTypes /\ code'[c].user = code[c].user
        /\ code'[c].uses = code[c].uses
        /\ code'[c].status = IF c \in Batches(u) THEN "gone" ELSE code[c].status
        /\ c \in Batches(u) <=> code[c].status = "live" /\ code[c].user = u
  BY <1>1 DEF MfaInv, CodeInv, CodeTypes, Batches
<1>4. /\ stage'[r] = "store" /\ ctx'[r] = k /\ k = ctx[r]
      /\ \A q \in Requests \ {r} : stage'[q] = stage[q] /\ ctx'[q] = ctx[q]
  BY <1>0, <1>1, MovesBasics DEF MfaInv
<1>5. CodeInv'
  <2>1. {c \in Codes : code'[c].status # "absent"} =
          {c \in Codes : code[c].status # "absent"}
    BY <1>3
  <2>2. code' \in [Codes -> CodeTypes]
    BY <1>1, <1>3
  <2>. QED
    BY <1>3, <2>1, <2>2 DEF MfaInv, CodeInv
<1>6. BatchesBounded'
  <2> SUFFICES ASSUME NEW v \in Users
               PROVE  Cardinality(Batches(v)') + Cardinality(Storing(v)')
                        <= Cardinality(Requests)
    BY DEF BatchesBounded
  <2>1. CASE v = u
    <3>1. Batches(v)' = {}
      BY <1>3, <2>1 DEF Batches
    <3>2. Storing(v)' \in SUBSET Requests
      BY DEF Storing
    <3>. QED
      BY <3>1, <3>2, RequestSets, FS_EmptySet
  <2>2. CASE v # u
    <3>1. Batches(v)' \subseteq Batches(v) /\ Storing(v)' \subseteq Storing(v)
      BY <1>2, <1>3, <1>4, <2>2 DEF Batches, Storing, At
    <3>. QED
      BY <3>1, BatchesKept DEF MfaInv, BatchesBounded
  <2>. QED
    BY <2>1, <2>2
<1>7. CodeUsesBounded'
  <2> SUFFICES ASSUME NEW c \in Codes
               PROVE  code'[c].uses + Cardinality(Spending(c)')
                   <= Cardinality(Requests)
    BY DEF CodeUsesBounded
  <2>1. code'[c].uses = code[c].uses /\ Spending(c)' \subseteq Spending(c)
    BY <1>1, <1>3, <1>4 DEF Spending, At
  <2>. QED
    BY <2>1, UsesKept DEF MfaInv, CodeUsesBounded
<1>8. RequestInv'
  <2>1. RowsGrow
    BY <1>1, <1>3 DEF RowsGrow
  <2>2. Fits("store", k)'
    BY <1>2 DEF Fits
  <2>. QED
    BY <1>1, <1>2, <2>1, <2>2, RequestKept DEF MfaInv, Stages
<1>9. CodesInv'
  <2>1. Replacing(u)'
    BY <1>2, <1>4 DEF Replacing
  <2>2. \A v \in Users \ {u} : Batches(v)' = Batches(v)
                          /\ (Replacing(v) => Replacing(v)')
    BY <1>2, <1>3, <1>4 DEF Batches, Replacing
  <2>. QED
    BY <1>1, <2>1, <2>2 DEF MfaInv, CodesInv
<1>. QED
  BY <1>1, <1>5, <1>6, <1>7, <1>8, <1>9
     DEF MfaInv, SettingInv, EnabledByProof, OtherInv

LEMMA StoreCodesKeeps ==
  ASSUME MfaInv, NEW r \in Requests, StoreCodes(r) PROVE MfaInv'
<1>0. PICK u, new : u = ctx[r].user /\ new = (CHOOSE c \in FreshCodes : TRUE)
  OBVIOUS
<1>1. /\ stage[r] = "store" /\ Moves(r, "idle", Blank)
      /\ UNCHANGED <<setups, workload>>
      /\ new \in Codes /\ code[new].status = "absent"
      /\ code' = [code EXCEPT ![new] = [status |-> "live", user |-> u, uses |-> 0]]
      /\ setting' = [setting EXCEPT ![u].excused = FALSE]
  BY <1>0, MovesBasics DEF StoreCodes, FreshCodes, MfaInv, At
<1>2. u \in Users
  BY <1>0, <1>1, Ends DEF MfaInv
<1>3. /\ code' \in [Codes -> CodeTypes]
      /\ code'[new] = [status |-> "live", user |-> u, uses |-> 0]
      /\ \A c \in Codes \ {new} : code'[c] = code[c]
  BY <1>1, <1>2 DEF MfaInv, CodeInv, CodeTypes
<1>4. /\ stage'[r] = "idle" /\ ctx'[r] = Blank
      /\ \A q \in Requests \ {r} : stage'[q] = stage[q] /\ ctx'[q] = ctx[q]
  BY <1>1, MovesBasics DEF MfaInv
<1>5. /\ setting' \in [Users -> SettingTypes]
      /\ \A v \in Users : /\ setting'[v].secret = setting[v].secret
                          /\ setting'[v].enabled = setting[v].enabled
                          /\ setting'[v].proved = setting[v].proved
                          /\ setting'[v].overtaken = setting[v].overtaken
      /\ \A v \in Users \ {u} : setting'[v] = setting[v]
  BY <1>1, <1>2 DEF MfaInv, SettingInv, SettingTypes
<1>6. CodeInv'
  <2>1. {c \in Codes : code'[c].status # "absent"} =
          {c \in Codes : code[c].status # "absent"} \cup {new}
    BY <1>1, <1>3
  <2>2. IsFiniteSet({c \in Codes : code'[c].status # "absent"})
    BY <2>1, FS_AddElement DEF MfaInv, CodeInv
  <2>. QED
    BY <1>2, <1>3, <2>2 DEF MfaInv, CodeInv
<1>7. BatchesBounded'
  <2> SUFFICES ASSUME NEW v \in Users
               PROVE  Cardinality(Batches(v)') + Cardinality(Storing(v)')
                        <= Cardinality(Requests)
    BY DEF BatchesBounded
  <2>1. CASE v = u
    <3>1. /\ Batches(v)' = Batches(v) \cup {new} /\ new \notin Batches(v)
          /\ Storing(v)' = Storing(v) \ {r} /\ r \in Storing(v)
      BY <1>0, <1>1, <1>3, <1>4, <2>1 DEF Batches, Storing, At
    <3>2. /\ IsFiniteSet(Batches(v)) /\ Cardinality(Batches(v)) \in Nat
          /\ IsFiniteSet(Storing(v)) /\ Cardinality(Storing(v)) \in Nat
      BY BatchesFinite, RequestSets DEF MfaInv, Storing
    <3>3. Cardinality(Batches(v)') = Cardinality(Batches(v)) + 1
      BY <3>1, <3>2, FS_AddElement
    <3>5. Cardinality(Storing(v)') = Cardinality(Storing(v)) - 1
      BY <3>1, <3>2, FS_RemoveElement
    <3>4. Cardinality(Requests) \in Nat
      BY RequestsAreFinite, FS_CardinalityType
    <3>. QED
      BY <3>2, <3>3, <3>4, <3>5 DEF MfaInv, BatchesBounded
  <2>2. CASE v # u
    <3>1. Batches(v)' \subseteq Batches(v) /\ Storing(v)' \subseteq Storing(v)
      BY <1>3, <1>4, <2>2 DEF Batches, Storing, At
    <3>. QED
      BY <3>1, BatchesKept DEF MfaInv, BatchesBounded
  <2>. QED
    BY <2>1, <2>2
<1>8. CodeUsesBounded'
  <2> SUFFICES ASSUME NEW c \in Codes
               PROVE  code'[c].uses + Cardinality(Spending(c)')
                   <= Cardinality(Requests)
    BY DEF CodeUsesBounded
  <2>1. /\ Spending(c)' \subseteq Spending(c)
        /\ code'[c].uses = code[c].uses \/ code'[c].uses = 0
    BY <1>3, <1>4 DEF Spending, At
  <2>. QED
    BY <2>1, UsesKept DEF MfaInv, CodeUsesBounded
<1>9. RequestInv'
  <2>1. RowsGrow
    BY <1>1, <1>3, <1>5 DEF RowsGrow
  <2>. QED
    BY <1>1, <2>1, Ends, RequestKept DEF MfaInv
<1>10. CodesInv'
  <2>1. Batches(u)' # {}
    BY <1>1, <1>3 DEF Batches
  <2>2. \A v \in Users \ {u} : /\ Batches(v) # {} => Batches(v)' # {}
                               /\ Replacing(v) => Replacing(v)'
    BY <1>0, <1>1, <1>3, <1>4 DEF Batches, Replacing
  <2>. QED
    BY <1>5, <2>1, <2>2 DEF MfaInv, CodesInv
<1>11. SettingInv' /\ OtherInv'
  BY <1>1, <1>5 DEF MfaInv, SettingInv, EnabledByProof, OtherInv
<1>. QED
  BY <1>6, <1>7, <1>8, <1>9, <1>10, <1>11 DEF MfaInv

LEMMA CodeSpendKeeps ==
  ASSUME MfaInv, NEW r \in Requests, CodeSpend(r) PROVE MfaInv'
<1> DEFINE u == ctx[r].user
           spent == ctx[r].code
<1>1. /\ stage[r] = "spend" /\ Moves(r, "idle", Blank)
      /\ UNCHANGED <<setups, workload>>
      /\ code' = [code EXCEPT ![spent].status = "gone",
                              ![spent].uses = UseCode(code[spent])]
      /\ setting' = [setting EXCEPT ![u].excused = TRUE]
  BY MovesBasics DEF CodeSpend, MfaInv, At
<1>2. /\ u \in Users /\ spent \in Codes
      /\ code[spent].status # "absent" /\ code[spent].user = u
  BY <1>1, Ends DEF MfaInv, Fits
<1>3. Cardinality(Requests) \in Nat
  BY RequestsAreFinite, FS_CardinalityType
<1>4. /\ UseCode(code[spent]) \in Nat
      /\ UseCode(code[spent]) <= code[spent].uses + 1
      /\ code[spent].uses \in Nat
  BY <1>2, <1>3 DEF UseCode, MfaInv, CodeInv, CodeTypes
<1> HIDE DEF u, spent
<1>5. /\ code' \in [Codes -> CodeTypes]
      /\ code'[spent].status = "gone" /\ code'[spent].user = u
      /\ code'[spent].uses = UseCode(code[spent])
      /\ \A c \in Codes \ {spent} : code'[c] = code[c]
  BY <1>1, <1>2, <1>4 DEF MfaInv, CodeInv, CodeTypes
<1>6. /\ stage'[r] = "idle" /\ ctx'[r] = Blank
      /\ \A q \in Requests \ {r} : stage'[q] = stage[q] /\ ctx'[q] = ctx[q]
  BY <1>1, MovesBasics DEF MfaInv
<1>7. /\ setting' \in [Users -> SettingTypes] /\ setting'[u].excused
      /\ \A v \in Users : /\ setting'[v].secret = setting[v].secret
                          /\ setting'[v].enabled = setting[v].enabled
                          /\ setting'[v].proved = setting[v].proved
                          /\ setting'[v].overtaken = setting[v].overtaken
      /\ \A v \in Users \ {u} : setting'[v] = setting[v]
  BY <1>1, <1>2 DEF MfaInv, SettingInv, SettingTypes
<1>8. CodeInv'
  <2>1. {c \in Codes : code'[c].status # "absent"} =
          {c \in Codes : code[c].status # "absent"}
    BY <1>2, <1>5
  <2>. QED
    BY <1>2, <1>5, <2>1 DEF MfaInv, CodeInv
<1>9. BatchesBounded'
  <2> SUFFICES ASSUME NEW v \in Users
               PROVE  Cardinality(Batches(v)') + Cardinality(Storing(v)')
                        <= Cardinality(Requests)
    BY DEF BatchesBounded
  <2>1. Batches(v)' \subseteq Batches(v) /\ Storing(v)' \subseteq Storing(v)
    BY <1>5, <1>6 DEF Batches, Storing, At
  <2>. QED
    BY <2>1, BatchesKept DEF MfaInv, BatchesBounded
<1>10. CodeUsesBounded'
  <2> SUFFICES ASSUME NEW c \in Codes
               PROVE  code'[c].uses + Cardinality(Spending(c)')
                   <= Cardinality(Requests)
    BY DEF CodeUsesBounded
  <2>1. CASE c = spent
    <3>1. Spending(c)' = Spending(c) \ {r} /\ r \in Spending(c)
      BY <1>1, <1>6, <2>1 DEF Spending, At, spent
    <3>2. IsFiniteSet(Spending(c)) /\ Cardinality(Spending(c)) \in Nat
      BY RequestSets DEF Spending
    <3>3. Cardinality(Spending(c)') = Cardinality(Spending(c)) - 1
      BY <3>1, <3>2, FS_RemoveElement
    <3>. QED
      BY <1>3, <1>4, <1>5, <2>1, <3>2, <3>3 DEF MfaInv, CodeUsesBounded
  <2>2. CASE c # spent
    <3>1. code'[c].uses = code[c].uses /\ Spending(c)' \subseteq Spending(c)
      BY <1>5, <1>6, <2>2 DEF Spending, At
    <3>. QED
      BY <3>1, UsesKept DEF MfaInv, CodeUsesBounded
  <2>. QED
    BY <2>1, <2>2
<1>11. RequestInv'
  <2>1. RowsGrow
    BY <1>2, <1>5, <1>7 DEF RowsGrow
  <2>. QED
    BY <1>1, <2>1, Ends, RequestKept DEF MfaInv
<1>12. CodesInv'
  <2>1. \A v \in Users \ {u} : Batches(v)' = Batches(v)
                          /\ (Replacing(v) => Replacing(v)')
    BY <1>1, <1>2, <1>5, <1>6 DEF Batches, Replacing
  <2>. QED
    BY <1>7, <2>1 DEF MfaInv, CodesInv
<1>13. SettingInv' /\ OtherInv'
  BY <1>1, <1>7 DEF MfaInv, SettingInv, EnabledByProof, OtherInv
<1>. QED
  BY <1>8, <1>9, <1>10, <1>11, <1>12, <1>13 DEF MfaInv

\* Every step of the module.
LEMMA MfaStepsKeep ==
  ASSUME MfaInv, NEW r \in Requests, MfaSteps(r) PROVE MfaInv'
BY SetupUpsertKeeps, VerifyReadKeeps, ReadKeeps, ClearCodesKeeps, StoreCodesKeeps,
   EnableKeeps, CodeFindKeeps, CodeWrongKeeps, CodeSpendKeeps, DeleteSettingKeeps
   DEF MfaSteps
=============================================================================

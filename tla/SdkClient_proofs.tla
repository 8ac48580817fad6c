---------------------------- MODULE SdkClient_proofs ----------------------------
(***************************************************************************)
(* Theorems of SdkClient, for any sets of calls and sessions, any workload *)
(* and any number of lost messages.                                        *)
(***************************************************************************)
EXTENDS SdkClient, TLAPS

-----------------------------------------------------------------------------
(* The inductive invariant, one part per concern.                          *)

RowTypes ==
  [status : {"absent", "active", "rotated", "ended"},
   root : Sessions \cup {None}, broken : BOOLEAN]

StoreTypes ==
  [access : Sessions \cup {None, Undefined},
   refresh : Sessions \cup {None, Undefined}, valid : BOOLEAN, late : BOOLEAN]

CallTypes ==
  [op : Ops, stage : Stages, token : Sessions \cup {None}, net : Nets,
   got : Sessions \cup {None}, overtaken : BOOLEAN]

\* A row the server inserted goes back to a login.
RowInv ==
  /\ session \in [Sessions -> RowTypes]
  /\ \A s \in Sessions :
       session[s].status # "absent" => session[s].root \in Sessions

\* Where the exchange of a call may be: only a call that was sent has one, only
\* one the server still works on is abandoned, a refresh has the token it was
\* given, and tokens are granted to logins and refreshes only.
Fits(k) ==
  /\ k.stage \in {"idle", "waiting", "resumed"} =>
       k.token = None /\ k.net = "none" /\ k.op \in {"none", "getMe"}
  /\ k.stage = "abandoned" => k.net \in Working
  /\ k.op \in Refreshes => k.token \in Sessions
  /\ k.net \in {"found", "revoked"} => k.op \in Refreshes
  /\ k.net = "granted" => k.op \in Refreshes \cup {"login"} /\ k.got \in Sessions

\* What a call says of the server's rows and of the last login: its token was
\* issued; a refresh that nothing overtook works for that login; one that was
\* given up is on record; and what is granted is usable and of the same login.
Holds(k, rows, last) ==
  /\ k.token \in Sessions => rows[k.token].status # "absent"
  /\ k.op \in Refreshes =>
       /\ k.stage = "request" => k.overtaken \/ rows[k.token].root = last
       /\ k.stage = "abandoned" => rows[k.token].broken
       /\ k.net = "granted" => rows[k.got].root = rows[k.token].root
  /\ k.net = "granted" => rows[k.got].status \in {"active", "ended"}

CallInv ==
  /\ call \in [Calls -> CallTypes]
  /\ \A c \in Calls : Fits(call[c]) /\ Holds(call[c], session, latest)

\* A refresh has revoked s on the server, and its answer is to come or is lost.
Replacing(k, s) ==
  /\ k.stage = "request" /\ k.op \in Refreshes /\ k.token = s
  /\ k.net \in {"revoked", "granted", "lost"}

\* What the client stores was issued to it; it is of the last login, unless it
\* came late; and if it was revoked for a new one, by a refresh that is still to
\* be answered, was given up or failed.
StoreInv ==
  /\ store \in StoreTypes
  /\ store.valid => store.access \in Sessions
  /\ store.refresh \in Sessions => session[store.refresh].status # "absent"
  /\ StoreIsLatest
  /\ store.refresh \in Sessions /\ session[store.refresh].status = "rotated" =>
       \/ session[store.refresh].broken
       \/ \E c \in Calls : Replacing(call[c], store.refresh)

\* A session on its way to the client is known to nobody yet.
FreshInv ==
  \A c \in Calls :
    call[c].net = "granted" =>
      /\ store.refresh # call[c].got
      /\ \A d \in Calls :
           /\ call[d].token # call[c].got
           /\ call[d].net = "granted" /\ d # c => call[d].got # call[c].got

\* refreshPromise stands for the automatic refresh in flight, and there is no
\* other; nobody waits without it.
PromiseInv ==
  /\ promise # None =>
       promise \in Calls /\ InFlight(promise) /\ call[promise].op = "auto"
  /\ \A c \in Calls : InFlight(c) /\ call[c].op = "auto" => c = promise
  /\ \A c \in Calls : call[c].stage = "waiting" => promise # None

OtherInv ==
  /\ latest \in Sessions \cup {None, Undefined}
  /\ lost \in 0..MaxLost
  /\ workload \in Workloads

IInv == RowInv /\ CallInv /\ StoreInv /\ FreshInv /\ PromiseInv /\ OtherInv

-----------------------------------------------------------------------------
(* The strengthened invariant contains what the runs check.                *)

LEMMA IInvImplies ==
  IInv => TypeOK /\ OneAutomaticRefresh /\ StoreIsLatest /\ StoreTokenUsable
<1>. SUFFICES ASSUME IInv
              PROVE  TypeOK /\ OneAutomaticRefresh /\ StoreIsLatest /\ StoreTokenUsable
  OBVIOUS
<1>1. TypeOK
  BY DEF IInv, RowInv, StoreInv, CallInv, PromiseInv, OtherInv, TypeOK, RowTypes,
         StoreTypes, CallTypes
<1>2. OneAutomaticRefresh
  BY DEF IInv, PromiseInv, OneAutomaticRefresh
<1>3. StoreIsLatest /\ StoreTokenUsable
  BY DEF IInv, StoreInv, StoreTokenUsable, Replacing, Refreshing, InFlight
<1>. QED
  BY <1>1, <1>2, <1>3

LEMMA NoCallFits ==
  /\ NoCall \in CallTypes
  /\ Fits(NoCall)
  /\ \A rows, last : Holds(NoCall, rows, last)
BY NothingIsASession
   DEF NoCall, CallTypes, Ops, Stages, Nets, Fits, Holds, Refreshes

LEMMA InitIInv == Init => IInv
<1>. SUFFICES ASSUME Init PROVE IInv
  OBVIOUS
<1>1. RowInv
  BY DEF Init, RowInv, RowTypes, NoSession
<1>2. CallInv
  BY NoCallFits DEF Init, CallInv
<1>3. StoreInv
  BY NothingIsASession
     DEF Init, StoreInv, StoreTypes, EmptyStore, StoreIsLatest, StoreRoot
<1>4. FreshInv /\ PromiseInv
  BY DEF Init, FreshInv, PromiseInv, NoCall, InFlight
<1>5. OtherInv
  BY MaxLostIsNatural DEF Init, OtherInv
<1>. QED
  BY <1>1, <1>2, <1>3, <1>4, <1>5 DEF IInv

-----------------------------------------------------------------------------
(* What the kinds of steps preserve.                                       *)

\* A row that was inserted stays, of the same login, and what was given up
\* stays on record.
RowsGrow ==
  \A s \in Sessions : session[s].status # "absent" =>
    /\ session'[s].status # "absent"
    /\ session'[s].root = session[s].root
    /\ session[s].broken => session'[s].broken

\* A call that a step leaves alone, or that a login or logout overtakes, still
\* says the truth.
LEMMA HoldsKept ==
  ASSUME CallInv, RowsGrow, NEW c \in Calls,
         \/ call[c].op \in Refreshes => call[c].overtaken
         \/ latest' = latest,
         call[c].net = "granted" =>
           session'[call[c].got].status \in {"active", "ended"}
  PROVE  Holds(call[c], session', latest')
<1>1. Fits(call[c]) /\ Holds(call[c], session, latest)
  BY DEF CallInv
<1>2. call[c].net = "granted" => session[call[c].got].status # "absent"
  BY <1>1 DEF Holds
<1>. QED
  BY <1>1, <1>2 DEF RowsGrow, Fits, Holds

LEMMA OvertakeFits ==
  ASSUME NEW calls \in [Calls -> CallTypes], NEW c \in Calls, Fits(calls[c])
  PROVE  LET k == Overtake(calls)[c]
         IN  /\ k \in CallTypes /\ Fits(k)
             /\ k.op \in Refreshes => k.overtaken
             /\ k.stage = calls[c].stage /\ k.op = calls[c].op
             /\ k.token = calls[c].token /\ k.net = calls[c].net
             /\ k.got = calls[c].got
BY DEF Overtake, CallTypes, Fits

\* Call c may become k while the rows, the store and the last login stay: k is
\* granted nothing new, has a token it had or takes the store's, and keeps a
\* refresh that was granted, even if its answer is lost.
Becomes(c, k) ==
  /\ k \in CallTypes /\ Fits(k) /\ Holds(k, session, latest)
  /\ k.net # "granted"
  /\ k.token \in {call[c].token, store.refresh, None}
  /\ \A s \in Sessions : Replacing(call[c], s) => Replacing(k, s)

LEMMA QuietStep ==
  ASSUME RowInv, CallInv, StoreInv, FreshInv,
         UNCHANGED <<session, store, latest>>,
         call' = [d \in Calls |-> call'[d]],
         \A c \in Calls : call'[c] = call[c] \/ Becomes(c, call'[c])
  PROVE  RowInv' /\ CallInv' /\ StoreInv' /\ FreshInv'
<1>1. RowInv'
  BY DEF RowInv
<1>2. CallInv'
  <2>1. \A c \in Calls : /\ call'[c] \in CallTypes /\ Fits(call'[c])
                         /\ Holds(call'[c], session, latest)
    BY DEF CallInv, Becomes
  <2>. QED
    BY <2>1 DEF CallInv
<1>3. StoreInv'
  <2>1. \A c \in Calls, s \in Sessions :
          Replacing(call[c], s) => Replacing(call'[c], s)
    BY DEF Becomes
  <2>2. StoreIsLatest'
    BY DEF StoreInv, StoreIsLatest, StoreRoot
  <2>. QED
    BY <2>1, <2>2 DEF StoreInv
<1>4. FreshInv'
  <2> SUFFICES ASSUME NEW c \in Calls, call'[c].net = "granted"
               PROVE  /\ store.refresh # call[c].got
                      /\ \A d \in Calls :
                           /\ call'[d].token # call[c].got
                           /\ call'[d].net = "granted" /\ d # c =>
                                call'[d].got # call[c].got
                      /\ call'[c] = call[c]
    BY DEF FreshInv
  <2>1. call'[c] = call[c] /\ call[c].got \in Sessions
    BY DEF Becomes, CallInv, Fits
  <2>. QED
    BY <2>1, NothingIsASession DEF FreshInv, Becomes
<1>. QED
  BY <1>1, <1>2, <1>3, <1>4

\* refreshPromise stays while the refresh it stands for goes on, and no other
\* call begins one or waits.
LEMMA PromiseKept ==
  ASSUME PromiseInv, promise' = promise,
         \A c \in Calls :
           \/ call'[c].stage = call[c].stage /\ call'[c].op = call[c].op
           \/ /\ c # promise /\ call'[c].stage # "waiting"
              /\ call'[c].stage = "request" => call'[c].op # "auto"
  PROVE  PromiseInv'
BY DEF PromiseInv, InFlight

\* A call takes a place that is free.
LEMMA FreePlace ==
  ASSUME NEW c, Free(c) PROVE c \in Calls /\ call[c].stage = "idle"
BY DEF Free, FreeCalls

\* A request may be sent with a token the client has.
LEMMA RequestFits ==
  ASSUME CallInv, StoreInv, NEW c \in Calls, call[c].stage \in {"idle", "resumed"},
         NEW op \in Ops \ {"none"}, NEW token \in {None, store.refresh},
         token \in Sessions \cup {None}, op \in Refreshes => token \in Sessions
  PROVE  Becomes(c, Request(op, token)) /\ Request(op, token).stage = "request"
         /\ Request(op, token).op = op
<1> DEFINE k == Request(op, token)
<1>1. /\ k.op = op /\ k.stage = "request" /\ k.token = token /\ k.net = "sent"
      /\ k.got = None /\ k.overtaken = (op \in Refreshes /\ store.late)
      /\ k \in CallTypes
  BY DEF Request, NoCall, CallTypes, Ops, Stages, Nets
<1>2. Fits(k)
  BY <1>1 DEF Fits
<1>3. Holds(k, session, latest)
  BY <1>1, NothingIsASession DEF Holds, StoreInv, StoreIsLatest, StoreRoot
<1>4. \A s : ~Replacing(call[c], s)
  BY DEF Replacing
<1>. QED
  BY <1>1, <1>2, <1>3, <1>4 DEF Becomes

LEMMA NoCallBecomes ==
  ASSUME NEW c \in Calls, \A s \in Sessions : ~Replacing(call[c], s)
  PROVE  Becomes(c, NoCall)
BY NoCallFits DEF Becomes, NoCall

\* One call goes on, and nothing else changes but perhaps refreshPromise.
LEMMA OneBecomes ==
  ASSUME IInv, NEW c \in Calls, NEW k, Becomes(c, k),
         call' = [call EXCEPT ![c] = k],
         UNCHANGED <<session, store, latest, workload>>, lost' \in 0..MaxLost
  PROVE  /\ RowInv' /\ CallInv' /\ StoreInv' /\ FreshInv' /\ OtherInv'
         /\ \A d \in Calls : call'[d] = IF d = c THEN k ELSE call[d]
<1>1. \A d \in Calls : call'[d] = IF d = c THEN k ELSE call[d]
  BY DEF IInv, CallInv
<1>2. RowInv' /\ CallInv' /\ StoreInv' /\ FreshInv'
  <2>1. call' = [d \in Calls |-> call'[d]]
    BY DEF IInv, CallInv
  <2>. QED
    BY <1>1, <2>1, QuietStep DEF IInv
<1>. QED
  BY <1>1, <1>2 DEF IInv, OtherInv

\* The same, when it has no part in an automatic refresh that others see.
LEMMA OneKeeps ==
  ASSUME IInv, NEW c \in Calls, NEW k, Becomes(c, k),
         call' = [call EXCEPT ![c] = k],
         UNCHANGED <<session, store, promise, latest, workload>>,
         lost' \in 0..MaxLost,
         \/ k.stage = call[c].stage /\ k.op = call[c].op
         \/ /\ c # promise /\ k.stage # "waiting"
            /\ k.stage = "request" => k.op # "auto"
  PROVE  IInv'
<1>1. /\ RowInv' /\ CallInv' /\ StoreInv' /\ FreshInv' /\ OtherInv'
      /\ \A d \in Calls : call'[d] = IF d = c THEN k ELSE call[d]
  BY OneBecomes
<1>2. PromiseInv'
  BY <1>1, PromiseKept DEF IInv
<1>. QED
  BY <1>1, <1>2 DEF IInv

-----------------------------------------------------------------------------
(* The client, up to an await.                                             *)

LEMMA SendOnlyKeeps ==
  ASSUME IInv, NEW c, NEW op \in Ops \ {"none", "auto"}, NEW token,
         token \in {None, store.refresh}, token \in Sessions \cup {None},
         op \in Refreshes => token \in Sessions, SendOnly(c, op, token)
  PROVE  IInv'
<1>1. c \in Calls /\ call[c].stage = "idle" /\ c # promise
  BY FreePlace, NoneIsNoCall DEF SendOnly, IInv, PromiseInv, InFlight
<1>2. Becomes(c, Request(op, token)) /\ Request(op, token).op = op
  BY <1>1, RequestFits DEF IInv
<1>3. lost' \in 0..MaxLost /\ Request(op, token).stage = "request"
  BY <1>1, RequestFits DEF SendOnly, IInv, OtherInv
<1> DEFINE k == Request(op, token)
<1>4. /\ call' = [call EXCEPT ![c] = k]
      /\ UNCHANGED <<session, store, promise, latest, workload>>
  BY DEF SendOnly
<1>5. k.stage # "waiting" /\ k.op # "auto"
  BY <1>2, <1>3
<1> HIDE DEF k
<1>. QED
  BY <1>1, <1>2, <1>3, <1>4, <1>5, OneKeeps DEF k

LEMMA LoginKeeps == ASSUME IInv, NEW c, Login(c) PROVE IInv'
BY SendOnlyKeeps DEF Login, Ops, Refreshes

LEMMA VerifyEmailKeeps == ASSUME IInv, NEW c, VerifyEmail(c) PROVE IInv'
BY SendOnlyKeeps DEF VerifyEmail, Ops, Refreshes

LEMMA GetMeKeeps == ASSUME IInv, NEW c, GetMe(c) PROVE IInv'
BY SendOnlyKeeps DEF GetMe, Ops, Refreshes

LEMMA RefreshTokensKeeps == ASSUME IInv, NEW c, RefreshTokens(c) PROVE IInv'
BY SendOnlyKeeps DEF RefreshTokens, HasRefreshToken, Ops, Refreshes

\* Call c may go on as k when a login or logout takes effect: it stays, ends,
\* or is given up, and then on record.
Leaves(c, k) ==
  \/ k = call[c]
  \/ k = NoCall
  \/ /\ k = [call[c] EXCEPT !.stage = "abandoned"]
     /\ call[c].net \in Working
     /\ call[c].op \in Refreshes => session'[call[c].token].broken

\* The exchange of a call is gone or goes on.
SameExchange(c) ==
  \/ call'[c].net = "none" /\ call'[c].token = None
  \/ /\ call'[c].net = call[c].net
     /\ call'[c].got = call[c].got
     /\ call'[c].token = call[c].token

LEMMA LeavesFits ==
  ASSUME CallInv, NEW c \in Calls, NEW k \in CallTypes, Leaves(c, k)
  PROVE  Fits(k)
<1>1. Fits(call[c]) /\ call[c] \in CallTypes
  BY DEF CallInv
<1>2. CASE /\ k = [call[c] EXCEPT !.stage = "abandoned"]
           /\ call[c].net \in Working
  BY <1>1, <1>2 DEF Fits, CallTypes
<1>. QED
  BY <1>1, <1>2, NoCallFits DEF Leaves

\* With a login or logout every refresh on its way is overtaken.
LEMMA OvertakeKeeps ==
  ASSUME IInv, NEW calls \in [Calls -> CallTypes], call' = Overtake(calls),
         \A c \in Calls : Leaves(c, calls[c]), RowsGrow,
         \A c \in Calls : call[c].net = "granted" =>
           session'[call[c].got].status \in {"active", "ended"}
  PROVE  /\ CallInv'
         /\ \A c \in Calls : SameExchange(c)
<1>1. ASSUME NEW c \in Calls
      PROVE  /\ call'[c] \in CallTypes /\ Fits(call'[c])
             /\ Holds(call'[c], session', latest')
             /\ SameExchange(c)
  <2>1. Fits(calls[c])
    BY LeavesFits DEF IInv
  <2> DEFINE k == call'[c]
  <2>2. /\ k \in CallTypes /\ Fits(k)
        /\ k.op \in Refreshes => k.overtaken
        /\ k.stage = calls[c].stage /\ k.op = calls[c].op
        /\ k.token = calls[c].token /\ k.net = calls[c].net
        /\ k.got = calls[c].got
    BY <2>1, OvertakeFits
  <2>3. Holds(call[c], session, latest) /\ Fits(call[c]) /\ call[c] \in CallTypes
    BY DEF IInv, CallInv
  <2>4. CASE calls[c] = NoCall
    BY <2>2, <2>4, NothingIsASession DEF NoCall, Holds, Refreshes, SameExchange
  <2>5. CASE calls[c] = call[c]
    BY <2>2, <2>3, <2>5 DEF Holds, RowsGrow, Fits, SameExchange
  <2>6. CASE /\ calls[c] = [call[c] EXCEPT !.stage = "abandoned"]
             /\ call[c].net \in Working
             /\ call[c].op \in Refreshes => session'[call[c].token].broken
    <3>1. /\ k.stage = "abandoned" /\ k.op = call[c].op /\ k.token = call[c].token
          /\ k.net = call[c].net /\ k.got = call[c].got
      BY <2>2, <2>3, <2>6 DEF CallTypes
    <3>. QED
      BY <2>2, <2>3, <2>6, <3>1 DEF Holds, RowsGrow, Fits, SameExchange
  <2>. QED
    BY <2>4, <2>5, <2>6 DEF Leaves
<1>. QED
  BY <1>1 DEF CallInv, Overtake

LEMMA FreshKept ==
  ASSUME FreshInv, CallInv, \A c \in Calls : SameExchange(c),
         \A c \in Calls : call'[c].net = "granted" => store'.refresh # call[c].got
  PROVE  FreshInv'
<1>1. \A c \in Calls : call[c].net = "granted" => call[c].got \in Sessions
  BY DEF CallInv, Fits
<1>. QED
  BY <1>1, NothingIsASession DEF FreshInv, SameExchange

\* An empty store is that of nobody logged in.
LEMMA EmptyStoreInv ==
  ASSUME store' = EmptyStore, latest' = None PROVE StoreInv'
BY NothingIsASession
   DEF StoreInv, StoreTypes, EmptyStore, StoreIsLatest, StoreRoot

LEMMA RowsAlone == ASSUME RowInv, UNCHANGED session PROVE RowInv' /\ RowsGrow
BY DEF RowInv, RowsGrow

LEMMA GrantedUsable ==
  ASSUME CallInv, UNCHANGED session, NEW c \in Calls, call[c].net = "granted"
  PROVE  session'[call[c].got].status \in {"active", "ended"}
BY DEF CallInv, Holds

\* A call that has ended, or was given up, and that no other waits for.
LEMMA LogoutReturnsKeeps ==
  ASSUME IInv, NEW c \in Calls, NEW k \in CallTypes, c # promise, Leaves(c, k),
         k.stage \in {"idle", "abandoned"},
         LogoutReturns(c, [call EXCEPT ![c] = k]),
         UNCHANGED <<session, promise, lost, workload>>
  PROVE  IInv'
<1> DEFINE calls == [call EXCEPT ![c] = k]
<1>1. /\ calls \in [Calls -> CallTypes]
      /\ \A d \in Calls : Leaves(d, calls[d])
      /\ \A d \in Calls : calls[d] = IF d = c THEN k ELSE call[d]
  BY DEF IInv, CallInv, Leaves
<1>2. call' = Overtake(calls) /\ store' = EmptyStore /\ latest' = None
  BY DEF LogoutReturns
<1> HIDE DEF calls
<1>3. RowInv' /\ RowsGrow
  BY RowsAlone DEF IInv
<1>4. CallInv' /\ \A d \in Calls : SameExchange(d)
  BY <1>1, <1>2, <1>3, OvertakeKeeps, GrantedUsable DEF IInv
<1>5. StoreInv' /\ OtherInv'
  BY <1>2, EmptyStoreInv DEF IInv, OtherInv
<1>6. \A d \in Calls : call[d].net = "granted" => call[d].got # None
  BY NothingIsASession DEF IInv, CallInv, Fits
<1>7. FreshInv'
  BY <1>2, <1>4, <1>6, FreshKept DEF IInv, EmptyStore, SameExchange
<1>8. PromiseInv'
  <2>1. ASSUME NEW d \in Calls
        PROVE  call'[d].stage = calls[d].stage /\ call'[d].op = calls[d].op
    BY <1>1, <1>2, LeavesFits, OvertakeFits DEF IInv
  <2>. QED
    BY <1>1, <2>1, PromiseKept DEF IInv
<1>. QED
  BY <1>3, <1>4, <1>5, <1>7, <1>8 DEF IInv

LEMMA LogoutKeeps == ASSUME IInv, NEW c, Logout(c) PROVE IInv'
<1>1. c \in Calls /\ call[c].stage = "idle" /\ c # promise
  BY FreePlace, NoneIsNoCall DEF Logout, IInv, PromiseInv, InFlight
<1>2. CASE HasRefreshToken
  <2> DEFINE k == Request("logout", store.refresh)
  <2>1. Becomes(c, k) /\ k.stage = "request" /\ k.op = "logout"
    BY <1>1, <1>2, RequestFits DEF HasRefreshToken, IInv, Ops, Refreshes
  <2>2. /\ call' = [call EXCEPT ![c] = k]
        /\ UNCHANGED <<session, store, promise, latest, workload>>
        /\ lost' \in 0..MaxLost
    BY <1>2 DEF Logout, IInv, OtherInv
  <2> HIDE DEF k
  <2>. QED
    BY <1>1, <2>1, <2>2, OneKeeps
<1>3. CASE ~HasRefreshToken
  <2>1. call' = Overtake([call EXCEPT ![c] = call[c]])
    BY <1>1, <1>3 DEF Logout, IInv, CallInv
  <2>2. LogoutReturns(c, [call EXCEPT ![c] = call[c]])
    BY <1>3, <2>1 DEF Logout, LogoutReturns
  <2>3. /\ call[c] \in CallTypes /\ Leaves(c, call[c])
        /\ UNCHANGED <<session, promise, lost, workload>>
    BY <1>1 DEF Logout, IInv, CallInv, Leaves
  <2>. QED
    BY <1>1, <2>2, <2>3, LogoutReturnsKeeps
<1>. QED
  BY <1>2, <1>3

LEMMA ReceiveLogoutKeeps ==
  ASSUME IInv, NEW c \in Calls, ReceiveLogout(c) PROVE IInv'
<1>1. c # promise
  BY NoneIsNoCall DEF ReceiveLogout, Answered, IInv, PromiseInv
<1>2. NoCall \in CallTypes /\ Leaves(c, NoCall) /\ NoCall.stage = "idle"
  BY NoCallFits DEF Leaves, NoCall
<1>. QED
  BY <1>1, <1>2, LogoutReturnsKeeps DEF ReceiveLogout

\* A refresh begins for all: no other is in flight.
LEMMA RefreshFirstKeeps == ASSUME IInv, NEW c, RefreshFirst(c) PROVE IInv'
<1>1. c \in Calls /\ call[c].stage = "idle"
  BY FreePlace DEF RefreshFirst
<1> DEFINE k == Request("auto", store.refresh)
<1>2. Becomes(c, k) /\ k.stage = "request" /\ k.op = "auto"
  BY <1>1, RequestFits DEF RefreshFirst, HasRefreshToken, IInv, Ops, Refreshes
<1>3. /\ call' = [call EXCEPT ![c] = k]
      /\ promise = None /\ promise' = c
      /\ UNCHANGED <<session, store, latest, workload>>
      /\ lost' \in 0..MaxLost
  BY DEF RefreshFirst, IInv, OtherInv
<1> HIDE DEF k
<1>4. /\ RowInv' /\ CallInv' /\ StoreInv' /\ FreshInv' /\ OtherInv'
      /\ \A d \in Calls : call'[d] = IF d = c THEN k ELSE call[d]
  BY <1>1, <1>2, <1>3, OneBecomes
<1>5. PromiseInv'
  BY <1>1, <1>2, <1>3, <1>4, NoneIsNoCall DEF IInv, PromiseInv, InFlight
<1>. QED
  BY <1>4, <1>5 DEF IInv

LEMMA JoinRefreshKeeps == ASSUME IInv, NEW c, JoinRefresh(c) PROVE IInv'
<1>1. c \in Calls /\ call[c].stage = "idle" /\ c # promise
  BY FreePlace, NoneIsNoCall DEF JoinRefresh, IInv, PromiseInv, InFlight
<1> DEFINE k == [NoCall EXCEPT !.op = "getMe", !.stage = "waiting"]
<1>2. /\ k.stage = "waiting" /\ k.op = "getMe" /\ k.token = None
      /\ k.net = "none" /\ k \in CallTypes
  BY DEF NoCall, CallTypes, Ops, Stages, Nets
<1>3. /\ call' = [call EXCEPT ![c] = k] /\ promise # None
      /\ UNCHANGED <<session, store, promise, latest, workload>>
      /\ lost' \in 0..MaxLost
  BY DEF JoinRefresh, IInv, OtherInv
<1> HIDE DEF k
<1>4. Becomes(c, k)
  BY <1>1, <1>2, NothingIsASession DEF Becomes, Fits, Holds, Refreshes, Replacing
<1>5. /\ RowInv' /\ CallInv' /\ StoreInv' /\ FreshInv' /\ OtherInv'
      /\ \A d \in Calls : call'[d] = IF d = c THEN k ELSE call[d]
  BY <1>1, <1>3, <1>4, OneBecomes
<1>6. PromiseInv'
  BY <1>1, <1>2, <1>3, <1>5 DEF IInv, PromiseInv, InFlight
<1>. QED
  BY <1>5, <1>6 DEF IInv

LEMMA ResumeKeeps == ASSUME IInv, NEW c \in Calls, Resume(c) PROVE IInv'
<1>1. call[c].stage = "resumed" /\ c # promise
  BY NoneIsNoCall DEF Resume, IInv, PromiseInv, InFlight
<1> DEFINE k == IF store.access \in Sessions THEN Request("getMe", None) ELSE NoCall
<1>2. Becomes(c, k) /\ k.stage \in {"request", "idle"} /\ k.op # "auto"
  <2>1. CASE store.access \in Sessions
    BY <1>1, <2>1, RequestFits DEF IInv, Ops, Refreshes
  <2>2. CASE store.access \notin Sessions
    BY <1>1, <2>2, NoCallBecomes DEF Replacing, NoCall
  <2>. QED
    BY <2>1, <2>2
<1>3. /\ call' = [call EXCEPT ![c] = k]
      /\ UNCHANGED <<session, store, promise, latest, workload>>
      /\ lost' \in 0..MaxLost
  BY DEF Resume, IInv, OtherInv
<1> HIDE DEF k
<1>. QED
  BY <1>1, <1>2, <1>3, OneKeeps

LEMMA AccessExpiresKeeps == ASSUME IInv, AccessExpires PROVE IInv'
<1>1. /\ store' = [store EXCEPT !.valid = FALSE]
      /\ UNCHANGED <<session, promise, call, latest, lost, workload>>
  BY DEF AccessExpires
<1>2. /\ store' \in StoreTypes /\ store'.refresh = store.refresh
      /\ store'.late = store.late /\ ~store'.valid
  BY <1>1 DEF IInv, StoreInv, StoreTypes
<1>3. RowInv' /\ CallInv' /\ FreshInv' /\ PromiseInv' /\ OtherInv'
  BY <1>1, <1>2 DEF IInv, RowInv, CallInv, FreshInv, PromiseInv, InFlight, OtherInv
<1>4. StoreInv'
  BY <1>1, <1>2 DEF IInv, StoreInv, StoreIsLatest, StoreRoot
<1>. QED
  BY <1>3, <1>4 DEF IInv

LEMMA OAuthKeeps == ASSUME IInv, HandleOAuthCallback PROVE IInv'
<1> DEFINE new == NextSession
<1>1. new \in Sessions /\ session[new].status = "absent"
  BY DEF HandleOAuthCallback, NextSession, Unissued
<1>2. /\ session' = [session EXCEPT ![new] = Issue(None)]
      /\ Issue(None) = [status |-> "active", broken |-> FALSE, root |-> new]
      /\ store' = [access |-> new, refresh |-> new, valid |-> TRUE, late |-> FALSE]
      /\ latest' = new /\ call' = Overtake(call)
      /\ UNCHANGED <<promise, lost, workload>>
  BY DEF HandleOAuthCallback, Issue
<1> HIDE DEF new
<1>3. RowInv' /\ RowsGrow
  BY <1>1, <1>2 DEF IInv, RowInv, RowTypes, RowsGrow
<1>4. StoreInv' /\ OtherInv'
  BY <1>1, <1>2, <1>3 DEF IInv, RowInv, StoreInv, StoreTypes, StoreIsLatest,
     StoreRoot, OtherInv
<1>5. \A c \in Calls : call[c].net = "granted" =>
        call[c].got # new /\ session'[call[c].got].status \in {"active", "ended"}
  BY <1>1, <1>2 DEF IInv, RowInv, CallInv, Fits, Holds
<1>6. CallInv' /\ \A c \in Calls : SameExchange(c)
  BY <1>2, <1>3, <1>5, OvertakeKeeps DEF Leaves, IInv, CallInv
<1>7. FreshInv'
  BY <1>2, <1>5, <1>6, FreshKept DEF IInv, SameExchange
<1>8. PromiseInv'
  BY <1>2, OvertakeFits, PromiseKept DEF IInv, CallInv
<1>. QED
  BY <1>3, <1>4, <1>6, <1>7, <1>8 DEF IInv

-----------------------------------------------------------------------------
(* The server and the network.                                             *)

\* What an answer makes of a call that can have one.
Told(k, net, s) ==
  IF k.stage = "abandoned" /\ net \notin Working THEN NoCall
  ELSE [k EXCEPT !.net = net, !.got = s]

LEMMA AnswerTells ==
  ASSUME CallInv, NEW c \in Calls, NEW net, NEW s, Answer(c, net, s)
  PROVE  call' = [call EXCEPT ![c] = Told(call[c], net, s)]
BY DEF Answer, Told, CallInv

\* An answer without tokens, or none.
LEMMA ToldBecomes ==
  ASSUME CallInv, NEW c \in Calls, NEW net \in {"found", "mfa", "refused", "lost"},
         call[c].net \in Answers \cup Working,
         net = "found" => call[c].op \in Refreshes,
         net = "lost" \/ call[c].net \in {"sent", "found"}
  PROVE  LET k == Told(call[c], net, None)
         IN  /\ Becomes(c, k)
             /\ \/ k.stage = call[c].stage /\ k.op = call[c].op
                \/ call[c].stage = "abandoned" /\ k = NoCall
<1> DEFINE k == [call[c] EXCEPT !.net = net, !.got = None]
<1>1. Fits(call[c]) /\ Holds(call[c], session, latest) /\ call[c] \in CallTypes
  BY DEF CallInv
<1>2. /\ k \in CallTypes
      /\ k.op = call[c].op /\ k.stage = call[c].stage /\ k.token = call[c].token
      /\ k.net = net /\ k.overtaken = call[c].overtaken
  BY <1>1 DEF CallTypes, Nets
<1> HIDE DEF k
<1>3. CASE call[c].stage = "abandoned" /\ net \notin Working
  BY <1>3, NoCallBecomes DEF Told, Replacing
<1>4. CASE ~(call[c].stage = "abandoned" /\ net \notin Working)
  <2>1. Fits(k) /\ Holds(k, session, latest)
    BY <1>1, <1>2, <1>4 DEF Fits, Holds, Answers, Working
  <2>2. \A s \in Sessions : Replacing(call[c], s) => Replacing(k, s)
    BY <1>2 DEF Replacing
  <2>3. Told(call[c], net, None) = k
    BY <1>4 DEF Told, k
  <2>. QED
    BY <1>2, <2>1, <2>2, <2>3 DEF Becomes
<1>. QED
  BY <1>3, <1>4

LEMMA TellKeeps ==
  ASSUME IInv, NEW c \in Calls, NEW net \in {"found", "mfa", "refused", "lost"},
         call[c].net \in Answers \cup Working,
         net = "found" => call[c].op \in Refreshes,
         net = "lost" \/ call[c].net \in {"sent", "found"},
         Answer(c, net, None), lost' \in 0..MaxLost,
         UNCHANGED <<session, store, promise, latest, workload>>
  PROVE  IInv'
<1> DEFINE k == Told(call[c], net, None)
<1>1. call' = [call EXCEPT ![c] = k]
  BY AnswerTells DEF IInv
<1>2. /\ Becomes(c, k)
      /\ \/ k.stage = call[c].stage /\ k.op = call[c].op
         \/ call[c].stage = "abandoned" /\ k = NoCall
  BY ToldBecomes DEF IInv
<1>3. call[c].stage = "abandoned" => c # promise
  BY NoneIsNoCall DEF IInv, PromiseInv, InFlight
<1> HIDE DEF k
<1>. QED
  BY <1>1, <1>2, <1>3, OneKeeps DEF NoCall

\* What a step of the server on call c makes of refreshPromise, whatever it
\* makes of the rows.
LEMMA ToldPromise ==
  ASSUME IInv, NEW c \in Calls, NEW net, NEW s, promise' = promise,
         call' = [call EXCEPT ![c] = Told(call[c], net, s)]
  PROVE  PromiseInv'
<1> DEFINE k == Told(call[c], net, s)
<1>1. \A d \in Calls : call'[d] = IF d = c THEN k ELSE call[d]
  BY DEF IInv, CallInv
<1>2. CASE k = NoCall /\ call[c].stage = "abandoned"
  <2> HIDE DEF k
  <2>1. c # promise
    BY <1>2, NoneIsNoCall DEF IInv, PromiseInv, InFlight
  <2>. QED
    BY <1>1, <1>2, <2>1, PromiseKept DEF IInv, NoCall
<1>3. CASE k = [call[c] EXCEPT !.net = net, !.got = s]
  <2>1. k.stage = call[c].stage /\ k.op = call[c].op
    BY <1>3 DEF IInv, CallInv, CallTypes
  <2> HIDE DEF k
  <2>. QED
    BY <1>1, <2>1, PromiseKept DEF IInv
<1>. QED
  BY <1>2, <1>3 DEF Told

\* The refresh c revokes its token, or fails, and is on record if it had
\* revoked it: its token was granted to nobody else.
LEMMA RevokedKeeps ==
  ASSUME IInv, NEW c \in Calls, NEW net \in {"revoked", "refused"},
         call[c].op \in Refreshes, call[c].net \in {"found", "revoked"},
         RowInv', Answer(c, net, None),
         net = "refused" => session'[call[c].token].broken,
         \A s \in Sessions :
           /\ session'[s].root = session[s].root
           /\ session[s].broken => session'[s].broken
           /\ \/ session'[s].status = session[s].status
              \/ /\ session'[s].status = "rotated" /\ session[s].status = "active"
                 /\ net = "revoked" /\ s = call[c].token,
         UNCHANGED <<store, promise, latest, lost, workload>>
  PROVE  IInv'
<1> DEFINE k == Told(call[c], net, None)
           kept == [call[c] EXCEPT !.net = net, !.got = None]
<1>1. /\ call' = [call EXCEPT ![c] = k]
      /\ \A d \in Calls : call'[d] = IF d = c THEN k ELSE call[d]
  BY AnswerTells DEF IInv, CallInv
<1>2. PromiseInv'
  BY <1>1, ToldPromise
<1>3. RowsGrow
  BY DEF RowsGrow
<1>4. Fits(call[c]) /\ Holds(call[c], session, latest) /\ call[c] \in CallTypes
  BY DEF IInv, CallInv
<1>5. \A d \in Calls : call[d].net = "granted" =>
        session'[call[d].got].status \in {"active", "ended"}
  <2> SUFFICES ASSUME NEW d \in Calls, call[d].net = "granted"
               PROVE  session'[call[d].got].status \in {"active", "ended"}
    OBVIOUS
  <2>1. call[d].got # call[c].token /\ call[d].got \in Sessions
    BY DEF IInv, FreshInv, CallInv, Fits
  <2>2. session[call[d].got].status \in {"active", "ended"}
    BY DEF IInv, CallInv, Holds
  <2>. QED
    BY <2>1, <2>2
<1>6. /\ kept \in CallTypes
      /\ kept.op = call[c].op /\ kept.stage = call[c].stage
      /\ kept.token = call[c].token /\ kept.net = net
      /\ kept.overtaken = call[c].overtaken
  BY <1>4 DEF CallTypes, Nets
<1>7. \/ k = kept /\ (kept.stage = "abandoned" => net = "revoked")
      \/ k = NoCall /\ call[c].stage = "abandoned"
  BY <1>6 DEF Told, Working
<1> HIDE DEF k, kept
<1>8. /\ k \in CallTypes /\ Fits(k) /\ Holds(k, session', latest')
      /\ k.net # "granted" /\ k.token \in {call[c].token, None}
  <2>1. CASE k = kept
    <3>1. Fits(k)
      BY <1>4, <1>6, <1>7, <2>1, NoCallFits DEF Fits, Working, NoCall
    <3>2. Holds(k, session', latest')
      BY <1>3, <1>4, <1>6, <2>1 DEF Fits, Holds, RowsGrow
    <3>. QED
      BY <1>6, <2>1, <3>1, <3>2
  <2>2. CASE k = NoCall
    BY <2>2, NoCallFits DEF NoCall
  <2>. QED
    BY <1>7, <2>1, <2>2
<1>9. CallInv'
  BY <1>1, <1>3, <1>5, <1>8, HoldsKept DEF IInv, CallInv
<1>10. FreshInv'
  BY <1>1, <1>8, NothingIsASession DEF IInv, FreshInv, CallInv, Fits
<1>11. StoreInv'
  <2>1. StoreIsLatest'
    BY DEF IInv, StoreInv, StoreIsLatest, StoreRoot
  <2>2. ASSUME NEW d \in Calls, NEW s \in Sessions, Replacing(call[d], s)
        PROVE  Replacing(call'[d], s) \/ session'[s].broken
    BY <1>1, <1>6, <1>7, <2>2 DEF Replacing
  <2>3. ASSUME net = "revoked"
        PROVE  \/ Replacing(call'[c], call[c].token)
               \/ session'[call[c].token].broken
    <3>1. call[c].stage \in {"request", "abandoned"} /\ call[c].token \in Sessions
      BY <1>4 DEF Fits, CallTypes, Stages
    <3>2. call[c].stage = "abandoned" => session[call[c].token].broken
      BY <1>4 DEF Holds
    <3>. QED
      BY <1>1, <1>6, <1>7, <2>3, <3>1, <3>2 DEF Replacing
  <2>. QED
    BY <1>3, <2>1, <2>2, <2>3 DEF IInv, StoreInv, RowsGrow
<1>. QED
  BY <1>2, <1>9, <1>10, <1>11 DEF IInv, OtherInv

\* The server inserts a row and tells the call: the row was unknown.
LEMMA GrantKeeps ==
  ASSUME IInv, NEW c \in Calls, NEW new \in Sessions, NEW root \in Sessions,
         session[new].status = "absent",
         session' = [session EXCEPT ![new] =
           [status |-> "active", broken |-> FALSE, root |-> root]],
         call[c].op \in Refreshes =>
           call[c].net = "revoked" /\ root = session[call[c].token].root,
         call[c].op \in Refreshes \cup {"login"},
         call[c].net \in {"sent", "revoked"},
         Answer(c, "granted", new),
         UNCHANGED <<store, promise, latest, lost, workload>>
  PROVE  IInv'
<1> DEFINE k == Told(call[c], "granted", new)
<1>1. /\ call' = [call EXCEPT ![c] = k]
      /\ \A d \in Calls : call'[d] = IF d = c THEN k ELSE call[d]
  BY AnswerTells DEF IInv, CallInv
<1>2. /\ session'[new] = [status |-> "active", broken |-> FALSE, root |-> root]
      /\ \A s \in Sessions \ {new} : session'[s] = session[s]
      /\ RowInv' /\ RowsGrow
  BY DEF IInv, RowInv, RowTypes, RowsGrow
<1>3. Fits(call[c]) /\ Holds(call[c], session, latest) /\ call[c] \in CallTypes
  BY DEF IInv, CallInv
<1>4. \A d \in Calls :
        /\ call[d].token # new
        /\ call[d].net = "granted" =>
             /\ call[d].got # new
             /\ session'[call[d].got].status \in {"active", "ended"}
  BY <1>2, NothingIsASession DEF IInv, CallInv, Holds, Fits
<1>5. /\ store.refresh \in Sessions => store.refresh # new
      /\ StoreIsLatest'
  BY <1>2 DEF IInv, StoreInv, StoreIsLatest, StoreRoot
<1>6. PromiseInv'
  BY <1>1, ToldPromise
<1>7. CASE call[c].stage = "abandoned"
  <2>1. k = NoCall
    BY <1>7 DEF Told, Working
  <2> HIDE DEF k
  <2>2. CallInv'
    BY <1>1, <1>2, <1>4, <2>1, NoCallFits, HoldsKept DEF IInv, CallInv
  <2>3. FreshInv'
    BY <1>1, <2>1, FreshKept DEF IInv, SameExchange, NoCall, FreshInv
  <2>4. \A d \in Calls, s \in Sessions :
          Replacing(call[d], s) => Replacing(call'[d], s)
    BY <1>1, <1>7 DEF Replacing
  <2>5. StoreInv'
    BY <1>2, <1>5, <2>4 DEF IInv, StoreInv
  <2>. QED
    BY <1>2, <1>6, <2>2, <2>3, <2>5 DEF IInv, OtherInv
<1>8. CASE call[c].stage # "abandoned"
  <2>1. /\ k \in CallTypes
        /\ k.op = call[c].op /\ k.stage = call[c].stage /\ k.token = call[c].token
        /\ k.net = "granted" /\ k.got = new /\ k.overtaken = call[c].overtaken
    BY <1>3, <1>8 DEF Told, CallTypes, Nets
  <2> HIDE DEF k
  <2>2. call[c].stage = "request"
    BY <1>3, <1>8 DEF Fits, CallTypes, Stages
  <2>3. Fits(k) /\ Holds(k, session', latest')
    BY <1>2, <1>3, <1>4, <2>1, <2>2 DEF Fits, Holds, RowsGrow
  <2>4. CallInv'
    BY <1>1, <1>2, <1>4, <2>1, <2>3, HoldsKept DEF IInv, CallInv
  <2>5. FreshInv'
    BY <1>1, <1>4, <1>5, <2>1 DEF IInv, FreshInv
  <2>6. \A d \in Calls, s \in Sessions :
          Replacing(call[d], s) => Replacing(call'[d], s)
    BY <1>1, <2>1 DEF Replacing
  <2>7. StoreInv'
    BY <1>2, <1>5, <2>6 DEF IInv, StoreInv
  <2>. QED
    BY <1>2, <1>6, <2>4, <2>5, <2>7 DEF IInv, OtherInv
<1>. QED
  BY <1>7, <1>8

LEMMA ServerLoginKeeps ==
  ASSUME IInv, NEW c \in Calls, ServerLogin(c) PROVE IInv'
<1>1. call[c].op = "login" /\ call[c].net = "sent" /\ call[c].op \notin Refreshes
  BY DEF ServerLogin, InNet, Refreshes
<1>2. CASE /\ Answer(c, "mfa", None) \/ Answer(c, "refused", None)
           /\ UNCHANGED session
  <2>1. /\ lost' \in 0..MaxLost
        /\ UNCHANGED <<store, promise, latest, workload>>
    BY DEF ServerLogin, IInv, OtherInv
  <2>. QED
    BY <1>1, <1>2, <2>1, TellKeeps DEF Working
<1>3. CASE /\ Unissued # {}
           /\ session' = [session EXCEPT ![NextSession] = Issue(None)]
           /\ Answer(c, "granted", NextSession)
  <2> DEFINE new == NextSession
  <2>1. new \in Sessions /\ session[new].status = "absent"
    BY <1>3 DEF NextSession, Unissued
  <2>2. /\ session' = [session EXCEPT ![new] =
             [status |-> "active", broken |-> FALSE, root |-> new]]
        /\ Answer(c, "granted", new)
    BY <1>3 DEF Issue
  <2> HIDE DEF new
  <2>. QED
    BY <1>1, <2>1, <2>2, GrantKeeps DEF ServerLogin
<1>. QED
  BY <1>2, <1>3 DEF ServerLogin

LEMMA ServerRevokeKeeps ==
  ASSUME IInv, NEW c \in Calls, ServerRevoke(c) PROVE IInv'
<1> DEFINE old == call[c].token
           row == session[old]
<1>1. /\ call[c].op \in Refreshes /\ call[c].net = "found"
      /\ old \in Sessions /\ row.status # "absent" /\ row.root \in Sessions
      /\ row \in RowTypes
  BY DEF ServerRevoke, IInv, CallInv, Fits, Holds, RowInv
<1>2. /\ session' = [session EXCEPT ![old].status =
                       IF row.status = "active" THEN "rotated" ELSE row.status]
      /\ Answer(c, "revoked", None)
      /\ UNCHANGED <<store, promise, latest, lost, workload>>
  BY DEF ServerRevoke
<1>3. /\ session'[old] = [row EXCEPT !.status =
                            IF row.status = "active" THEN "rotated" ELSE row.status]
      /\ \A s \in Sessions \ {old} : session'[s] = session[s]
      /\ session' = [s \in Sessions |-> session'[s]]
  BY <1>1, <1>2 DEF IInv, RowInv
<1>4. /\ session'[old].root = row.root
      /\ session'[old].broken = row.broken
      /\ \/ session'[old].status = row.status
         \/ session'[old].status = "rotated" /\ row.status = "active"
      /\ session'[old] \in RowTypes
  BY <1>1, <1>3 DEF RowTypes
<1> HIDE DEF old, row
<1>5. RowInv'
  <2>1. \A s \in Sessions : session'[s] \in RowTypes
    BY <1>3, <1>4 DEF IInv, RowInv
  <2>2. \A s \in Sessions : session'[s].status # "absent" => session'[s].root \in Sessions
    BY <1>1, <1>3, <1>4 DEF IInv, RowInv
  <2>. QED
    BY <1>3, <2>1, <2>2 DEF RowInv
<1>6. \A s \in Sessions :
        /\ session'[s].root = session[s].root
        /\ session'[s].broken = session[s].broken
        /\ \/ session'[s].status = session[s].status
           \/ session'[s].status = "rotated" /\ session[s].status = "active" /\ s = old
  BY <1>3, <1>4 DEF row
<1>. QED
  BY <1>1, <1>2, <1>5, <1>6, RevokedKeeps DEF old

LEMMA ServerInsertKeeps ==
  ASSUME IInv, NEW c \in Calls, ServerInsert(c) PROVE IInv'
<1> DEFINE new == NextSession
           root == session[call[c].token].root
<1>1. new \in Sessions /\ session[new].status = "absent"
  BY DEF ServerInsert, NextSession, Unissued
<1>2. call[c].op \in Refreshes /\ call[c].net = "revoked" /\ root \in Sessions
  BY DEF ServerInsert, IInv, CallInv, Fits, Holds, RowInv
<1>3. /\ session' = [session EXCEPT ![new] =
           [status |-> "active", broken |-> FALSE, root |-> root]]
      /\ Answer(c, "granted", new)
      /\ UNCHANGED <<store, promise, latest, lost, workload>>
  BY <1>2, NothingIsASession DEF ServerInsert, Issue
<1> HIDE DEF new
<1>. QED
  BY <1>1, <1>2, <1>3, GrantKeeps

LEMMA ServerFailsKeeps ==
  ASSUME IInv, NEW c \in Calls, ServerFails(c) PROVE IInv'
<1>1. /\ call[c].op \in Refreshes /\ call[c].net \in Working
      /\ call[c].token \in Sessions
      /\ Answer(c, "refused", None)
      /\ UNCHANGED <<store, promise, latest, lost, workload>>
  BY DEF ServerFails, IInv, CallInv, Fits
<1>2. CASE call[c].net # "revoked"
  <2>1. UNCHANGED session /\ lost' \in 0..MaxLost
    BY <1>2 DEF ServerFails, IInv, OtherInv
  <2>. QED
    BY <1>1, <1>2, <2>1, TellKeeps DEF Working
<1>3. CASE call[c].net = "revoked"
  <2>1. session' = [session EXCEPT ![call[c].token].broken = TRUE]
    BY <1>3 DEF ServerFails
  <2>2. /\ RowInv' /\ session'[call[c].token].broken
        /\ \A s \in Sessions : /\ session'[s].root = session[s].root
                               /\ session'[s].status = session[s].status
                               /\ session[s].broken => session'[s].broken
    BY <1>1, <2>1 DEF IInv, RowInv, RowTypes
  <2>. QED
    BY <1>1, <1>3, <2>2, RevokedKeeps
<1>. QED
  BY <1>2, <1>3

LEMMA ServerRefreshFindKeeps ==
  ASSUME IInv, NEW c \in Calls, ServerRefreshFind(c) PROVE IInv'
<1>1. /\ call[c].op \in Refreshes /\ call[c].net = "sent"
      /\ lost' \in 0..MaxLost
      /\ UNCHANGED <<session, store, promise, latest, workload>>
  BY DEF ServerRefreshFind, InNet, IInv, OtherInv
<1>2. Answer(c, "found", None) \/ Answer(c, "refused", None)
  BY DEF ServerRefreshFind
<1>. QED
  BY <1>1, <1>2, TellKeeps DEF Working

LEMMA ServerLogoutKeeps ==
  ASSUME IInv, NEW c \in Calls, ServerLogout(c) PROVE IInv'
BY TellKeeps DEF ServerLogout, InNet, Working, IInv, OtherInv

LEMMA LoseKeeps == ASSUME IInv, NEW c \in Calls, Lose(c) PROVE IInv'
<1>1. lost' \in 0..MaxLost
  BY MaxLostIsNatural DEF Lose, IInv, OtherInv
<1>. QED
  BY <1>1, TellKeeps DEF Lose

LEMMA ServerEndsKeeps ==
  ASSUME IInv, NEW s \in Sessions, ServerEnds(s) PROVE IInv'
<1>1. /\ session' = [session EXCEPT ![s].status = "ended"]
      /\ session[s].status = "active"
      /\ UNCHANGED <<store, promise, call, latest, lost, workload>>
  BY DEF ServerEnds
<1>2. RowInv' /\ RowsGrow
  BY <1>1 DEF IInv, RowInv, RowTypes, RowsGrow
<1>3. \A c \in Calls : call[c].net = "granted" =>
        session'[call[c].got].status \in {"active", "ended"}
  BY <1>1 DEF IInv, RowInv, CallInv, Fits, Holds, RowTypes
<1>4. CallInv'
  BY <1>1, <1>2, <1>3, HoldsKept DEF IInv, CallInv
<1>5. StoreInv'
  <2>1. StoreIsLatest'
    BY <1>1, <1>2 DEF IInv, StoreInv, StoreIsLatest, StoreRoot, RowsGrow
  <2>2. /\ session'[s].status = "ended"
        /\ \A x \in Sessions \ {s} : session'[x] = session[x]
    BY <1>1 DEF IInv, RowInv, RowTypes
  <2>. QED
    BY <1>1, <2>1, <2>2 DEF IInv, StoreInv
<1>6. FreshInv' /\ PromiseInv' /\ OtherInv'
  BY <1>1 DEF IInv, FreshInv, PromiseInv, InFlight, OtherInv
<1>. QED
  BY <1>2, <1>4, <1>5, <1>6 DEF IInv

-----------------------------------------------------------------------------
(* The client, when an answer arrives or the timer fires.                  *)

LEMMA ReceiveOtherKeeps ==
  ASSUME IInv, NEW c \in Calls, ReceiveOther(c) PROVE IInv'
<1>1. /\ call[c].op \notin Refreshes /\ c # promise
      /\ call' = [call EXCEPT ![c] = NoCall]
      /\ lost' \in 0..MaxLost
      /\ UNCHANGED <<session, store, promise, latest, workload>>
  BY NoneIsNoCall DEF ReceiveOther, Refreshes, IInv, PromiseInv, OtherInv
<1>2. Becomes(c, NoCall)
  BY <1>1, NoCallBecomes DEF Replacing
<1>. QED
  BY <1>1, <1>2, OneKeeps DEF NoCall

LEMMA ReceiveLoginKeeps ==
  ASSUME IInv, NEW c \in Calls, ReceiveLogin(c) PROVE IInv'
<1> DEFINE ended == [call EXCEPT ![c] = NoCall]
<1>1. /\ call[c].op = "login" /\ call[c].op \notin Refreshes /\ c # promise
      /\ call[c].net \in Answers
      /\ UNCHANGED <<session, promise, lost, workload>>
  BY NoneIsNoCall DEF ReceiveLogin, Answered, Refreshes, IInv, PromiseInv
<1>2. /\ ended \in [Calls -> CallTypes]
      /\ \A d \in Calls : ended[d] = IF d = c THEN NoCall ELSE call[d]
      /\ \A d \in Calls : Leaves(d, ended[d])
  BY NoCallFits DEF Leaves, IInv, CallInv
<1>3. RowInv' /\ RowsGrow
  BY <1>1, RowsAlone DEF IInv
<1>4. ASSUME call' = Overtake(ended)
      PROVE  /\ CallInv' /\ PromiseInv'
             /\ \A d \in Calls : SameExchange(d)
             /\ call'[c].net = "none"
  <2>1. CallInv' /\ \A d \in Calls : SameExchange(d)
    BY <1>1, <1>2, <1>3, <1>4, OvertakeKeeps, GrantedUsable DEF IInv
  <2>2. ASSUME NEW d \in Calls
        PROVE  /\ call'[d].stage = ended[d].stage /\ call'[d].op = ended[d].op
               /\ call'[d].net = ended[d].net
    BY <1>2, <1>4, LeavesFits, OvertakeFits DEF IInv
  <2>3. PromiseInv'
    BY <1>1, <1>2, <2>2, PromiseKept DEF IInv, NoCall
  <2>. QED
    BY <1>2, <2>1, <2>2, <2>3 DEF NoCall
<1>5. CASE call[c].net = "granted"
  <2>1. /\ store' = [access |-> call[c].got, refresh |-> call[c].got,
                     valid |-> TRUE, late |-> FALSE]
        /\ latest' = session[call[c].got].root
        /\ call' = Overtake(ended)
    BY <1>5 DEF ReceiveLogin
  <2>2. /\ call[c].got \in Sessions
        /\ session[call[c].got].status \in {"active", "ended"}
        /\ session[call[c].got].root \in Sessions
    BY <1>5 DEF IInv, CallInv, Fits, Holds, RowInv
  <2>3. StoreInv' /\ OtherInv'
    BY <1>1, <2>1, <2>2
       DEF IInv, OtherInv, StoreInv, StoreTypes, StoreIsLatest, StoreRoot
  <2>4. ASSUME NEW d \in Calls, call'[d].net = "granted"
        PROVE  call[c].got # call[d].got
    BY <1>4, <1>5, <2>1, <2>4, NothingIsASession DEF IInv, FreshInv, SameExchange
  <2>5. FreshInv'
    BY <1>4, <2>1, <2>4, FreshKept DEF IInv
  <2>. QED
    BY <1>3, <1>4, <2>1, <2>3, <2>5 DEF IInv
<1>6. CASE call[c].net = "mfa"
  <2>1. /\ store' = [access |-> Undefined, refresh |-> Undefined,
                     valid |-> FALSE, late |-> FALSE]
        /\ latest' = Undefined
        /\ call' = Overtake(ended)
    BY <1>6 DEF ReceiveLogin
  <2>2. StoreInv' /\ OtherInv'
    BY <1>1, <2>1, NothingIsASession
       DEF IInv, OtherInv, StoreInv, StoreTypes, StoreIsLatest, StoreRoot
  <2>3. FreshInv'
    BY <1>4, <2>1, FreshKept, NothingIsASession
       DEF IInv, CallInv, Fits, SameExchange
  <2>. QED
    BY <1>3, <1>4, <2>1, <2>2, <2>3 DEF IInv
<1>7. CASE call[c].net \notin {"granted", "mfa"}
  <2>1. /\ call' = [call EXCEPT ![c] = NoCall]
        /\ lost' \in 0..MaxLost
        /\ UNCHANGED <<store, latest>>
    BY <1>7 DEF ReceiveLogin, IInv, OtherInv
  <2>2. Becomes(c, NoCall)
    BY <1>1, NoCallBecomes DEF Replacing
  <2>. QED
    BY <1>1, <2>1, <2>2, OneKeeps DEF NoCall
<1>. QED
  BY <1>5, <1>6, <1>7

\* Who is woken goes on, without tokens.
Awake == [NoCall EXCEPT !.op = "getMe", !.stage = "resumed"]

LEMMA AwakeFits ==
  /\ Awake \in CallTypes /\ Fits(Awake)
  /\ \A rows, last : Holds(Awake, rows, last)
  /\ Awake.net = "none" /\ Awake.token = None /\ Awake.stage = "resumed"
BY NothingIsASession
   DEF Awake, NoCall, CallTypes, Ops, Stages, Nets, Fits, Holds, Refreshes

\* When a request ends as k, and the promise settles if it was its refresh,
\* a call stays as it is, ends, or goes on.
LEMMA SettleKeeps ==
  ASSUME IInv, NEW c \in Calls, call[c].stage = "request",
         NEW k \in CallTypes, k.stage \in {"idle", "abandoned"},
         NEW granted \in BOOLEAN, Settle(c, [call EXCEPT ![c] = k], granted)
  PROVE  /\ PromiseInv'
         /\ call' = [d \in Calls |-> call'[d]]
         /\ call'[c] \in {k, Awake}
         /\ \A d \in Calls \ {c} :
              \/ call'[d] = call[d]
              \/ call[d].stage = "waiting" /\ call'[d] \in {NoCall, Awake}
<1> DEFINE ended == [call EXCEPT ![c] = k]
<1>1. /\ ended = [d \in Calls |-> ended[d]]
      /\ \A d \in Calls : ended[d] = IF d = c THEN k ELSE call[d]
  BY DEF IInv, CallInv
<1>2. Settle(c, ended, granted)
  OBVIOUS
<1> HIDE DEF ended
<1>3. CASE call[c].op = "auto"
  <2>1. promise' = None /\ call' = Woken(ended, granted) /\ c = promise
    BY <1>2, <1>3 DEF Settle, IInv, PromiseInv, InFlight
  <2>2. /\ call' = [d \in Calls |-> call'[d]]
        /\ \A d \in Calls : call'[d] =
             IF ended[d].stage = "waiting" \/ (d = c /\ granted)
             THEN IF granted THEN Awake ELSE NoCall
             ELSE ended[d]
    BY <2>1 DEF Woken, Awake
  <2>3. /\ call'[c] \in {k, Awake}
        /\ \A d \in Calls \ {c} :
             \/ call'[d] = call[d] /\ call[d].stage # "waiting"
             \/ call[d].stage = "waiting" /\ call'[d] \in {NoCall, Awake}
    BY <1>1, <2>2
  <2>4. \A d \in Calls : /\ call'[d].stage # "waiting"
                         /\ ~(InFlight(d) /\ call[d].op = "auto")'
    <3>1. \A d \in Calls \ {c} : ~(InFlight(d) /\ call[d].op = "auto")
      BY <2>1 DEF IInv, PromiseInv
    <3>. QED
      BY <2>3, <3>1, AwakeFits DEF InFlight, NoCall
  <2>5. PromiseInv'
    BY <2>1, <2>4 DEF PromiseInv
  <2>. QED
    BY <2>2, <2>3, <2>5
<1>4. CASE call[c].op # "auto"
  <2>1. call' = ended /\ promise' = promise /\ c # promise
    BY <1>2, <1>4, NoneIsNoCall DEF Settle, IInv, PromiseInv
  <2>2. PromiseInv'
    BY <1>1, <2>1, PromiseKept DEF IInv
  <2>. QED
    BY <1>1, <2>1, <2>2
<1>. QED
  BY <1>3, <1>4

LEMMA ReceiveRefreshKeeps ==
  ASSUME IInv, NEW c \in Calls, ReceiveRefresh(c) PROVE IInv'
<1>1. /\ call[c].stage = "request" /\ call[c].op \in Refreshes
      /\ call[c].net \in Answers
      /\ UNCHANGED <<session, latest, lost, workload>>
  BY DEF ReceiveRefresh, Answered
<1>2. /\ NoCall \in CallTypes /\ NoCall.stage = "idle"
      /\ NoCall.net = "none" /\ NoCall.token = None
  BY NoCallFits DEF NoCall
<1>3. PICK granted \in BOOLEAN :
        /\ granted = (call[c].net = "granted")
        /\ Settle(c, [call EXCEPT ![c] = NoCall], granted)
        /\ IF granted THEN StorePair(c) ELSE UNCHANGED store
  BY DEF ReceiveRefresh
<1>4. /\ PromiseInv'
      /\ call' = [d \in Calls |-> call'[d]]
      /\ call'[c] \in {NoCall, Awake}
      /\ \A d \in Calls \ {c} :
           \/ call'[d] = call[d]
           \/ call[d].stage = "waiting" /\ call'[d] \in {NoCall, Awake}
  BY <1>1, <1>2, <1>3, SettleKeeps
<1>5. OtherInv'
  BY <1>1 DEF IInv, OtherInv
<1>6. CASE ~granted
  <2>1. \A d \in Calls : \/ call'[d] = call[d]
                         \/ /\ call'[d] \in {NoCall, Awake}
                            /\ \A s \in Sessions : ~Replacing(call[d], s)
    BY <1>1, <1>3, <1>4, <1>6 DEF Replacing, Answers
  <2>2. \A d \in Calls : call'[d] = call[d] \/ Becomes(d, call'[d])
    BY <1>2, <2>1, NoCallFits, AwakeFits DEF Becomes
  <2>3. RowInv' /\ CallInv' /\ StoreInv' /\ FreshInv'
    BY <1>1, <1>3, <1>4, <1>6, <2>2, QuietStep DEF IInv
  <2>. QED
    BY <1>4, <1>5, <2>3 DEF IInv
<1>7. CASE granted
  <2>1. /\ RowInv' /\ RowsGrow
        /\ \A d \in Calls : SameExchange(d)
    BY <1>1, <1>2, <1>4, RowsAlone, AwakeFits DEF IInv, SameExchange
  <2>2. CallInv'
    <3>1. \A d \in Calls : /\ call'[d] \in CallTypes /\ Fits(call'[d])
                           /\ Holds(call'[d], session, latest)
      BY <1>4, NoCallFits, AwakeFits DEF IInv, CallInv
    <3>. QED
      BY <1>1, <1>4, <3>1 DEF CallInv
  <2>3. /\ call[c].got \in Sessions
        /\ session[call[c].got].status \in {"active", "ended"}
        /\ session[call[c].got].root = session[call[c].token].root
        /\ call[c].overtaken \/ session[call[c].token].root = latest
        /\ call[c].overtaken \in BOOLEAN
    BY <1>1, <1>3, <1>7 DEF IInv, CallInv, Fits, Holds, CallTypes
  <2>4. store' = [access |-> call[c].got, refresh |-> call[c].got, valid |-> TRUE,
                  late |-> call[c].overtaken]
    BY <1>3, <1>7 DEF StorePair
  <2>5. StoreInv'
    BY <1>1, <2>3, <2>4 DEF StoreInv, StoreTypes, StoreIsLatest, StoreRoot
  <2>6. ASSUME NEW d \in Calls, call'[d].net = "granted"
        PROVE  call[c].got # call[d].got
    <3>1. d # c /\ call[d].net = "granted"
      BY <1>2, <1>4, <2>6, AwakeFits
    <3>. QED
      BY <1>3, <1>7, <3>1 DEF IInv, FreshInv
  <2>7. FreshInv'
    BY <2>1, <2>4, <2>6, FreshKept DEF IInv
  <2>. QED
    BY <1>4, <1>5, <2>1, <2>2, <2>5, <2>7 DEF IInv
<1>. QED
  BY <1>6, <1>7

\* What a request that is given up leaves behind.
LEMMA AbandonedFits ==
  ASSUME CallInv, NEW c \in Calls, call[c].stage = "request"
  PROVE  LET k == Abandoned(c)
         IN  /\ k \in CallTypes /\ Fits(k) /\ k.net # "granted"
             /\ k.token \in {call[c].token, None}
             /\ k.stage \in {"idle", "abandoned"}
             /\ \/ k = NoCall
                \/ /\ k = [call[c] EXCEPT !.stage = "abandoned"]
                   /\ call[c].net \in Working
<1>1. Fits(call[c]) /\ call[c] \in CallTypes
  BY DEF CallInv
<1> DEFINE k == [call[c] EXCEPT !.stage = "abandoned"]
<1>2. CASE /\ call[c].net \in Working
           /\ call[c].op \in Refreshes \cup {"login"}
  <2>1. /\ k.op = call[c].op /\ k.token = call[c].token /\ k.net = call[c].net
        /\ k.stage = "abandoned" /\ k \in CallTypes
    BY <1>1 DEF CallTypes, Stages
  <2>2. Abandoned(c) = k
    BY <1>2 DEF Abandoned
  <2> HIDE DEF k
  <2>3. Fits(k)
    BY <1>1, <1>2, <2>1 DEF Fits, Working
  <2>. QED
    BY <1>2, <2>1, <2>2, <2>3 DEF k, Working
<1>3. CASE ~(/\ call[c].net \in Working
             /\ call[c].op \in Refreshes \cup {"login"})
  BY <1>3, NoCallFits DEF Abandoned, NoCall
<1>. QED
  BY <1>2, <1>3

LEMMA GiveUpKeeps == ASSUME IInv, NEW c \in Calls, GiveUp(c) PROVE IInv'
<1> DEFINE k == Abandoned(c)
<1>1. /\ call[c].stage = "request"
      /\ UNCHANGED <<lost, workload>>
      /\ session' = IF call[c].op \in Refreshes
                    THEN [session EXCEPT ![call[c].token].broken = TRUE]
                    ELSE session
  BY DEF GiveUp, TimerFires
<1>2. /\ k \in CallTypes /\ Fits(k) /\ k.net # "granted"
      /\ k.token \in {call[c].token, None}
      /\ k.stage \in {"idle", "abandoned"}
      /\ \/ k = NoCall
         \/ /\ k = [call[c] EXCEPT !.stage = "abandoned"]
            /\ call[c].net \in Working
  BY <1>1, AbandonedFits DEF IInv
<1>3. CASE call[c].op = "logout"
  <2>1. /\ LogoutReturns(c, [call EXCEPT ![c] = k])
        /\ UNCHANGED <<session, promise, lost, workload>>
    BY <1>1, <1>3 DEF GiveUp, Refreshes
  <2>2. c # promise
    BY <1>3, NoneIsNoCall DEF IInv, PromiseInv
  <2>3. Leaves(c, k)
    BY <1>2, <1>3 DEF Leaves, Refreshes
  <2> HIDE DEF k
  <2>. QED
    BY <1>2, <2>1, <2>2, <2>3, LogoutReturnsKeeps
<1>4. CASE call[c].op # "logout"
  <2>1. Settle(c, [call EXCEPT ![c] = k], FALSE) /\ UNCHANGED <<store, latest>>
    BY <1>4 DEF GiveUp
  <2> HIDE DEF k
  <2>2. /\ PromiseInv'
        /\ call' = [d \in Calls |-> call'[d]]
        /\ call'[c] \in {k, Awake}
        /\ \A d \in Calls \ {c} :
             \/ call'[d] = call[d]
             \/ call[d].stage = "waiting" /\ call'[d] \in {NoCall, Awake}
    BY <1>1, <1>2, <2>1, SettleKeeps
  <2>3. /\ RowInv' /\ RowsGrow
        /\ \A s \in Sessions : /\ session'[s].status = session[s].status
                               /\ session'[s].root = session[s].root
        /\ call[c].op \in Refreshes => session'[call[c].token].broken
    BY <1>1 DEF IInv, RowInv, RowTypes, RowsGrow, CallInv, Fits
  <2>4. ASSUME NEW d \in Calls
        PROVE  /\ call'[d] \in CallTypes /\ Fits(call'[d])
               /\ Holds(call'[d], session', latest') /\ SameExchange(d)
               /\ call'[d].net = "granted" => call'[d] = call[d]
    <3>1. Fits(call[d]) /\ Holds(call[d], session, latest) /\ call[d] \in CallTypes
      BY DEF IInv, CallInv
    <3>2. CASE call'[d] \in {NoCall, Awake}
      <4>1. /\ call'[d] \in CallTypes /\ Fits(call'[d])
            /\ Holds(call'[d], session', latest')
        BY <3>2, NoCallFits, AwakeFits
      <4>2. call'[d].net = "none" /\ call'[d].token = None
        BY <3>2, AwakeFits DEF NoCall
      <4>. QED
        BY <4>1, <4>2 DEF SameExchange
    <3>3. CASE call'[d] = call[d]
      <4>1. call[d].net = "granted" =>
              session'[call[d].got].status \in {"active", "ended"}
        BY <2>3, <3>1 DEF Fits, Holds
      <4>2. Holds(call[d], session', latest')
        BY <2>1, <2>3, <4>1, HoldsKept DEF IInv
      <4>. QED
        BY <3>1, <3>3, <4>2 DEF SameExchange
    <3>4. CASE d = c /\ call'[c] = [call[c] EXCEPT !.stage = "abandoned"]
                    /\ call[c].net \in Working
      <4>1. /\ k = call'[c]
            /\ k.stage = "abandoned" /\ k.op = call[c].op /\ k.net = call[c].net
            /\ k.token = call[c].token /\ k.got = call[c].got
        BY <2>2, <3>1, <3>4, AwakeFits DEF CallTypes
      <4>2. Holds(k, session', latest')
        BY <2>3, <3>1, <3>4, <4>1 DEF Holds, RowsGrow, Working
      <4>. QED
        BY <1>2, <3>4, <4>1, <4>2 DEF SameExchange, Working
    <3>. QED
      BY <1>2, <2>2, <3>2, <3>3, <3>4
  <2>5. CallInv' /\ FreshInv'
    <3>1. CallInv'
      BY <2>2, <2>4 DEF CallInv
    <3>2. FreshInv'
      BY <2>1, <2>4, FreshKept DEF IInv, FreshInv
    <3>. QED
      BY <3>1, <3>2
  <2>6. StoreInv'
    <3>1. StoreIsLatest'
      BY <2>1, <2>3 DEF IInv, StoreInv, StoreIsLatest, StoreRoot
    <3>2. ASSUME NEW d \in Calls, NEW s \in Sessions, Replacing(call[d], s)
          PROVE  Replacing(call'[d], s) \/ session'[s].broken
      BY <2>2, <2>3, <3>2 DEF Replacing
    <3>3. \A s \in Sessions : session[s].broken /\ session[s].status # "absent" =>
            session'[s].broken
      BY <2>3 DEF RowsGrow
    <3>. QED
      BY <2>1, <2>3, <3>1, <3>2, <3>3 DEF IInv, StoreInv
  <2>. QED
    BY <1>1, <2>1, <2>2, <2>3, <2>5, <2>6 DEF IInv, OtherInv
<1>. QED
  BY <1>3, <1>4

-----------------------------------------------------------------------------
(* The theorems.                                                           *)

LEMMA NextKeeps == IInv /\ [Next]_vars => IInv'
<1> SUFFICES ASSUME IInv, [Next]_vars PROVE IInv'
  OBVIOUS
<1>1. ASSUME NEW c \in Calls, Client(c) PROVE IInv'
  BY <1>1, LoginKeeps, VerifyEmailKeeps, LogoutKeeps, RefreshTokensKeeps,
     GetMeKeeps, RefreshFirstKeeps, JoinRefreshKeeps, ResumeKeeps,
     ReceiveLoginKeeps, ReceiveRefreshKeeps, ReceiveLogoutKeeps,
     ReceiveOtherKeeps, GiveUpKeeps DEF Client
<1>2. ASSUME NEW c \in Calls, Server(c) \/ Lose(c) PROVE IInv'
  BY <1>2, ServerLoginKeeps, ServerRefreshFindKeeps, ServerRevokeKeeps,
     ServerInsertKeeps, ServerFailsKeeps, ServerLogoutKeeps, LoseKeeps DEF Server
<1>3. CASE UNCHANGED vars
  BY <1>3 DEF vars, IInv, RowInv, CallInv, StoreInv, StoreIsLatest, StoreRoot,
     FreshInv, PromiseInv, InFlight, OtherInv
<1>. QED
  BY <1>1, <1>2, <1>3, ServerEndsKeeps, AccessExpiresKeeps, OAuthKeeps DEF Next

\* The inductive invariant, for any numbers of calls, sessions and losses.
THEOREM Inductive == Spec => []IInv
BY InitIInv, NextKeeps, PTL DEF Spec

\* Types, and that refreshPromise is set exactly while its refresh is in flight.
THEOREM TypeSafe == Spec => []TypeOK
BY Inductive, IInvImplies, PTL

\* ensureTokenRefreshed: one automatic refresh at a time, however many calls
\* find the access token expired.
THEOREM SingleRefresh == Spec => []OneAutomaticRefresh
BY Inductive, IInvImplies, PTL

\* The store is of the last login, or was filled by a refresh that a login or
\* logout overtook.
THEOREM LastLogin == Spec => []StoreIsLatest
BY Inductive, IInvImplies, PTL

\* The refresh token in the store is not one the server has rotated, unless the
\* refresh that had it revoked is in flight, was given up or failed there: of
\* the server, the revocation and the insertion are separate steps here.
THEOREM Usable == Spec => []StoreTokenUsable
BY Inductive, IInvImplies, PTL
====

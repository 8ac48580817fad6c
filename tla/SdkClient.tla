------------------------------- MODULE SdkClient -------------------------------
(***************************************************************************)
(* GriffonClient of @griffon/js: an in-memory token store shared by all    *)
(* calls in flight, the automatic refresh before a request whose access    *)
(* token has expired, and what the server makes of each call.              *)
(*                                                                         *)
(* A call runs alone between two awaits.  Its request, and the server's    *)
(* work on it, go on when the caller gives up.  The access and the refresh *)
(* token the server issues together are named by their session, so a       *)
(* refresh, which rotates, moves the store from one session to the next.   *)
(* Of the other calls of the client, which only pass on an answer, getMe   *)
(* stands for those that need a token, verifyEmail for those that do not.  *)
(***************************************************************************)
EXTENDS Naturals, FiniteSets

CONSTANTS
  Calls,      \* calls in flight at once
  Sessions,   \* refresh_tokens rows the server may insert for this client
  MaxLost,    \* how many requests or answers the network may lose
  Workloads,  \* each a set of things that happen in one behaviour
  None,       \* null
  Undefined   \* undefined: what login stores of an answer without tokens

ASSUME NothingIsASession == None \notin Sessions /\ Undefined \notin Sessions
ASSUME NoneIsNoCall == None \notin Calls
ASSUME MaxLostIsNatural == MaxLost \in Nat

VARIABLES
  session,  \* session[s]: the server's row
  store,    \* the TokenStore
  promise,  \* refreshPromise: the call that refreshes for all, or None
  call,     \* call[c]: a call and its HTTP exchange
  latest,   \* history: what the last login that was answered logged in to
  lost,     \* requests and answers lost so far
  workload  \* what happens in this behaviour; never changes

vars == <<session, store, promise, call, latest, lost, workload>>

\* root is history: the session the login inserted that this one goes back
\* to.  broken is history too: a refresh with it was given up, or failed on
\* the server when it had revoked it.
NoSession == [status |-> "absent", root |-> None, broken |-> FALSE]

\* late is history: filled by a refresh that a login or logout had overtaken,
\* or that goes back to one.
EmptyStore == [access |-> None, refresh |-> None, valid |-> FALSE, late |-> FALSE]

\* net is where the exchange is; got, the session an answer carries.
NoCall ==
  [op |-> "none", stage |-> "idle", token |-> None, net |-> "none",
   got |-> None, overtaken |-> FALSE]

Ops == {"none", "login", "logout", "getMe", "refresh", "auto", "verifyEmail"}
Stages == {"idle", "waiting", "resumed", "request", "abandoned"}
Nets ==
  {"none", "sent", "found", "revoked", "granted", "mfa", "done", "refused", "lost"}
Answers == {"granted", "mfa", "done", "refused"}

\* The server has the request and is not done with it.
Working == {"sent", "found", "revoked"}
Refreshes == {"refresh", "auto"}

Init ==
  /\ session = [s \in Sessions |-> NoSession]
  /\ store = EmptyStore
  /\ promise = None
  /\ call = [c \in Calls |-> NoCall]
  /\ latest = None
  /\ lost = 0
  /\ workload \in Workloads

Unissued == {s \in Sessions : session[s].status = "absent"}
NextSession == CHOOSE s \in Unissued : TRUE

\* The session that a row the server inserts goes back to: its own, or root.
Issue(root) ==
  [status |-> "active", broken |-> FALSE,
   root |-> IF root = None THEN NextSession ELSE root]

-----------------------------------------------------------------------------
(* The client, up to an await.                                             *)

\* A call takes a fixed one of the free places: nothing depends on which.
FreeCalls == {c \in Calls : call[c].stage = "idle"}
Free(c) == FreeCalls # {} /\ c = CHOOSE d \in FreeCalls : TRUE

Request(op, token) ==
  [NoCall EXCEPT !.op = op, !.stage = "request", !.token = token, !.net = "sent",
                 !.overtaken = op \in Refreshes /\ store.late]

SendOnly(c, op, token) ==
  /\ op \in workload
  /\ Free(c)
  /\ call' = [call EXCEPT ![c] = Request(op, token)]
  /\ UNCHANGED <<session, store, promise, latest, lost, workload>>

Login(c) == SendOnly(c, "login", None)

VerifyEmail(c) == SendOnly(c, "verifyEmail", None)

\* A login or logout has taken effect: refreshes on their way are overtaken.
Overtake(calls) ==
  [c \in Calls |-> IF calls[c].op \in Refreshes
                   THEN [calls[c] EXCEPT !.overtaken = TRUE] ELSE calls[c]]

HasRefreshToken == store.refresh \in Sessions

\* Without a refresh token there is no request, and nothing to wait for.
Logout(c) ==
  /\ "logout" \in workload
  /\ Free(c)
  /\ IF HasRefreshToken
     THEN /\ call' = [call EXCEPT ![c] = Request("logout", store.refresh)]
          /\ UNCHANGED <<store, latest>>
     ELSE /\ store' = EmptyStore
          /\ latest' = None
          /\ call' = Overtake(call)
  /\ UNCHANGED <<session, promise, lost, workload>>

\* refreshTokens, called by the program itself.
RefreshTokens(c) ==
  /\ HasRefreshToken
  /\ SendOnly(c, "refresh", store.refresh)

\* authenticatedRequest with an access token that is still valid.
GetMe(c) ==
  /\ store.valid
  /\ SendOnly(c, "getMe", None)

\* Seeded fault: every call begins a refresh of its own.
RefreshFirstAlways(c) ==
  /\ "getMe" \in workload
  /\ ~store.valid
  /\ HasRefreshToken
  /\ Free(c)
  /\ call' = [call EXCEPT ![c] = Request("auto", store.refresh)]
  /\ promise' = c
  /\ UNCHANGED <<session, store, latest, lost, workload>>

\* ensureTokenRefreshed begins a refresh, if there is a token for it, and the
\* call that began it waits for it like the others ...
RefreshFirst(c) ==
  /\ "getMe" \in workload
  /\ ~store.valid
  /\ promise = None
  /\ HasRefreshToken
  /\ Free(c)
  /\ call' = [call EXCEPT ![c] = Request("auto", store.refresh)]
  /\ promise' = c
  /\ UNCHANGED <<session, store, latest, lost, workload>>

\* ... or waits for the one under way.
JoinRefresh(c) ==
  /\ "getMe" \in workload
  /\ ~store.valid
  /\ promise # None
  /\ Free(c)
  /\ call' = [call EXCEPT ![c] = [NoCall EXCEPT !.op = "getMe",
                                               !.stage = "waiting"]]
  /\ UNCHANGED <<session, store, promise, latest, lost, workload>>

\* The refresh was answered: the request is sent, with the token that is in
\* the store by now, or refused here for want of one.
Resume(c) ==
  /\ call[c].stage = "resumed"
  /\ call' = [call EXCEPT ![c] = IF store.access \in Sessions
                                 THEN Request("getMe", None) ELSE NoCall]
  /\ UNCHANGED <<session, store, promise, latest, lost, workload>>

\* Thirty seconds before the access token expires.
AccessExpires ==
  /\ store.valid
  /\ store' = [store EXCEPT !.valid = FALSE]
  /\ UNCHANGED <<session, promise, call, latest, lost, workload>>

\* The redirect of an OAuth login brings the tokens of a new session.
HandleOAuthCallback ==
  /\ "oauth" \in workload
  /\ Unissued # {}
  /\ session' = [session EXCEPT ![NextSession] = Issue(None)]
  /\ store' = [access |-> NextSession, refresh |-> NextSession, valid |-> TRUE,
               late |-> FALSE]
  /\ latest' = NextSession
  /\ call' = Overtake(call)
  /\ UNCHANGED <<promise, lost, workload>>

-----------------------------------------------------------------------------
(* The server: the awaits of refreshTokens and what a failure leaves behind *)
(* at each of them; of the other handlers, what the client can tell.        *)

InNet(c, op, net) == call[c].op = op /\ call[c].net = net

\* Nobody reads the answer to a call that was given up.
Answer(c, net, s) ==
  call' = [call EXCEPT ![c] =
             IF @.stage = "abandoned" /\ net \notin Working THEN NoCall
             ELSE [@ EXCEPT !.net = net, !.got = s]]

\* A password is right or not; an account with MFA gets a challenge, no tokens.
ServerLogin(c) ==
  /\ InNet(c, "login", "sent")
  /\ \/ /\ Unissued # {}
        /\ session' = [session EXCEPT ![NextSession] = Issue(None)]
        /\ Answer(c, "granted", NextSession)
     \/ /\ \/ "mfa" \in workload /\ Answer(c, "mfa", None)
           \/ Answer(c, "refused", None)
        /\ UNCHANGED session
  /\ UNCHANGED <<store, promise, latest, lost, workload>>

ServerRefreshFind(c) ==
  /\ \E op \in Refreshes : InNet(c, op, "sent")
  /\ IF session[call[c].token].status = "active"
     THEN Answer(c, "found", None) ELSE Answer(c, "refused", None)
  /\ UNCHANGED <<session, store, promise, latest, lost, workload>>

\* The old row is revoked, whatever it says by now ...
ServerRevoke(c) ==
  /\ call[c].net = "found"
  /\ session' = [session EXCEPT ![call[c].token].status =
                   IF @ = "active" THEN "rotated" ELSE @]
  /\ Answer(c, "revoked", None)
  /\ UNCHANGED <<store, promise, latest, lost, workload>>

\* ... and after the reads for the claims the new one is inserted.
ServerInsert(c) ==
  /\ call[c].net = "revoked"
  /\ Unissued # {}
  /\ session' = [session EXCEPT ![NextSession] = Issue(session[call[c].token].root)]
  /\ Answer(c, "granted", NextSession)
  /\ UNCHANGED <<store, promise, latest, lost, workload>>

\* A statement fails and the answer is an error: what was revoked stays so.  A
\* failed audit record, at the end, is only logged.
ServerFails(c) ==
  /\ "fail" \in workload
  /\ call[c].op \in Refreshes
  /\ call[c].net \in Working
  /\ session' = IF call[c].net = "revoked"
                THEN [session EXCEPT ![call[c].token].broken = TRUE]
                ELSE session
  /\ Answer(c, "refused", None)
  /\ UNCHANGED <<store, promise, latest, lost, workload>>

\* authenticate answers first: the client sends the refresh token in the body
\* of its logout and no access token, and is refused.
ServerLogout(c) ==
  /\ InNet(c, "logout", "sent")
  /\ Answer(c, "refused", None)
  /\ UNCHANGED <<session, store, promise, latest, lost, workload>>

\* A reset, an administrator, another device or time ends a session: the one
\* the client has, which is all that makes a difference to it.
ServerEnds(s) ==
  /\ "end" \in workload
  /\ s = store.refresh
  /\ session[s].status = "active"
  /\ session' = [session EXCEPT ![s].status = "ended"]
  /\ UNCHANGED <<store, promise, call, latest, lost, workload>>

Lose(c) ==
  /\ "lose" \in workload
  /\ call[c].net \in Answers \cup Working
  /\ lost < MaxLost
  /\ lost' = lost + 1
  /\ Answer(c, "lost", None)
  /\ UNCHANGED <<session, store, promise, latest, workload>>

-----------------------------------------------------------------------------
(* The client, when an answer arrives or the timer of the request fires.   *)

Answered(c, op) ==
  call[c].op = op /\ call[c].stage = "request" /\ call[c].net \in Answers

ReceiveLogin(c) ==
  /\ Answered(c, "login")
  /\ LET ended == [call EXCEPT ![c] = NoCall]
     IN  CASE call[c].net = "granted" ->
                /\ store' = [access |-> call[c].got, refresh |-> call[c].got,
                             valid |-> TRUE, late |-> FALSE]
                /\ latest' = session[call[c].got].root
                /\ call' = Overtake(ended)
           [] call[c].net = "mfa" ->
                /\ store' = [access |-> Undefined, refresh |-> Undefined,
                             valid |-> FALSE, late |-> FALSE]
                /\ latest' = Undefined
                /\ call' = Overtake(ended)
           [] OTHER -> call' = ended /\ UNCHANGED <<store, latest>>
  /\ UNCHANGED <<session, promise, lost, workload>>

\* Seeded fault: only the access token of the answer is stored.
StorePairKeepsRefresh(c) ==
  store' = [store EXCEPT !.access = call[c].got, !.valid = TRUE,
                         !.late = call[c].overtaken]

StorePair(c) ==
  store' = [access |-> call[c].got, refresh |-> call[c].got, valid |-> TRUE,
            late |-> call[c].overtaken]

\* The promise settles: who waits for it goes on, or is refused too.
Woken(calls, granted) ==
  [c \in Calls |->
     IF calls[c].stage = "waiting" \/ (c = promise /\ granted)
     THEN IF granted THEN [NoCall EXCEPT !.op = "getMe", !.stage = "resumed"]
          ELSE NoCall
     ELSE calls[c]]

\* Seeded fault: refreshPromise is not reset when the refresh fails.
SettleOnSuccess(c, calls, granted) ==
  IF call[c].op = "auto"
  THEN /\ promise' = IF granted THEN None ELSE promise
       /\ call' = Woken(calls, granted)
  ELSE call' = calls /\ UNCHANGED promise

Settle(c, calls, granted) ==
  IF call[c].op = "auto"
  THEN promise' = None /\ call' = Woken(calls, granted)
  ELSE call' = calls /\ UNCHANGED promise

\* A refresh that is refused leaves the store as it is.
ReceiveRefresh(c) ==
  /\ \E op \in Refreshes : Answered(c, op)
  /\ LET granted == call[c].net = "granted"
     IN  /\ Settle(c, [call EXCEPT ![c] = NoCall], granted)
         /\ IF granted THEN StorePair(c) ELSE UNCHANGED store
  /\ UNCHANGED <<session, latest, lost, workload>>

\* Seeded fault: the store is cleared only if the server said yes.
LogoutReturnsIfDone(c, calls) ==
  IF call[c].net = "done"
  THEN store' = EmptyStore /\ latest' = None /\ call' = Overtake(calls)
  ELSE latest' = None /\ call' = Overtake(calls) /\ UNCHANGED store

\* Whatever the server said, and if it said nothing.
LogoutReturns(c, calls) ==
  /\ store' = EmptyStore
  /\ latest' = None
  /\ call' = Overtake(calls)

ReceiveLogout(c) ==
  /\ Answered(c, "logout")
  /\ LogoutReturns(c, [call EXCEPT ![c] = NoCall])
  /\ UNCHANGED <<session, promise, lost, workload>>

\* The server changes nothing for these, and its answer is only passed on.
ReceiveOther(c) ==
  /\ call[c].op \in {"getMe", "verifyEmail"}
  /\ call[c].stage = "request"
  /\ call[c].net # "lost"
  /\ call' = [call EXCEPT ![c] = NoCall]
  /\ UNCHANGED <<session, store, promise, latest, lost, workload>>

\* Seeded fault: the timer is cleared once the headers of an answer are here.
TimerFiresEarly(c) == call[c].stage = "request" /\ call[c].net \in Working

\* The timer covers the whole exchange, the body of the answer included.
TimerFires(c) == call[c].stage = "request"

\* The server's part, if it can still change anything.
Abandoned(c) ==
  IF call[c].net \in Working /\ call[c].op \in Refreshes \cup {"login"}
  THEN [call[c] EXCEPT !.stage = "abandoned"] ELSE NoCall

\* Timeout and network error: the caller's part ends, the server's goes on.
GiveUp(c) ==
  /\ TimerFires(c)
  /\ LET calls == [call EXCEPT ![c] = Abandoned(c)]
     IN  IF call[c].op = "logout"
         THEN LogoutReturns(c, calls) /\ UNCHANGED promise
         ELSE Settle(c, calls, FALSE) /\ UNCHANGED <<store, latest>>
  /\ session' = IF call[c].op \in Refreshes
                THEN [session EXCEPT ![call[c].token].broken = TRUE]
                ELSE session
  /\ UNCHANGED <<lost, workload>>

-----------------------------------------------------------------------------

Client(c) ==
  \/ Login(c) \/ VerifyEmail(c) \/ Logout(c) \/ RefreshTokens(c) \/ GetMe(c)
  \/ RefreshFirst(c) \/ JoinRefresh(c) \/ Resume(c)
  \/ ReceiveLogin(c) \/ ReceiveRefresh(c) \/ ReceiveLogout(c) \/ ReceiveOther(c)
  \/ GiveUp(c)

Server(c) ==
  \/ ServerLogin(c) \/ ServerRefreshFind(c) \/ ServerRevoke(c)
  \/ ServerInsert(c) \/ ServerFails(c) \/ ServerLogout(c)

Next ==
  \/ \E c \in Calls : Client(c) \/ Server(c) \/ Lose(c)
  \/ \E s \in Sessions : ServerEnds(s)
  \/ AccessExpires \/ HandleOAuthCallback

Spec == Init /\ [][Next]_vars

\* The timer of a request fires, and who was woken goes on.  Nothing is
\* assumed of the server or the network.
FairSpec ==
  /\ Spec
  /\ \A c \in Calls : WF_vars(GiveUp(c)) /\ WF_vars(Resume(c))

-----------------------------------------------------------------------------
(* Correctness.                                                            *)

InFlight(c) == call[c].stage = "request"

\* Types, and how refreshPromise and the calls fit together: it is set exactly
\* while the refresh it stands for is in flight, and nobody waits without it.
TypeOK ==
  /\ session \in [Sessions ->
       [status : {"absent", "active", "rotated", "ended"},
        root : Sessions \cup {None}, broken : BOOLEAN]]
  /\ store \in
       [access : Sessions \cup {None, Undefined},
        refresh : Sessions \cup {None, Undefined}, valid : BOOLEAN,
        late : BOOLEAN]
  /\ store.valid => store.access \in Sessions
  /\ call \in [Calls ->
       [op : Ops, stage : Stages, token : Sessions \cup {None}, net : Nets,
        got : Sessions \cup {None}, overtaken : BOOLEAN]]
  /\ latest \in Sessions \cup {None, Undefined}
  /\ lost \in 0..MaxLost
  /\ workload \in Workloads
  /\ promise # None =>
       promise \in Calls /\ InFlight(promise) /\ call[promise].op = "auto"
  /\ \A c \in Calls : call[c].stage = "waiting" => promise # None

\* ensureTokenRefreshed: however many requests find the access token expired
\* at once, one automatic refresh is in flight.
OneAutomaticRefresh ==
  \A c, f \in Calls :
    /\ InFlight(c) /\ call[c].op = "auto"
    /\ InFlight(f) /\ call[f].op = "auto"
    => c = f

StoreRoot ==
  IF store.refresh \in Sessions THEN session[store.refresh].root
  ELSE store.refresh

\* The store holds what the login answered last brought, rotated since or not,
\* and nothing after a logout.  The one exception is a refresh that was in
\* flight when the login or logout took effect: it fills the store with the
\* session of before, which is then refreshed in its turn.
StoreIsLatest == StoreRoot = latest \/ store.late

Refreshing(s) ==
  \E c \in Calls : InFlight(c) /\ call[c].op \in Refreshes /\ call[c].token = s

\* The refresh token in the store is the newest of its session.  The server
\* knows it as spent only while a refresh with it is in flight, or because such
\* a refresh was given up or failed after the revocation: nothing else in the
\* client leaves a token behind that its own refresh has replaced.
StoreTokenUsable ==
  LET s == store.refresh
  IN  s \in Sessions /\ session[s].status = "rotated"
        => Refreshing(s) \/ session[s].broken

\* Every call returns or throws, those that wait for another's refresh
\* included, whatever is lost.
CallsEnd ==
  \A c \in Calls :
    call[c].stage \in {"waiting", "resumed", "request"}
      ~> call[c].stage \in {"idle", "abandoned"}
=============================================================================

---------------------------- MODULE AccountDeletion ----------------------------
(***************************************************************************)
(* The end of an account: a user asks for deletion in 30 days and may      *)
(* cancel, an administrator deletes at once, and an hourly job purges the  *)
(* accounts whose requests are due.  A run of the job works from the list  *)
(* it read when it began.  Composed with every step of Accounts.           *)
(***************************************************************************)
EXTENDS Accounts

CONSTANTS
  Runners     \* runs of the job in flight at once

VARIABLES
  request,  \* request[d]: the deletion_requests row
  runner    \* runner[w]: the locals of a run of the job

vars == <<account, token, session, state, stage, ctx, faults, workload,
          request, runner>>

\* user is the account the row was inserted for.  The column is null once
\* that account is gone.
NoRequest == [status |-> "absent", user |-> None, due |-> FALSE]

Idle == [stage |-> "idle", todo |-> {}, row |-> None]

Init ==
  /\ AccountsInit
  /\ request = [d \in Deletions |-> NoRequest]
  /\ runner = [w \in Runners |-> Idle]

\* Rows findPendingByUserId may return, one of them.
Pending(u) ==
  {d \in Deletions : /\ request[d].status = "pending"
                     /\ request[d].user = u
                     /\ Live(u)}

Unfiled == {d \in Deletions : request[d].status = "absent"}

Rest == <<state, faults, workload>>

-----------------------------------------------------------------------------
(* Requesting and cancelling.  The caller's token may outlive the account. *)

\* Seeded fault: a pending request is not looked for.
RequestFindAnyway(r, u) ==
  /\ account[u].status # "absent"
  /\ Arrive(r, "delete", [Blank EXCEPT !.user = u], "createRequest")
  /\ UNCHANGED <<account, token, session, Rest, request, runner>>

RequestFind(r, u) ==
  /\ account[u].status # "absent"
  /\ Pending(u) = {}
  /\ Arrive(r, "delete", [Blank EXCEPT !.user = u], "createRequest")
  /\ UNCHANGED <<account, token, session, Rest, request, runner>>

\* The foreign key refuses a row for a deleted account.
RequestCreate(r) ==
  /\ At(r, "createRequest")
  /\ IF Live(ctx[r].user)
     THEN /\ Unfiled # {}
          /\ request' = [request EXCEPT ![CHOOSE d \in Unfiled : TRUE] =
                           [status |-> "pending", user |-> ctx[r].user,
                            due |-> FALSE]]
     ELSE UNCHANGED request
  /\ Finish(r)
  /\ UNCHANGED <<account, token, session, Rest, runner>>

CancelFind(r, u, d) ==
  /\ d \in Pending(u)
  /\ Arrive(r, "cancel", [Blank EXCEPT !.user = u, !.row = d], "cancel")
  /\ UNCHANGED <<account, token, session, Rest, request, runner>>

\* An update by id, whatever has become of the row.
CancelWrite(r) ==
  /\ At(r, "cancel")
  /\ request' = [request EXCEPT ![ctx[r].row].status = "cancelled"]
  /\ Finish(r)
  /\ UNCHANGED <<account, token, session, Rest, runner>>

BecomeDue(d) ==
  /\ request[d].status = "pending"
  /\ ~request[d].due
  /\ request' = [request EXCEPT ![d].due = TRUE]
  /\ UNCHANGED <<account, token, session, Rest, stage, ctx, runner>>

-----------------------------------------------------------------------------
(* Deleting.                                                               *)

\* Seeded fault: the foreign key of refresh_tokens does not cascade.
DeleteUserKeepsSessions(u) ==
  /\ account' = [account EXCEPT ![u].status =
                   IF @ = "live" THEN "gone" ELSE @]
  /\ token' = [k \in Tokens |->
                 IF token[k].user = u THEN [token[k] EXCEPT !.status = "deleted"]
                 ELSE token[k]]
  /\ UNCHANGED session

\* deleteUser: tokens and sessions go with the row.
DeleteUser(u) ==
  /\ account' = [account EXCEPT ![u].status =
                   IF @ = "live" THEN "gone" ELSE @]
  /\ token' = [k \in Tokens |->
                 IF token[k].user = u THEN [token[k] EXCEPT !.status = "deleted"]
                 ELSE token[k]]
  /\ session' = [s \in Sessions |->
                   IF session[s].user = u
                   THEN [session[s] EXCEPT !.status = "deleted"]
                   ELSE session[s]]

ForceFind(r, u) ==
  /\ Live(u)
  /\ Arrive(r, "force", [Blank EXCEPT !.user = u], "forceDelete")
  /\ UNCHANGED <<account, token, session, Rest, request, runner>>

ForceDelete(r) ==
  /\ At(r, "forceDelete")
  /\ DeleteUser(ctx[r].user)
  /\ Finish(r)
  /\ UNCHANGED <<Rest, request, runner>>

-----------------------------------------------------------------------------
(* The purge job.                                                          *)

\* Seeded fault: cancelled requests are due like pending ones.
FindDueCancelledToo ==
  {d \in Deletions : /\ request[d].status \in {"pending", "cancelled"}
                     /\ request[d].due}

\* Seeded fault: a request cancelled earlier holds back a later one.
FindDueUnlessCancelled ==
  {d \in Deletions :
     /\ request[d].status = "pending"
     /\ request[d].due
     /\ \A c \in Deletions : request[c].user = request[d].user
                               => request[c].status # "cancelled"}

FindDue == {d \in Deletions : request[d].status = "pending" /\ request[d].due}

\* The run goes on to any row of its list, or ends.
Proceed(w, todo) ==
  IF todo = {}
  THEN runner' = [runner EXCEPT ![w] = Idle]
  ELSE \E d \in todo :
         runner' = [runner EXCEPT ![w] = [stage |-> "delete", todo |-> todo \ {d},
                                          row |-> d]]

\* Rows of accounts already gone are listed, and skipped.
StartRun(w) ==
  /\ runner[w].stage = "idle"
  /\ Proceed(w, {d \in FindDue : Live(request[d].user)})
  /\ UNCHANGED <<account, token, session, Rest, stage, ctx, request>>

\* The account may be gone by now: then nothing is deleted.
PurgeDelete(w) ==
  /\ runner[w].stage = "delete"
  /\ DeleteUser(request[runner[w].row].user)
  /\ runner' = [runner EXCEPT ![w].stage = "complete"]
  /\ UNCHANGED <<Rest, stage, ctx, request>>

\* markCompleted: an update by id, whatever the row says.
PurgeComplete(w) ==
  /\ runner[w].stage = "complete"
  /\ request' = [request EXCEPT ![runner[w].row].status = "completed"]
  /\ Proceed(w, runner[w].todo)
  /\ UNCHANGED <<account, token, session, Rest, stage, ctx>>

\* Seeded fault: the request is completed in a finally block.
PurgeSkipCompletes(w) ==
  /\ runner[w].stage # "idle"
  /\ "stop" \in workload
  /\ faults < MaxFaults
  /\ faults' = faults + 1
  /\ request' = [request EXCEPT ![runner[w].row].status = "completed"]
  /\ Proceed(w, runner[w].todo)
  /\ UNCHANGED <<account, token, session, state, workload, stage, ctx>>

\* A statement fails: the row is skipped until the next run.
PurgeSkip(w) ==
  /\ runner[w].stage # "idle"
  /\ "stop" \in workload
  /\ faults < MaxFaults
  /\ faults' = faults + 1
  /\ Proceed(w, runner[w].todo)
  /\ UNCHANGED <<account, token, session, state, workload, stage, ctx, request>>

\* Requests, runs and the in-memory OAuth states are lost.
Restart ==
  /\ "stop" \in workload
  /\ faults < MaxFaults
  /\ faults' = faults + 1
  /\ Stopped(Requests)
  /\ stage' = [r \in Requests |-> "idle"]
  /\ ctx' = [r \in Requests |-> Blank]
  /\ state' = [x \in States |-> "absent"]
  /\ runner' = [w \in Runners |-> Idle]
  /\ UNCHANGED <<token, session, workload, request>>

-----------------------------------------------------------------------------

RunnerStep(w) == StartRun(w) \/ PurgeDelete(w) \/ PurgeComplete(w)

Next ==
  \/ \E r \in Requests : RequestSteps(r) /\ UNCHANGED <<request, runner>>
  \/ OtherSteps /\ UNCHANGED <<request, runner>>
  \/ \E r \in Requests, u \in Users :
       \/ RequestFind(r, u)
       \/ \E d \in Deletions : CancelFind(r, u, d)
       \/ ForceFind(r, u)
  \/ \E r \in Requests : RequestCreate(r) \/ CancelWrite(r) \/ ForceDelete(r)
  \/ \E d \in Deletions : BecomeDue(d)
  \/ \E w \in Runners : RunnerStep(w) \/ PurgeSkip(w)
  \/ Restart

Spec == Init /\ [][Next]_vars

\* The timer of deletion-purge.job.ts fires every hour, statements of a run
\* return, and 30 days pass.  Nothing is assumed of requests.
FairSpec ==
  /\ Spec
  /\ \A w \in Runners : WF_vars(RunnerStep(w))
  /\ \A d \in Deletions : WF_vars(BecomeDue(d))

-----------------------------------------------------------------------------
(* Correctness.                                                            *)

\* TypeOK of Accounts, and what the rows of deletion_requests and the locals
\* of a run may be; a run has a row in hand exactly while it works.
DeletionTypeOK ==
  /\ TypeOK
  /\ request \in [Deletions ->
       [status : {"absent", "pending", "cancelled", "completed"},
        user : Users \cup {None}, due : BOOLEAN]]
  /\ runner \in [Runners ->
       [stage : {"idle", "delete", "complete"}, todo : SUBSET Deletions,
        row : Deletions \cup {None}]]
  /\ \A d \in Deletions :
       request[d].status # "absent" => request[d].user \in Users
  /\ \A w \in Runners : runner[w].stage = "idle" <=> runner[w].row = None

Creating(u) == {r \in Requests : At(r, "createRequest") /\ ctx[r].user = u}

\* requestDeletion looks for a pending request and only then inserts one, and
\* no index forbids a second.  An account has one pending request unless
\* requests overlap, and no more than overlapped.
PendingBounded ==
  \A u \in Users :
    Cardinality(Pending(u)) + Cardinality(Creating(u)) <= Cardinality(Requests)

\* Find-then-insert without an index, three times: e-mail tokens in force,
\* accounts of one OAuth identity and pending deletions of an account are one
\* each, unless requests overlap, and never more than overlapped.
OverlapBounds == TokensInForceBounded /\ IdentitiesBounded /\ PendingBounded

\* purgeExpired deletes the account first and completes the request after it,
\* so that a failure in between is retried: a completed request is one whose
\* account is gone.
CompletedMeansGone ==
  \A d \in Deletions :
    request[d].status = "completed" => ~Live(request[d].user)

\* Nothing is under way to delete the account: no request of it is pending and
\* due, no run has one in its list, no administrator is about to.
Quiet(u) ==
  /\ Live(u)
  /\ \A d \in Pending(u) : ~request[d].due
  /\ \A w \in Runners, d \in Deletions :
       d \in runner[w].todo \/ d = runner[w].row => request[d].user # u
  /\ \A r \in Requests : ~(At(r, "forceDelete") /\ ctx[r].user = u)

\* An account whose requests were all cancelled or are not due, and that no run
\* already holds, stays: all that can endanger it is a pending request becoming
\* due or an administrator.  A cancellation is too late only for a run that
\* read its list before.
SafeWhileQuiet ==
  [][\A u \in Users :
       Quiet(u) => \/ Quiet(u)'
                   \/ \E d \in Pending(u) : ~request[d].due /\ request'[d].due
                   \/ \E r \in Requests : ForceFind(r, u)]_vars

\* A pending request is carried out in the end, unless it is cancelled: runs
\* that skip it, stop in the middle or overlap do not lose it.
PendingCarriedOut ==
  \A d \in Deletions :
    (request[d].status = "pending" /\ Live(request[d].user))
      ~> (request[d].status = "pending" => ~Live(request[d].user))
=============================================================================

--------------------------- MODULE WebhookDelivery ---------------------------
(***************************************************************************)
(* Webhook endpoints and deliveries: events are fanned out to delivery     *)
(* rows, and runs of the delivery job POST the rows that are due.  The job *)
(* starts a run every 30 seconds whether or not earlier runs have ended,   *)
(* and a test event is delivered by its own request, so several runners    *)
(* may hold one row at once.  A runner reads the row, then the endpoint,   *)
(* POSTs, waits up to 10 seconds, and writes the result without a          *)
(* condition on what the row says by then.                                 *)
(*                                                                         *)
(* Who may manage endpoints, URLs, secrets and signatures are left out;    *)
(* so are the limit of 100 rows per run, taken not to be reached, and the  *)
(* order in which a run works through them.                                *)
(***************************************************************************)
EXTENDS Integers, FiniteSets

CONSTANTS
  Endpoints,    \* webhook_endpoints rows that may be registered
  Deliveries,   \* webhook_deliveries rows that may be inserted
  Events,       \* fan-outs in flight at once
  Runners,      \* runs of the job and test requests in flight at once
  MaxAttempts,  \* the length of RETRY_DELAYS_MS (6 in the code)
  MaxFaults,    \* how often a restart or a failed statement may happen
  None          \* no endpoint, no delivery

ASSUME NoneIsNothing == None \notin Endpoints \cup Deliveries
ASSUME MaxAttemptsIsPositive == MaxAttempts \in Nat \ {0}
ASSUME MaxFaultsIsNatural == MaxFaults \in Nat

VARIABLES
  endpoint,  \* endpoint[e]: "absent", "active", "inactive" or "deleted"
  delivery,  \* delivery[d]: the webhook_deliveries row
  fanout,    \* fanout[v]: the endpoints event v has still to be queued for
  runner,    \* runner[w]: the locals of a run of the job
  posts,     \* history: POSTs made of a delivery, counted up to MaxAttempts
  faults     \* restarts and failed statements so far

vars == <<endpoint, delivery, fanout, runner, posts, faults>>

Statuses == {"absent", "pending", "success", "failed", "deleted"}

\* due: nextRetryAt has passed.
NoDelivery ==
  [status |-> "absent", endpoint |-> None, attempts |-> 0, due |-> FALSE]

Idle == [stage |-> "idle", todo |-> {}, delivery |-> None, attempts |-> 0]

Init ==
  /\ endpoint = [e \in Endpoints |-> "absent"]
  /\ delivery = [d \in Deliveries |-> NoDelivery]
  /\ fanout = [v \in Events |-> {}]
  /\ runner = [w \in Runners |-> Idle]
  /\ posts = [d \in Deliveries |-> 0]
  /\ faults = 0

Live(e) == endpoint[e] \in {"active", "inactive"}

At(w, s) == runner[w].stage = s

-----------------------------------------------------------------------------
(* Endpoints.                                                              *)

RegisterEndpoint(e) ==
  /\ endpoint[e] = "absent"
  /\ endpoint' = [endpoint EXCEPT ![e] = "active"]
  /\ UNCHANGED <<delivery, fanout, runner, posts, faults>>

UpdateEndpoint(e) ==
  /\ Live(e)
  /\ endpoint' = [endpoint EXCEPT
                    ![e] = IF @ = "active" THEN "inactive" ELSE "active"]
  /\ UNCHANGED <<delivery, fanout, runner, posts, faults>>

\* Seeded fault: the foreign key does not cascade.
DeleteEndpointKeepsDeliveries(e) ==
  /\ Live(e)
  /\ endpoint' = [endpoint EXCEPT ![e] = "deleted"]
  /\ UNCHANGED <<delivery, fanout, runner, posts, faults>>

\* Its deliveries cascade.
DeleteEndpoint(e) ==
  /\ Live(e)
  /\ endpoint' = [endpoint EXCEPT ![e] = "deleted"]
  /\ delivery' = [d \in Deliveries |->
                    IF delivery[d].endpoint = e
                    THEN [NoDelivery EXCEPT !.status = "deleted"]
                    ELSE delivery[d]]
  /\ UNCHANGED <<fanout, runner, posts, faults>>

-----------------------------------------------------------------------------
(* Queueing.                                                               *)

\* createDelivery: due at once.
Queue(d, e) ==
  /\ delivery[d].status = "absent"
  /\ delivery' = [delivery EXCEPT
                    ![d] = [status |-> "pending", endpoint |-> e,
                            attempts |-> 0, due |-> TRUE]]

\* The active endpoints subscribed to the event are listed once.
FanoutList(v, S) ==
  /\ fanout[v] = {}
  /\ S # {}
  /\ \A e \in S : endpoint[e] = "active"
  /\ fanout' = [fanout EXCEPT ![v] = S]
  /\ UNCHANGED <<endpoint, delivery, runner, posts, faults>>

FanoutQueue(v, e, d) ==
  /\ e \in fanout[v]
  /\ Live(e)
  /\ Queue(d, e)
  /\ fanout' = [fanout EXCEPT ![v] = @ \ {e}]
  /\ UNCHANGED <<endpoint, runner, posts, faults>>

\* The foreign key refuses a delivery to an endpoint deleted meanwhile.
FanoutRefused(v, e) ==
  /\ e \in fanout[v]
  /\ ~Live(e)
  /\ fanout' = [fanout EXCEPT ![v] = @ \ {e}]
  /\ UNCHANGED <<endpoint, delivery, runner, posts, faults>>

\* sendTestEvent queues a delivery and goes on to deliver it; the job, too,
\* finds it due.
TestEvent(w, e, d) ==
  /\ At(w, "idle")
  /\ Live(e)
  /\ Queue(d, e)
  /\ runner' = [runner EXCEPT ![w] = [Idle EXCEPT !.stage = "next",
                                                  !.todo = {d}]]
  /\ UNCHANGED <<endpoint, fanout, posts, faults>>

-----------------------------------------------------------------------------
(* Delivering.                                                             *)

\* Seeded fault: the status condition of the query is lost.
FindDueAnyStatus ==
  {d \in Deliveries : /\ delivery[d].status \notin {"absent", "deleted"}
                      /\ delivery[d].due}

\* findDueDeliveries
FindDue ==
  {d \in Deliveries : delivery[d].status = "pending" /\ delivery[d].due}

\* The runner is done with the delivery in hand.
Advance(w) ==
  runner' = [runner EXCEPT
               ![w] = IF @.todo = {} THEN Idle
                      ELSE [Idle EXCEPT !.stage = "next",
                                          !.todo = runner[w].todo]]

\* retryFailed, called by the job's timer: the rows due are listed once.
StartRun(w) ==
  /\ At(w, "idle")
  /\ FindDue # {}
  /\ runner' = [runner EXCEPT ![w] = [Idle EXCEPT !.stage = "next",
                                                  !.todo = FindDue]]
  /\ UNCHANGED <<endpoint, delivery, fanout, posts, faults>>

\* deliver reads the row, whatever its status; it may be gone.
ReadDelivery(w, d) ==
  /\ At(w, "next")
  /\ d \in runner[w].todo
  /\ LET rest == runner[w].todo \ {d}
     IN  IF delivery[d].status # "deleted"
         THEN runner' = [runner EXCEPT
                ![w] = [stage |-> "endpoint", todo |-> rest, delivery |-> d,
                        attempts |-> delivery[d].attempts]]
         ELSE runner' = [runner EXCEPT
                ![w] = IF rest = {} THEN Idle
                       ELSE [Idle EXCEPT !.stage = "next", !.todo = rest]]
  /\ UNCHANGED <<endpoint, delivery, fanout, posts, faults>>

\* The endpoint is read and the POST sent, active or not.  Marking a delivery
\* failed because its endpoint is gone finds no row: it went with the endpoint.
Post(w) ==
  /\ At(w, "endpoint")
  /\ LET d == runner[w].delivery
     IN  IF delivery[d].status # "deleted"
         THEN /\ posts' = [posts EXCEPT
                             ![d] = IF @ < MaxAttempts THEN @ + 1 ELSE @]
              /\ runner' = [runner EXCEPT ![w].stage = "answer"]
         ELSE /\ Advance(w)
              /\ UNCHANGED posts
  /\ UNCHANGED <<endpoint, delivery, fanout, faults>>

\* updateDelivery, by id: nothing happens once the row is gone.
UpdateDelivery(d, status, attempts, due) ==
  delivery' = [delivery EXCEPT
                 ![d] = IF @.status = "deleted" THEN @
                        ELSE [@ EXCEPT !.status = status, !.attempts = attempts,
                                       !.due = due]]

\* A 2xx answer, recorded.
Succeed(w) ==
  /\ At(w, "answer")
  /\ LET d == runner[w].delivery
     IN  UpdateDelivery(d, "success", runner[w].attempts + 1, delivery[d].due)
  /\ Advance(w)
  /\ UNCHANGED <<endpoint, fanout, posts, faults>>

\* Seeded fault: the attempt is not counted.
RetryOrFailUncounted(w) ==
  LET d == runner[w].delivery
  IN  IF runner[w].attempts + 1 >= MaxAttempts
      THEN UpdateDelivery(d, "failed", runner[w].attempts + 1, delivery[d].due)
      ELSE UpdateDelivery(d, "pending", runner[w].attempts, FALSE)

\* Seeded fault: given up one attempt early.
RetryOrFailEarly(w) ==
  LET d == runner[w].delivery
      attempts == runner[w].attempts + 1
  IN  IF attempts >= MaxAttempts - 1
      THEN UpdateDelivery(d, "failed", attempts, delivery[d].due)
      ELSE UpdateDelivery(d, "pending", attempts, FALSE)

\* scheduleRetryOrFail
RetryOrFail(w) ==
  LET d == runner[w].delivery
      attempts == runner[w].attempts + 1
  IN  IF attempts >= MaxAttempts
      THEN UpdateDelivery(d, "failed", attempts, delivery[d].due)
      ELSE UpdateDelivery(d, "pending", attempts, FALSE)

\* Another answer, no answer in time, or no connection.
Fail(w) ==
  /\ At(w, "answer")
  /\ RetryOrFail(w)
  /\ Advance(w)
  /\ UNCHANGED <<endpoint, fanout, posts, faults>>

-----------------------------------------------------------------------------
(* Time and failure.                                                       *)

\* nextRetryAt passes.
BecomeDue(d) ==
  /\ delivery[d].status = "pending"
  /\ ~delivery[d].due
  /\ delivery' = [delivery EXCEPT ![d].due = TRUE]
  /\ UNCHANGED <<endpoint, fanout, runner, posts, faults>>

Fault ==
  /\ faults < MaxFaults
  /\ faults' = faults + 1

\* The update of a success fails, and the catch schedules a retry.
SuccessLost(w) ==
  /\ Fault
  /\ At(w, "answer")
  /\ RetryOrFail(w)
  /\ Advance(w)
  /\ UNCHANGED <<endpoint, fanout, posts>>

\* Reading, or recording the result, fails: the run goes on to the next row.
\* (Failing to read the row itself is no different from failing right after.)
Skip(w) ==
  /\ Fault
  /\ runner[w].stage \in {"endpoint", "answer"}
  /\ Advance(w)
  /\ UNCHANGED <<endpoint, delivery, fanout, posts>>

\* The process stops and starts again.
Restart ==
  /\ Fault
  /\ fanout' = [v \in Events |-> {}]
  /\ runner' = [w \in Runners |-> Idle]
  /\ UNCHANGED <<endpoint, delivery, posts>>

-----------------------------------------------------------------------------
EndpointStep ==
  \E e \in Endpoints :
    \/ RegisterEndpoint(e)
    \/ UpdateEndpoint(e)
    \/ DeleteEndpoint(e)

QueueStep ==
  \/ \E v \in Events, S \in SUBSET Endpoints : FanoutList(v, S)
  \/ \E v \in Events, e \in Endpoints, d \in Deliveries : FanoutQueue(v, e, d)
  \/ \E v \in Events, e \in Endpoints : FanoutRefused(v, e)
  \/ \E w \in Runners, e \in Endpoints, d \in Deliveries : TestEvent(w, e, d)

\* A runner gets on with its work.
RunStep(w) ==
  \/ StartRun(w)
  \/ \E d \in Deliveries : ReadDelivery(w, d)
  \/ Post(w)
  \/ Succeed(w)
  \/ Fail(w)

FaultStep ==
  \/ \E w \in Runners : SuccessLost(w)
  \/ \E w \in Runners : Skip(w)
  \/ Restart

Next ==
  \/ EndpointStep
  \/ QueueStep
  \/ \E w \in Runners : RunStep(w)
  \/ \E d \in Deliveries : BecomeDue(d)
  \/ FaultStep

Spec == Init /\ [][Next]_vars

\* The timer goes on firing, a POST is answered or times out after 10 seconds,
\* statements return, and time passes.
Fairness ==
  /\ \A w \in Runners : WF_vars(RunStep(w))
  /\ \A d \in Deliveries : WF_vars(BecomeDue(d))

FairSpec == Spec /\ Fairness

-----------------------------------------------------------------------------
(* Properties.                                                             *)

\* Every variable has its type, and a delivery belongs to an endpoint that
\* exists.
TypeOK ==
  /\ endpoint \in [Endpoints -> {"absent", "active", "inactive", "deleted"}]
  /\ delivery \in [Deliveries -> [status : Statuses,
                                  endpoint : Endpoints \cup {None},
                                  attempts : Nat, due : BOOLEAN]]
  /\ fanout \in [Events -> SUBSET Endpoints]
  /\ runner \in [Runners -> [stage : {"idle", "next", "endpoint", "answer"},
                             todo : SUBSET Deliveries,
                             delivery : Deliveries \cup {None},
                             attempts : Nat]]
  /\ posts \in [Deliveries -> 0..MaxAttempts]
  /\ faults \in 0..MaxFaults
  /\ \A d \in Deliveries :
       delivery[d].status \notin {"absent", "deleted"} =>
         /\ delivery[d].endpoint \in Endpoints
         /\ Live(delivery[d].endpoint)

\* No delivery is given up before the whole schedule was tried, whatever
\* overlaps, restarts or is lost: every attempt on record was a POST of its own
\* (webhook.service scheduleRetryOrFail, "Exhausted all retries").
GivenUpAfterAllAttempts ==
  \A d \in Deliveries :
    delivery[d].status = "failed" => posts[d] = MaxAttempts

\* The runners that have the delivery listed or in hand.
Holders(d) == {w \in Runners : d \in runner[w].todo \/ d = runner[w].delivery}

\* No run takes up a delivery that is settled, delivered or given up: it is
\* changed or POSTed again only by a run that had listed it before, when it has
\* it in hand, or goes with its endpoint (findDueDeliveries).
SettledForGood ==
  [][\A d \in Deliveries :
       delivery[d].status \in {"success", "failed"} =>
         /\ Holders(d)' \subseteq Holders(d)
         /\ \/ /\ delivery'[d] = delivery[d] \/ delivery'[d].status = "deleted"
               /\ posts'[d] = posts[d]
            \/ \E w \in Holders(d) :
                 runner[w].delivery = d /\ runner'[w] # runner[w]]_vars

\* Every delivery is settled in the end, for good: although overlapping runs
\* undo one another's count, they cannot do so for ever (webhook.service, "After
\* 6 attempts the delivery is marked failed").
EventuallySettled ==
  <>[](\A d \in Deliveries : delivery[d].status # "pending")
=============================================================================

----------------------- MODULE WebhookDelivery_proofs ------------------------
(***************************************************************************)
(* Theorems of WebhookDelivery, for any sets of endpoints, deliveries,     *)
(* events and runners, any number of attempts and any number of faults.    *)
(***************************************************************************)
EXTENDS WebhookDelivery, TLAPS

-----------------------------------------------------------------------------
(* The inductive invariant.  The count in a row, and the one a runner read  *)
(* from it, never exceed the POSTs that were made; and a runner holds only  *)
(* rows that were inserted, so that its update cannot create one.           *)

Rows == [status : Statuses, endpoint : Endpoints \cup {None},
         attempts : Nat, due : BOOLEAN]

Locals == [stage : {"idle", "next", "endpoint", "answer"},
           todo : SUBSET Deliveries, delivery : Deliveries \cup {None},
           attempts : Nat]

TypeInv ==
  /\ endpoint \in [Endpoints -> {"absent", "active", "inactive", "deleted"}]
  /\ delivery \in [Deliveries -> Rows]
  /\ fanout \in [Events -> SUBSET Endpoints]
  /\ runner \in [Runners -> Locals]
  /\ posts \in [Deliveries -> 0..MaxAttempts]
  /\ faults \in 0..MaxFaults

\* n attempts are backed by POSTs of d; beyond the limit nobody counts.
Backed(d, n) == posts[d] = MaxAttempts \/ n <= posts[d]

RowInv(d) ==
  /\ delivery[d].status \notin {"absent", "deleted"} =>
       delivery[d].endpoint \in Endpoints /\ Live(delivery[d].endpoint)
  /\ Backed(d, delivery[d].attempts)
  /\ delivery[d].status = "failed" => posts[d] = MaxAttempts

\* The row the runner has in hand.
InHand(w) ==
  /\ runner[w].delivery \in Deliveries
  /\ delivery[runner[w].delivery].status # "absent"

RunnerInv(w) ==
  /\ \A d \in runner[w].todo : delivery[d].status # "absent"
  /\ At(w, "endpoint") =>
       InHand(w) /\ Backed(runner[w].delivery, runner[w].attempts)
  /\ At(w, "answer") =>
       InHand(w) /\ Backed(runner[w].delivery, runner[w].attempts + 1)

IInv ==
  /\ TypeInv
  /\ \A d \in Deliveries : RowInv(d)
  /\ \A w \in Runners : RunnerInv(w)

LEMMA IInvImplies == IInv => TypeOK /\ GivenUpAfterAllAttempts
BY DEF IInv, TypeInv, Rows, Locals, RowInv, TypeOK, GivenUpAfterAllAttempts

LEMMA InitIInv == Init => IInv
<1>. SUFFICES ASSUME Init PROVE IInv
  OBVIOUS
<1>1. TypeInv
  BY MaxAttemptsIsPositive, MaxFaultsIsNatural
     DEF Init, TypeInv, Rows, Locals, Statuses, NoDelivery, Idle
<1>2. ASSUME NEW d \in Deliveries PROVE RowInv(d)
  BY DEF Init, RowInv, Backed, NoDelivery
<1>3. ASSUME NEW w \in Runners PROVE RunnerInv(w)
  BY DEF Init, RunnerInv, At, Idle
<1>. QED
  BY <1>1, <1>2, <1>3 DEF IInv

-----------------------------------------------------------------------------
(* What a step leaves alone.                                               *)

\* The rows and the count of POSTs unchanged, a row stays as good as it was as
\* long as its endpoint is as live.
LEMMA RowKept ==
  ASSUME NEW d \in Deliveries, RowInv(d),
         UNCHANGED <<delivery, posts>>,
         \A e \in Endpoints : Live(e) => Live(e)'
  PROVE  RowInv(d)'
BY DEF RowInv, Backed

\* No row vanishes before a runner's eyes into one that was never inserted.
LEMMA RunnerKept ==
  ASSUME NEW w \in Runners, TypeInv, RunnerInv(w), runner'[w] = runner[w],
         \A d \in Deliveries :
           /\ delivery[d].status # "absent" => delivery'[d].status # "absent"
           /\ posts'[d] \in posts[d]..MaxAttempts
  PROVE  RunnerInv(w)'
<1>1. runner[w] \in Locals
  BY DEF TypeInv
<1>2. \A d \in Deliveries : posts[d] \in 0..MaxAttempts
  BY DEF TypeInv
<1>3. ASSUME NEW d \in Deliveries, NEW n \in Nat, Backed(d, n)
      PROVE  Backed(d, n)'
  BY <1>2, <1>3, MaxAttemptsIsPositive DEF Backed
<1>. QED
  BY <1>1, <1>3 DEF RunnerInv, InHand, At, Locals

\* A runner that is done with a row holds only rows it had listed.
LEMMA AdvanceKeeps ==
  ASSUME NEW w \in Runners, TypeInv, Advance(w)
  PROVE  /\ runner' \in [Runners -> Locals]
         /\ \A x \in Runners : x # w => runner'[x] = runner[x]
         /\ runner'[w].todo \subseteq runner[w].todo
         /\ ~At(w, "endpoint")' /\ ~At(w, "answer")'
BY DEF TypeInv, Advance, Locals, Idle, At

\* An update by id touches one row, and none that is gone.
LEMMA UpdateKeeps ==
  ASSUME NEW d \in Deliveries, NEW status \in Statuses, NEW n \in Nat,
         NEW due \in BOOLEAN, TypeInv, UpdateDelivery(d, status, n, due)
  PROVE  /\ delivery' \in [Deliveries -> Rows]
         /\ \A x \in Deliveries : x # d => delivery'[x] = delivery[x]
         /\ \/ delivery'[d] = delivery[d]
            \/ /\ delivery[d].status # "deleted"
               /\ delivery'[d].status = status
               /\ delivery'[d].attempts = n
               /\ delivery'[d].endpoint = delivery[d].endpoint
BY DEF TypeInv, UpdateDelivery, Rows

-----------------------------------------------------------------------------
(* The steps that write a row.                                             *)

\* A runner with an answer may record any outcome that its count allows.
LEMMA RecordStep ==
  ASSUME IInv, NEW w \in Runners, At(w, "answer"), Advance(w),
         NEW d \in Deliveries, d = runner[w].delivery,
         NEW status \in Statuses, NEW n \in Nat, NEW due \in BOOLEAN,
         UpdateDelivery(d, status, n, due),
         status \notin {"absent", "deleted"}, n <= runner[w].attempts + 1,
         status = "failed" => runner[w].attempts + 1 >= MaxAttempts,
         UNCHANGED <<endpoint, fanout, posts>>, faults' \in 0..MaxFaults
  PROVE  IInv'
<1>1. TypeInv /\ RunnerInv(w) /\ RowInv(d)
  BY DEF IInv
<1>2. delivery[d].status # "absent" /\ Backed(d, runner[w].attempts + 1)
  BY <1>1 DEF RunnerInv, InHand
<1>3. runner[w].attempts \in Nat /\ posts[d] \in 0..MaxAttempts
  BY <1>1 DEF TypeInv, Locals
<1>4. /\ delivery' \in [Deliveries -> Rows]
      /\ \A x \in Deliveries : x # d => delivery'[x] = delivery[x]
      /\ \/ delivery'[d] = delivery[d]
         \/ /\ delivery[d].status # "deleted"
            /\ delivery'[d].status = status
            /\ delivery'[d].attempts = n
            /\ delivery'[d].endpoint = delivery[d].endpoint
  BY <1>1, UpdateKeeps
<1>5. TypeInv'
  BY <1>1, <1>4, AdvanceKeeps DEF TypeInv
<1>6. ASSUME NEW x \in Deliveries PROVE RowInv(x)'
  <2>1. CASE delivery'[x] = delivery[x]
    <3>1. RowInv(x)
      BY DEF IInv
    <3>. QED
      BY <2>1, <3>1 DEF RowInv, Backed, Live
  <2>2. CASE delivery'[x] # delivery[x]
    <3>1. x = d /\ delivery[d].status \notin {"absent", "deleted"}
          /\ delivery'[d].status = status /\ delivery'[d].attempts = n
          /\ delivery'[d].endpoint = delivery[d].endpoint
      BY <1>2, <1>4, <2>2
    <3>2. delivery[d].endpoint \in Endpoints /\ Live(delivery[d].endpoint)
      BY <1>1, <3>1 DEF RowInv
    <3>3. posts[d] = MaxAttempts \/ n <= posts[d]
      BY <1>2, <1>3 DEF Backed
    <3>4. status = "failed" => posts[d] = MaxAttempts
      BY <1>2, <1>3, MaxAttemptsIsPositive DEF Backed
    <3>5. RowInv(d)'
      BY <3>1, <3>2, <3>3, <3>4 DEF RowInv, Backed, Live
    <3>. QED
      BY <3>1, <3>5
  <2>. QED
    BY <2>1, <2>2
<1>7. \A x \in Deliveries :
        delivery[x].status # "absent" => delivery'[x].status # "absent"
  BY <1>4
<1>8. ASSUME NEW x \in Runners PROVE RunnerInv(x)'
  <2>1. RunnerInv(x)
    BY DEF IInv
  <2>2. CASE x = w
    <3>1. /\ runner'[w].todo \subseteq runner[w].todo
          /\ runner[w].todo \subseteq Deliveries
          /\ ~At(w, "endpoint")' /\ ~At(w, "answer")'
      BY <1>1, AdvanceKeeps DEF TypeInv, Locals
    <3>2. \A y \in runner'[w].todo : delivery'[y].status # "absent"
      BY <1>7, <2>1, <2>2, <3>1 DEF RunnerInv
    <3>. QED
      BY <2>2, <3>1, <3>2 DEF RunnerInv
  <2>3. CASE x # w
    <3>1. runner'[x] = runner[x]
      BY <1>1, <2>3, AdvanceKeeps
    <3>2. \A y \in Deliveries : posts'[y] \in posts[y]..MaxAttempts
      BY <1>1 DEF TypeInv
    <3>. QED
      BY <1>1, <1>7, <2>1, <3>1, <3>2, RunnerKept
  <2>. QED
    BY <2>2, <2>3
<1>. QED
  BY <1>5, <1>6, <1>8 DEF IInv

\* scheduleRetryOrFail gives up only at the limit.
LEMMA RetryStep ==
  ASSUME IInv, NEW w \in Runners, At(w, "answer"), RetryOrFail(w), Advance(w),
         UNCHANGED <<endpoint, fanout, posts>>, faults' \in 0..MaxFaults
  PROVE  IInv'
<1>1. PICK d \in Deliveries : d = runner[w].delivery
  BY DEF IInv, RunnerInv, InHand
<1>2. PICK n \in Nat : n = runner[w].attempts + 1
  BY DEF IInv, TypeInv, Locals
<1>3. PICK due \in BOOLEAN : due = delivery[d].due
  BY DEF IInv, TypeInv, Rows
<1>4. CASE n >= MaxAttempts
  <2>1. UpdateDelivery(d, "failed", n, due)
    BY <1>1, <1>2, <1>3, <1>4 DEF RetryOrFail
  <2>2. "failed" \in Statuses /\ n <= runner[w].attempts + 1
    BY <1>2 DEF Statuses
  <2>. QED
    BY <1>1, <1>2, <1>4, <2>1, <2>2, RecordStep
<1>5. CASE ~(n >= MaxAttempts)
  <2>1. UpdateDelivery(d, "pending", n, FALSE)
    BY <1>1, <1>2, <1>5 DEF RetryOrFail
  <2>2. "pending" \in Statuses /\ n <= runner[w].attempts + 1
    BY <1>2 DEF Statuses
  <2>. QED
    BY <1>1, <2>1, <2>2, RecordStep
<1>. QED
  BY <1>4, <1>5

\* A new row is backed by nothing, and no runner held it.
LEMMA QueueStepRows ==
  ASSUME IInv, NEW d \in Deliveries, NEW e \in Endpoints, Live(e), Queue(d, e),
         UNCHANGED <<endpoint, posts>>
  PROVE  /\ delivery' \in [Deliveries -> Rows]
         /\ \A x \in Deliveries : RowInv(x)'
         /\ \A x \in Deliveries :
              delivery[x].status # "absent" => delivery'[x].status # "absent"
<1>1. delivery' \in [Deliveries -> Rows]
  BY DEF IInv, TypeInv, Queue, Rows, Statuses
<1>2. /\ delivery'[d] = [status |-> "pending", endpoint |-> e,
                         attempts |-> 0, due |-> TRUE]
      /\ \A x \in Deliveries : x # d => delivery'[x] = delivery[x]
  BY DEF IInv, TypeInv, Queue
<1>3. ASSUME NEW x \in Deliveries PROVE RowInv(x)'
  <2>1. RowInv(x) /\ posts[x] \in 0..MaxAttempts
    BY DEF IInv, TypeInv
  <2>. QED
    BY <1>2, <2>1 DEF RowInv, Backed, Live
<1>. QED
  BY <1>1, <1>2, <1>3

\* The runners a step leaves alone, when it adds or updates rows only.
LEMMA OthersKept ==
  ASSUME IInv, NEW W \in SUBSET Runners, \A x \in W : runner'[x] = runner[x],
         \A d \in Deliveries :
           delivery[d].status # "absent" => delivery'[d].status # "absent",
         UNCHANGED posts
  PROVE  \A x \in W : RunnerInv(x)'
<1>1. TypeInv /\ \A x \in W : RunnerInv(x)
  BY DEF IInv
<1>2. \A d \in Deliveries : posts'[d] \in posts[d]..MaxAttempts
  BY <1>1, MaxAttemptsIsPositive DEF TypeInv
<1>. QED
  BY <1>1, <1>2, RunnerKept

\* A step of one runner that touches no row.
LEMMA RunnerStep ==
  ASSUME IInv, NEW w \in Runners, NEW r \in Locals,
         runner' = [runner EXCEPT ![w] = r], RunnerInv(w)',
         UNCHANGED <<endpoint, delivery, fanout, posts>>,
         faults' \in 0..MaxFaults
  PROVE  IInv'
<1>1. TypeInv' /\ \A x \in Runners \ {w} : runner'[x] = runner[x]
  BY DEF IInv, TypeInv
<1>2. \A d \in Deliveries : RowInv(d)'
  BY RowKept DEF IInv, Live
<1>3. \A x \in Runners \ {w} : RunnerInv(x)'
  BY <1>1, OthersKept
<1>. QED
  BY <1>1, <1>2, <1>3 DEF IInv

\* A runner done with its row.
LEMMA AdvanceStep ==
  ASSUME IInv, NEW w \in Runners, Advance(w),
         UNCHANGED <<endpoint, delivery, fanout, posts>>,
         faults' \in 0..MaxFaults
  PROVE  IInv'
<1>1. TypeInv /\ RunnerInv(w)
  BY DEF IInv
<1>2. /\ runner' \in [Runners -> Locals]
      /\ \A x \in Runners : x # w => runner'[x] = runner[x]
      /\ runner'[w].todo \subseteq runner[w].todo
      /\ ~At(w, "endpoint")' /\ ~At(w, "answer")'
  BY <1>1, AdvanceKeeps
<1>3. RunnerInv(w)'
  BY <1>1, <1>2 DEF RunnerInv
<1>4. \A x \in Runners \ {w} : RunnerInv(x)'
  BY <1>2, OthersKept
<1>5. \A d \in Deliveries : RowInv(d)'
  BY RowKept DEF IInv, Live
<1>6. TypeInv'
  BY <1>1, <1>2 DEF TypeInv
<1>. QED
  BY <1>3, <1>4, <1>5, <1>6 DEF IInv

-----------------------------------------------------------------------------
(* One lemma per kind of step.                                             *)

\* Deleting an endpoint takes its rows with it; the rest only come and go.
LEMMA EndpointKeeps ==
  ASSUME IInv, EndpointStep
  PROVE  IInv'
<1>1. PICK e \in Endpoints : \/ RegisterEndpoint(e)
                             \/ UpdateEndpoint(e)
                             \/ DeleteEndpoint(e)
  BY DEF EndpointStep
<1>2. TypeInv /\ UNCHANGED <<fanout, runner, posts, faults>>
  BY <1>1 DEF IInv, RegisterEndpoint, UpdateEndpoint, DeleteEndpoint
<1>3. CASE RegisterEndpoint(e) \/ UpdateEndpoint(e)
  <2>1. /\ endpoint' \in [Endpoints ->
                            {"absent", "active", "inactive", "deleted"}]
        /\ UNCHANGED delivery
    BY <1>2, <1>3 DEF TypeInv, RegisterEndpoint, UpdateEndpoint
  <2>2. \A x \in Endpoints : Live(x) => Live(x)'
    BY <1>2, <1>3 DEF TypeInv, RegisterEndpoint, UpdateEndpoint, Live
  <2>3. \A d \in Deliveries : RowInv(d)'
    BY <1>2, <2>1, <2>2, RowKept DEF IInv
  <2>4. \A x \in Runners : RunnerInv(x)'
    BY <1>2, <2>1, OthersKept
  <2>5. TypeInv'
    BY <1>2, <2>1 DEF TypeInv
  <2>. QED
    BY <2>3, <2>4, <2>5 DEF IInv
<1>4. CASE DeleteEndpoint(e)
  <2>1. TypeInv'
    BY <1>2, <1>4 DEF TypeInv, DeleteEndpoint, NoDelivery, Rows, Statuses
  <2>2. \A d \in Deliveries :
          \/ delivery[d].endpoint # e /\ delivery'[d] = delivery[d]
          \/ delivery'[d].status = "deleted" /\ delivery'[d].attempts = 0
    BY <1>4 DEF DeleteEndpoint, NoDelivery
  <2>3. \A x \in Endpoints : x # e => endpoint'[x] = endpoint[x]
    BY <1>2, <1>4 DEF TypeInv, DeleteEndpoint
  <2>4. ASSUME NEW d \in Deliveries PROVE RowInv(d)'
    <3>1. RowInv(d) /\ posts[d] \in 0..MaxAttempts
      BY <1>2 DEF IInv, TypeInv
    <3>. QED
      BY <1>2, <2>2, <2>3, <3>1 DEF RowInv, Backed, Live
  <2>5. \A x \in Runners : RunnerInv(x)'
    BY <1>2, <2>2, OthersKept
  <2>. QED
    BY <2>1, <2>4, <2>5 DEF IInv
<1>. QED
  BY <1>1, <1>3, <1>4

\* A fan-out or a test event adds rows, and nothing else about the rows changes.
LEMMA QueueKeeps ==
  ASSUME IInv, QueueStep
  PROVE  IInv'
<1>. USE DEF IInv, TypeInv
<1>1. ASSUME NEW v \in Events, NEW S \in SUBSET Endpoints, FanoutList(v, S)
      PROVE  IInv'
  <2>1. fanout' \in [Events -> SUBSET Endpoints]
        /\ UNCHANGED <<endpoint, delivery, runner, posts, faults>>
    BY <1>1 DEF FanoutList
  <2>2. \A d \in Deliveries : RowInv(d)'
    BY <2>1, RowKept DEF Live
  <2>3. \A x \in Runners : RunnerInv(x)'
    BY <2>1, OthersKept
  <2>. QED
    BY <2>1, <2>2, <2>3
<1>2. ASSUME NEW v \in Events, NEW e \in Endpoints, FanoutRefused(v, e)
      PROVE  IInv'
  <2>1. fanout' \in [Events -> SUBSET Endpoints]
        /\ UNCHANGED <<endpoint, delivery, runner, posts, faults>>
    BY <1>2 DEF FanoutRefused
  <2>2. \A d \in Deliveries : RowInv(d)'
    BY <2>1, RowKept DEF Live
  <2>3. \A x \in Runners : RunnerInv(x)'
    BY <2>1, OthersKept
  <2>. QED
    BY <2>1, <2>2, <2>3
<1>3. ASSUME NEW v \in Events, NEW e \in Endpoints, NEW d \in Deliveries,
             FanoutQueue(v, e, d)
      PROVE  IInv'
  <2>1. /\ fanout' \in [Events -> SUBSET Endpoints]
        /\ Live(e) /\ Queue(d, e)
        /\ UNCHANGED <<endpoint, runner, posts, faults>>
    BY <1>3 DEF FanoutQueue
  <2>2. /\ delivery' \in [Deliveries -> Rows]
        /\ \A x \in Deliveries : RowInv(x)'
        /\ \A x \in Deliveries :
             delivery[x].status # "absent" => delivery'[x].status # "absent"
    BY <2>1, QueueStepRows
  <2>3. \A x \in Runners : RunnerInv(x)'
    BY <2>1, <2>2, OthersKept
  <2>. QED
    BY <2>1, <2>2, <2>3
<1>4. ASSUME NEW w \in Runners, NEW e \in Endpoints, NEW d \in Deliveries,
             TestEvent(w, e, d)
      PROVE  IInv'
  <2>1. /\ Live(e) /\ Queue(d, e)
        /\ UNCHANGED <<endpoint, fanout, posts, faults>>
    BY <1>4 DEF TestEvent
  <2>2. /\ delivery' \in [Deliveries -> Rows]
        /\ \A x \in Deliveries : RowInv(x)'
        /\ \A x \in Deliveries :
             delivery[x].status # "absent" => delivery'[x].status # "absent"
    BY <2>1, QueueStepRows
  <2>3. /\ runner' \in [Runners -> Locals]
        /\ runner'[w] = [Idle EXCEPT !.stage = "next", !.todo = {d}]
        /\ \A x \in Runners \ {w} : runner'[x] = runner[x]
    BY <1>4 DEF TestEvent, Idle, Locals
  <2>4. \A x \in Runners \ {w} : RunnerInv(x)'
    BY <2>1, <2>2, <2>3, OthersKept
  <2>5. delivery'[d].status # "absent"
    BY <2>1 DEF Queue
  <2>6. RunnerInv(w)'
    BY <2>3, <2>5 DEF RunnerInv, At, Idle
  <2>. QED
    BY <2>1, <2>2, <2>3, <2>4, <2>6
<1>. QED
  BY <1>1, <1>2, <1>3, <1>4 DEF QueueStep

\* Reading a row copies its count; the POST that follows backs one more.
LEMMA RunKeeps ==
  ASSUME IInv, NEW w \in Runners, RunStep(w)
  PROVE  IInv'
<1>1. TypeInv /\ RunnerInv(w) /\ runner[w] \in Locals
  BY DEF IInv, TypeInv
<1>2. CASE StartRun(w)
  <2>1. PICK r \in Locals : r = [Idle EXCEPT !.stage = "next", !.todo = FindDue]
    BY DEF Idle, Locals, FindDue
  <2>2. runner' = [runner EXCEPT ![w] = r]
        /\ UNCHANGED <<endpoint, delivery, fanout, posts, faults>>
    BY <1>2, <2>1 DEF StartRun
  <2>3. runner'[w] = r
    BY <1>1, <2>2 DEF TypeInv
  <2>4. RunnerInv(w)'
    <3>1. r.stage = "next" /\ r.todo = FindDue
      BY <2>1 DEF Idle
    <3>2. \A x \in FindDue : delivery[x].status # "absent"
      BY DEF FindDue
    <3>. QED
      BY <2>2, <2>3, <3>1, <3>2 DEF RunnerInv, At
  <2>. QED
    BY <1>1, <2>2, <2>4, RunnerStep DEF TypeInv
<1>3. ASSUME NEW d \in Deliveries, ReadDelivery(w, d)
      PROVE  IInv'
  <2>. DEFINE rest == runner[w].todo \ {d}
  <2>1. /\ d \in runner[w].todo
        /\ delivery[d] \in Rows
        /\ UNCHANGED <<endpoint, delivery, fanout, posts, faults>>
    BY <1>1, <1>3 DEF ReadDelivery, TypeInv
  <2>2. /\ delivery[d].status # "absent"
        /\ \A x \in rest : delivery[x].status # "absent"
    BY <1>1, <2>1 DEF RunnerInv
  <2>3. CASE delivery[d].status # "deleted"
    <3>1. PICK r \in Locals :
            r = [stage |-> "endpoint", todo |-> rest, delivery |-> d,
                 attempts |-> delivery[d].attempts]
      BY <1>1, <2>1 DEF Locals, Rows
    <3>2. runner' = [runner EXCEPT ![w] = r]
      BY <1>3, <2>3, <3>1 DEF ReadDelivery
    <3>3. runner'[w] = r
      BY <1>1, <3>2 DEF TypeInv
    <3>4. Backed(d, r.attempts)
      BY <3>1 DEF IInv, RowInv
    <3>5. RunnerInv(w)'
      BY <2>1, <2>2, <3>1, <3>3, <3>4 DEF RunnerInv, At, InHand, Backed
    <3>. QED
      BY <1>1, <2>1, <3>2, <3>5, RunnerStep DEF TypeInv
  <2>4. CASE delivery[d].status = "deleted" /\ rest # {}
    <3>1. PICK r \in Locals : r = [Idle EXCEPT !.stage = "next", !.todo = rest]
      BY <1>1 DEF Idle, Locals
    <3>2. runner' = [runner EXCEPT ![w] = r]
      BY <1>3, <2>4, <3>1 DEF ReadDelivery
    <3>3. runner'[w] = r /\ r.stage = "next" /\ r.todo = rest
      BY <1>1, <3>1, <3>2 DEF TypeInv, Idle
    <3>4. RunnerInv(w)'
      BY <2>1, <2>2, <3>3 DEF RunnerInv, At
    <3>. QED
      BY <1>1, <2>1, <3>2, <3>4, RunnerStep DEF TypeInv
  <2>5. CASE delivery[d].status = "deleted" /\ rest = {}
    <3>1. Idle \in Locals
      BY DEF Idle, Locals
    <3>2. runner' = [runner EXCEPT ![w] = Idle]
      BY <1>3, <2>5 DEF ReadDelivery
    <3>3. RunnerInv(w)'
      BY <1>1, <3>2 DEF TypeInv, RunnerInv, At, Idle
    <3>. QED
      BY <1>1, <2>1, <3>1, <3>2, <3>3, RunnerStep DEF TypeInv
  <2>. QED
    BY <2>3, <2>4, <2>5
<1>4. CASE Post(w)
  <2>1. PICK d \in Deliveries : d = runner[w].delivery
    BY <1>1, <1>4 DEF Post, RunnerInv, InHand
  <2>2. UNCHANGED <<endpoint, delivery, fanout, faults>>
    BY <1>4 DEF Post
  <2>3. CASE delivery[d].status = "deleted"
    <3>1. Advance(w) /\ UNCHANGED posts
      BY <1>4, <2>1, <2>3 DEF Post
    <3>. QED
      BY <1>1, <2>2, <3>1, AdvanceStep DEF TypeInv
  <2>4. CASE delivery[d].status # "deleted"
    <3>1. /\ posts' = [posts EXCEPT ![d] = IF @ < MaxAttempts THEN @ + 1 ELSE @]
          /\ runner' = [runner EXCEPT ![w].stage = "answer"]
      BY <1>4, <2>1, <2>4 DEF Post
    <3>2. \A x \in Deliveries : posts[x] \in 0..MaxAttempts
      BY <1>1 DEF TypeInv
    <3>3. /\ \A x \in Deliveries : posts'[x] \in posts[x]..MaxAttempts
          /\ posts[d] # MaxAttempts => posts'[d] = posts[d] + 1
      BY <1>1, <3>1, <3>2, MaxAttemptsIsPositive DEF TypeInv
    <3>4. posts' \in [Deliveries -> 0..MaxAttempts]
      BY <1>1, <3>1, <3>2, MaxAttemptsIsPositive DEF TypeInv
    <3>5. /\ runner' \in [Runners -> Locals]
          /\ \A x \in Runners : x # w => runner'[x] = runner[x]
          /\ runner'[w] = [runner[w] EXCEPT !.stage = "answer"]
      BY <1>1, <3>1 DEF TypeInv, Locals
    <3>6. TypeInv'
      BY <1>1, <2>2, <3>4, <3>5 DEF TypeInv
    <3>7. ASSUME NEW x \in Deliveries PROVE RowInv(x)'
      <4>1. RowInv(x) /\ posts'[x] \in posts[x]..MaxAttempts
            /\ posts[x] \in 0..MaxAttempts /\ delivery[x].attempts \in Nat
        BY <1>1, <3>2, <3>3 DEF IInv, TypeInv, Rows
      <4>. QED
        BY <2>2, <4>1, MaxAttemptsIsPositive DEF RowInv, Backed, Live
    <3>8. ASSUME NEW x \in Runners, x # w PROVE RunnerInv(x)'
      <4>1. RunnerInv(x)
        BY DEF IInv
      <4>. QED
        BY <1>1, <2>2, <3>3, <3>5, <3>8, <4>1, RunnerKept
    <3>9. RunnerInv(w)'
      <4>1. /\ runner'[w].todo = runner[w].todo
            /\ runner'[w].delivery = d
            /\ runner'[w].attempts = runner[w].attempts
            /\ runner'[w].stage = "answer"
            /\ runner[w].attempts \in Nat
        BY <1>1, <2>1, <3>5 DEF Locals
      <4>2. delivery[d].status # "absent" /\ Backed(d, runner[w].attempts)
        BY <1>1, <1>4, <2>1 DEF RunnerInv, InHand, Post
      <4>3. posts'[d] = MaxAttempts \/ runner[w].attempts + 1 <= posts'[d]
        BY <3>2, <3>3, <4>1, <4>2, MaxAttemptsIsPositive DEF Backed
      <4>. QED
        BY <1>1, <2>2, <4>1, <4>2, <4>3 DEF RunnerInv, InHand, At, Backed
    <3>. QED
      BY <3>6, <3>7, <3>8, <3>9 DEF IInv
  <2>. QED
    BY <2>3, <2>4
<1>5. CASE Succeed(w)
  <2>1. PICK d \in Deliveries : d = runner[w].delivery
    BY <1>1, <1>5 DEF Succeed, RunnerInv, InHand
  <2>2. PICK n \in Nat : n = runner[w].attempts + 1
    BY <1>1 DEF Locals
  <2>3. PICK due \in BOOLEAN : due = delivery[d].due
    BY <1>1 DEF TypeInv, Rows
  <2>4. /\ UpdateDelivery(d, "success", n, due)
        /\ At(w, "answer") /\ Advance(w)
        /\ UNCHANGED <<endpoint, fanout, posts, faults>>
    BY <1>5, <2>1, <2>2, <2>3 DEF Succeed
  <2>5. "success" \in Statuses /\ n <= runner[w].attempts + 1
    BY <2>2 DEF Statuses
  <2>6. faults' \in 0..MaxFaults
    BY <1>1, <2>4 DEF TypeInv
  <2>. QED
    BY <2>1, <2>4, <2>5, <2>6, RecordStep
<1>6. CASE Fail(w)
  <2>1. /\ At(w, "answer") /\ RetryOrFail(w) /\ Advance(w)
        /\ UNCHANGED <<endpoint, fanout, posts, faults>>
    BY <1>6 DEF Fail
  <2>2. faults' \in 0..MaxFaults
    BY <1>1, <2>1 DEF TypeInv
  <2>. QED
    BY <2>1, <2>2, RetryStep
<1>. QED
  BY <1>2, <1>3, <1>4, <1>5, <1>6 DEF RunStep

\* The passing of time changes no count.
LEMMA DueKeeps ==
  ASSUME IInv, NEW d \in Deliveries, BecomeDue(d)
  PROVE  IInv'
<1>1. TypeInv /\ UNCHANGED <<endpoint, fanout, runner, posts, faults>>
  BY DEF IInv, BecomeDue
<1>2. delivery' \in [Deliveries -> Rows]
      /\ \A x \in Deliveries : /\ delivery'[x].status = delivery[x].status
                               /\ delivery'[x].endpoint = delivery[x].endpoint
                               /\ delivery'[x].attempts = delivery[x].attempts
  BY <1>1 DEF TypeInv, Rows, BecomeDue
<1>3. \A x \in Deliveries : RowInv(x)'
  BY <1>1, <1>2 DEF IInv, RowInv, Backed, Live
<1>4. \A x \in Runners : RunnerInv(x)'
  BY <1>1, <1>2, OthersKept
<1>5. TypeInv'
  BY <1>1, <1>2 DEF TypeInv
<1>. QED
  BY <1>3, <1>4, <1>5 DEF IInv

\* A lost result is a retry or nothing; a restart forgets what was in hand.
LEMMA FaultKeeps ==
  ASSUME IInv, FaultStep
  PROVE  IInv'
<1>1. TypeInv /\ faults' \in 0..MaxFaults
  BY MaxFaultsIsNatural
     DEF IInv, TypeInv, FaultStep, SuccessLost, Skip, Restart, Fault
<1>2. ASSUME NEW w \in Runners, SuccessLost(w)
      PROVE  IInv'
  BY <1>1, <1>2, RetryStep DEF SuccessLost
<1>3. ASSUME NEW w \in Runners, Skip(w)
      PROVE  IInv'
  BY <1>1, <1>3, AdvanceStep DEF Skip
<1>4. CASE Restart
  <2>1. TypeInv' /\ UNCHANGED <<endpoint, delivery, posts>>
    BY <1>1, <1>4 DEF TypeInv, Restart, Idle, Locals
  <2>2. \A x \in Runners : RunnerInv(x)'
    BY <1>4 DEF Restart, RunnerInv, At, Idle
  <2>3. \A d \in Deliveries : RowInv(d)'
    BY <2>1, RowKept DEF IInv, Live
  <2>. QED
    BY <2>1, <2>2, <2>3 DEF IInv
<1>. QED
  BY <1>2, <1>3, <1>4 DEF FaultStep

\* A stuttering step keeps every conjunct.
LEMMA StutterKeeps == IInv /\ UNCHANGED vars => IInv'
BY DEF vars, IInv, TypeInv, RowInv, Backed, RunnerInv, InHand, At, Live

-----------------------------------------------------------------------------
(* Deliveries that are settled.                                            *)

Settled(d) == delivery[d].status \in {"success", "failed"}

\* A runner that has the delivery in hand takes its step.
HolderSteps(d) ==
  \E w \in Holders(d) : runner[w].delivery = d /\ runner'[w] # runner[w]

\* What becomes of such a delivery in a step.
Undisturbed(d) ==
  /\ Holders(d)' \subseteq Holders(d)
  /\ \/ /\ delivery'[d] = delivery[d] \/ delivery'[d].status = "deleted"
        /\ posts'[d] = posts[d]
     \/ HolderSteps(d)

\* Nobody comes to hold it if the runner that moves does not.
LEMMA NoNewHolder ==
  ASSUME NEW d \in Deliveries, NEW w \in Runners,
         \A x \in Runners : x # w => runner'[x] = runner[x],
         d \in runner'[w].todo \/ d = runner'[w].delivery =>
           d \in runner[w].todo \/ d = runner[w].delivery
  PROVE  Holders(d)' \subseteq Holders(d)
BY DEF Holders

\* A runner that goes on to its next row.
LEMMA AdvanceLeaves ==
  ASSUME TypeInv, NEW d \in Deliveries, NEW w \in Runners, Advance(w)
  PROVE  Holders(d)' \subseteq Holders(d)
<1>1. /\ \A x \in Runners : x # w => runner'[x] = runner[x]
      /\ runner'[w].todo \subseteq runner[w].todo
  BY AdvanceKeeps
<1>2. runner'[w].delivery = None
  BY DEF TypeInv, Advance, Idle
<1>. QED
  BY <1>1, <1>2, NoNewHolder, NoneIsNothing

\* A runner records the result of the row in hand: it is this one or another.
LEMMA RecordLeaves ==
  ASSUME TypeInv, NEW d \in Deliveries, NEW w \in Runners,
         At(w, "answer"), Advance(w), UNCHANGED posts,
         \E status \in Statuses : \E n, due :
           UpdateDelivery(runner[w].delivery, status, n, due)
  PROVE  Undisturbed(d)
<1>1. Holders(d)' \subseteq Holders(d)
  BY AdvanceLeaves
<1>2. CASE runner[w].delivery = d
  <2>1. runner'[w].stage \in {"idle", "next"}
    BY DEF TypeInv, Advance, Idle
  <2>2. w \in Holders(d) /\ runner'[w] # runner[w]
    BY <1>2, <2>1 DEF Holders, At
  <2>. QED
    BY <1>1, <1>2, <2>2 DEF Undisturbed, HolderSteps
<1>3. CASE runner[w].delivery # d
  <2>1. delivery'[d] = delivery[d]
    BY <1>3 DEF TypeInv, UpdateDelivery
  <2>. QED
    BY <1>1, <2>1 DEF Undisturbed
<1>. QED
  BY <1>2, <1>3

\* scheduleRetryOrFail is such a result.
LEMMA RetryUpdates ==
  ASSUME NEW w \in Runners, RetryOrFail(w)
  PROVE  \E status \in Statuses : \E n, due :
           UpdateDelivery(runner[w].delivery, status, n, due)
BY DEF RetryOrFail, Statuses

\* A delivery that is new is not the settled one.
LEMMA QueueLeaves ==
  ASSUME TypeInv, NEW d \in Deliveries, Settled(d),
         NEW x \in Deliveries, NEW e \in Endpoints, Queue(x, e)
  PROVE  x # d /\ delivery'[d] = delivery[d]
BY DEF TypeInv, Settled, Queue

\* The listing finds pending rows only, a runner takes up only what it listed,
\* and writes only what it has in hand.
LEMMA SettledStep ==
  ASSUME IInv, Next, NEW d \in Deliveries, Settled(d)
  PROVE  Undisturbed(d)
<1>1. TypeInv /\ delivery[d].status \in {"success", "failed"}
  BY DEF IInv, Settled
<1>2. ASSUME UNCHANGED <<posts, runner>>,
             delivery'[d] = delivery[d] \/ delivery'[d].status = "deleted"
      PROVE  Undisturbed(d)
  BY <1>1, <1>2 DEF Undisturbed, Holders
<1>3. CASE EndpointStep
  <2>1. UNCHANGED <<posts, runner>>
    BY <1>3 DEF EndpointStep, RegisterEndpoint, UpdateEndpoint, DeleteEndpoint
  <2>2. delivery'[d] = delivery[d] \/ delivery'[d].status = "deleted"
    BY <1>3 DEF EndpointStep, RegisterEndpoint, UpdateEndpoint,
                DeleteEndpoint, NoDelivery
  <2>. QED
    BY <1>2, <2>1, <2>2
<1>4. CASE QueueStep
  <2>1. ASSUME NEW v \in Events, NEW e \in Endpoints, NEW x \in Deliveries,
               FanoutQueue(v, e, x)
        PROVE  Undisturbed(d)
    <3>1. Queue(x, e) /\ UNCHANGED <<posts, runner>>
      BY <2>1 DEF FanoutQueue
    <3>. QED
      BY <1>1, <1>2, <3>1, QueueLeaves
  <2>2. ASSUME NEW w \in Runners, NEW e \in Endpoints, NEW x \in Deliveries,
               TestEvent(w, e, x)
        PROVE  Undisturbed(d)
    <3>1. Queue(x, e) /\ UNCHANGED posts
      BY <2>2 DEF TestEvent
    <3>2. x # d /\ delivery'[d] = delivery[d]
      BY <1>1, <3>1, QueueLeaves
    <3>3. /\ \A y \in Runners : y # w => runner'[y] = runner[y]
          /\ runner'[w].todo = {x} /\ runner'[w].delivery = None
      BY <1>1, <2>2 DEF TypeInv, TestEvent, Idle
    <3>4. Holders(d)' \subseteq Holders(d)
      BY <3>2, <3>3, NoNewHolder, NoneIsNothing
    <3>. QED
      BY <3>1, <3>2, <3>4 DEF Undisturbed
  <2>3. CASE \E v \in Events, S \in SUBSET Endpoints : FanoutList(v, S)
    BY <1>2, <2>3 DEF FanoutList
  <2>4. CASE \E v \in Events, e \in Endpoints : FanoutRefused(v, e)
    BY <1>2, <2>4 DEF FanoutRefused
  <2>. QED
    BY <1>4, <2>1, <2>2, <2>3, <2>4 DEF QueueStep
<1>5. ASSUME NEW w \in Runners, RunStep(w)
      PROVE  Undisturbed(d)
  <2>1. CASE StartRun(w)
    <3>1. d \notin FindDue
      BY <1>1 DEF FindDue
    <3>2. /\ \A y \in Runners : y # w => runner'[y] = runner[y]
          /\ runner'[w].todo = FindDue /\ runner'[w].delivery = None
          /\ UNCHANGED <<delivery, posts>>
      BY <1>1, <2>1 DEF TypeInv, StartRun, Idle
    <3>3. Holders(d)' \subseteq Holders(d)
      BY <3>1, <3>2, NoNewHolder, NoneIsNothing
    <3>. QED
      BY <3>2, <3>3 DEF Undisturbed
  <2>2. ASSUME NEW x \in Deliveries, ReadDelivery(w, x)
        PROVE  Undisturbed(d)
    <3>1. \A y \in Runners : y # w => runner'[y] = runner[y]
      BY <1>1, <2>2 DEF TypeInv, ReadDelivery
    <3>2. /\ x \in runner[w].todo
          /\ runner'[w].todo \subseteq runner[w].todo \ {x}
          /\ runner'[w].delivery \in {x, None}
      <4>. x \in runner[w].todo
        BY <2>2 DEF ReadDelivery
      <4>1. CASE delivery[x].status # "deleted"
        BY <1>1, <2>2, <4>1 DEF TypeInv, ReadDelivery
      <4>2. CASE delivery[x].status = "deleted" /\ runner[w].todo \ {x} = {}
        BY <1>1, <2>2, <4>2 DEF TypeInv, ReadDelivery, Idle
      <4>3. CASE delivery[x].status = "deleted" /\ runner[w].todo \ {x} # {}
        BY <1>1, <2>2, <4>3 DEF TypeInv, ReadDelivery, Idle
      <4>. QED
        BY <4>1, <4>2, <4>3
    <3>3. Holders(d)' \subseteq Holders(d)
      BY <3>1, <3>2, NoNewHolder, NoneIsNothing
    <3>. QED
      BY <2>2, <3>3 DEF Undisturbed, ReadDelivery
  <2>3. CASE Post(w)
    <3>1. UNCHANGED delivery /\ At(w, "endpoint")
      BY <2>3 DEF Post
    <3>2. CASE Advance(w) /\ UNCHANGED posts
      BY <1>1, <3>1, <3>2, AdvanceLeaves DEF Undisturbed
    <3>3. CASE runner' = [runner EXCEPT ![w].stage = "answer"]
      <4>1. /\ \A y \in Runners : y # w => runner'[y] = runner[y]
            /\ runner'[w].todo = runner[w].todo
            /\ runner'[w].delivery = runner[w].delivery
            /\ runner'[w] # runner[w]
        BY <1>1, <3>1, <3>3 DEF TypeInv, Locals, At
      <4>2. Holders(d)' \subseteq Holders(d)
        BY <4>1, NoNewHolder
      <4>3. CASE runner[w].delivery = d
        BY <4>1, <4>2, <4>3 DEF Undisturbed, HolderSteps, Holders
      <4>4. CASE runner[w].delivery # d
        <5>1. posts'[d] = posts[d]
          BY <1>1, <2>3, <4>4 DEF TypeInv, Post
        <5>. QED
          BY <3>1, <4>2, <5>1 DEF Undisturbed
      <4>. QED
        BY <4>3, <4>4
    <3>. QED
      BY <2>3, <3>2, <3>3 DEF Post
  <2>4. CASE Succeed(w)
    <3>1. At(w, "answer") /\ Advance(w) /\ UNCHANGED posts
      BY <2>4 DEF Succeed
    <3>2. \E status \in Statuses : \E n, due :
            UpdateDelivery(runner[w].delivery, status, n, due)
      BY <2>4 DEF Succeed, Statuses
    <3>. QED
      BY <1>1, <3>1, <3>2, RecordLeaves
  <2>5. CASE Fail(w)
    <3>1. At(w, "answer") /\ RetryOrFail(w) /\ Advance(w) /\ UNCHANGED posts
      BY <2>5 DEF Fail
    <3>. QED
      BY <1>1, <3>1, RetryUpdates, RecordLeaves
  <2>. QED
    BY <1>5, <2>1, <2>2, <2>3, <2>4, <2>5 DEF RunStep
<1>6. ASSUME NEW x \in Deliveries, BecomeDue(x)
      PROVE  Undisturbed(d)
  BY <1>1, <1>2, <1>6 DEF TypeInv, BecomeDue
<1>7. CASE FaultStep
  <2>1. ASSUME NEW w \in Runners, SuccessLost(w)
        PROVE  Undisturbed(d)
    <3>1. At(w, "answer") /\ RetryOrFail(w) /\ Advance(w) /\ UNCHANGED posts
      BY <2>1 DEF SuccessLost
    <3>. QED
      BY <1>1, <3>1, RetryUpdates, RecordLeaves
  <2>2. ASSUME NEW w \in Runners, Skip(w)
        PROVE  Undisturbed(d)
    BY <1>1, <2>2, AdvanceLeaves DEF Skip, Undisturbed
  <2>3. CASE Restart
    <3>1. Holders(d)' \subseteq Holders(d)
      BY <2>3, NoneIsNothing DEF Restart, Idle, Holders
    <3>. QED
      BY <2>3, <3>1 DEF Restart, Undisturbed
  <2>. QED
    BY <1>7, <2>1, <2>2, <2>3 DEF FaultStep
<1>. QED
  BY <1>3, <1>4, <1>5, <1>6, <1>7 DEF Next

-----------------------------------------------------------------------------
(* The theorems.                                                           *)

\* The invariant holds in every reachable state.
THEOREM Inductive == Spec => []IInv
<1>1. IInv /\ [Next]_vars => IInv'
  BY EndpointKeeps, QueueKeeps, RunKeeps, DueKeeps, FaultKeeps, StutterKeeps
     DEF Next
<1>. QED
  BY InitIInv, <1>1, PTL DEF Spec

\* Every variable keeps its type, and a delivery that is on record belongs to an
\* endpoint that exists: the cascade and the foreign key leave no orphan
\* (db/schema, webhook_deliveries.endpoint_id).
THEOREM TypeSafe == Spec => []TypeOK
BY Inductive, IInvImplies, PTL

\* Whatever runs overlap, restart or lose their results, a delivery is given up
\* only once the whole schedule of POSTs was made (webhook.service
\* scheduleRetryOrFail).
THEOREM GivenUp == Spec => []GivenUpAfterAllAttempts
BY Inductive, IInvImplies, PTL

\* No run, timer, restart or lost result takes up a delivery that is settled:
\* what changes it, or POSTs it again, is a run that listed it before
\* (webhook.repository findDueDeliveries).
THEOREM NotReopened == Spec => SettledForGood
<1>1. IInv /\ [Next]_vars =>
        [\A d \in Deliveries :
           delivery[d].status \in {"success", "failed"} =>
             /\ Holders(d)' \subseteq Holders(d)
             /\ \/ /\ delivery'[d] = delivery[d] \/ delivery'[d].status = "deleted"
                   /\ posts'[d] = posts[d]
                \/ \E w \in Holders(d) :
                     runner[w].delivery = d /\ runner'[w] # runner[w]]_vars
  BY SettledStep DEF Settled, Undisturbed, HolderSteps
<1>. QED
  BY Inductive, <1>1, PTL DEF Spec, SettledForGood
=============================================================================

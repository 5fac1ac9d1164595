---------------------------- MODULE WebhookDelivery ----------------------------
(***************************************************************************)
(* Webhooks of one organisation: WebhookService.trigger writes one delivery *)
(* row per subscribed endpoint and enqueues a deliver_webhook job for it;   *)
(* a job posts to the customer and records the attempt, up to               *)
(* webhook_max_attempts.  Endpoints are edited and deleted meanwhile, Redis *)
(* fails, and the worker dies.                                              *)
(*                                                                         *)
(* arq runs a job at least once: a job stays in Redis until a run of it     *)
(* ends, and one whose worker died runs again, MaxTries times in all.       *)
(***************************************************************************)
EXTENDS Integers, FiniteSets

CONSTANTS
    Events,         \* container events, each triggered at most once
    Endpoints,      \* webhook endpoints the organisation may register
    Slots,          \* concurrent jobs of the worker
    MaxAttempts,    \* webhook_max_attempts
    MaxTries,       \* arq's max_tries, its default
    MaxCrashes,     \* bound: crashes of the worker
    RedisMayFail    \* whether enqueue_job may raise

ASSUME WebhookAssumption ==
    /\ MaxAttempts \in Nat \ {0}
    /\ MaxTries \in Nat \ {0}
    /\ MaxCrashes \in Nat
    /\ RedisMayFail \in BOOLEAN
    /\ "none" \notin Endpoints     \* NoEndpoint

Deliveries == Events \X Endpoints    \* one WebhookDelivery row each

VARIABLES
    endpoint,    \* WebhookEndpoint by name
    delivery,    \* WebhookDelivery: status and attempt_count
    trig,        \* where trigger stands for an event
    targets,     \* endpoints that trigger has still to serve
    cur,         \* the endpoint whose job trigger is enqueueing
    wanted,      \* history: the endpoints that trigger listed
    jobs,        \* deliver_webhook jobs that arq has not ended
    enqueued,    \* how many jobs a delivery ever had
    run,         \* what a slot of the worker does
    posts,       \* history: requests sent for a delivery
    accepted,    \* history: deliveries that the customer answered with 2xx
    dropped,     \* history: deliveries that lost a job
    crashes

vars == <<endpoint, delivery, trig, targets, cur, wanted, jobs, enqueued, run,
          posts, accepted, dropped, crashes>>

trigVars == <<trig, targets, cur, wanted>>
custVars == <<posts, accepted>>

-----------------------------------------------------------------------------
(* Values. *)

Unfinished == {"pending", "failed"}
Terminal   == {"success", "exhausted"}
Status     == {"none", "deleted"} \cup Unfinished \cup Terminal
Live       == {"active", "unsubscribed", "disabled"}
NoDelivery == [status |-> "none", attempts |-> 0]
NoJob      == [d |-> <<"none", "none">>, k |-> 0, tries |-> 0]
Idle       == [pc |-> "idle", job |-> NoJob, seen |-> 0, was |-> "none", ok |-> FALSE]
NoEndpoint == "none"

Running(j) == \E s \in Slots : run[s].pc # "idle" /\ run[s].job = j
Gone(p)    == endpoint[p] = "deleted"

\* pool.enqueue_job("deliver_webhook", id).
Enqueue(d) ==
    /\ jobs' = jobs \cup {[d |-> d, k |-> enqueued[d], tries |-> 0]}
    /\ enqueued' = [enqueued EXCEPT ![d] = @ + 1]
    /\ UNCHANGED dropped

\* ... which raises.
EnqueueFails(d) ==
    /\ RedisMayFail
    /\ dropped' = dropped \cup {d}
    /\ UNCHANGED <<jobs, enqueued>>

-----------------------------------------------------------------------------
Init ==
    /\ endpoint = [p \in Endpoints |-> "absent"]
    /\ delivery = [d \in Deliveries |-> NoDelivery]
    /\ trig = [e \in Events |-> "idle"]
    /\ targets = [e \in Events |-> {}]
    /\ cur = [e \in Events |-> NoEndpoint]
    /\ wanted = [e \in Events |-> {}]
    /\ jobs = {} /\ enqueued = [d \in Deliveries |-> 0]
    /\ run = [s \in Slots |-> Idle]
    /\ posts = [d \in Deliveries |-> 0]
    /\ accepted = {} /\ dropped = {} /\ crashes = 0

-----------------------------------------------------------------------------
(* The customer edits the endpoints. *)

CreateEndpoint(p) ==
    /\ endpoint[p] = "absent"
    /\ endpoint' = [endpoint EXCEPT ![p] = "active"]
    /\ UNCHANGED <<delivery, trigVars, jobs, enqueued, run, custVars, dropped, crashes>>

\* PATCH: is_active and event_types.
UpdateEndpoint(p, new) ==
    /\ endpoint[p] \in Live
    /\ endpoint' = [endpoint EXCEPT ![p] = new]
    /\ UNCHANGED <<delivery, trigVars, jobs, enqueued, run, custVars, dropped, crashes>>

\* DELETE: the deliveries go with the endpoint.
DeleteEndpoint(p) ==
    /\ endpoint[p] \in Live
    /\ endpoint' = [endpoint EXCEPT ![p] = "deleted"]
    /\ delivery' = [d \in Deliveries |->
                      IF d[2] = p /\ delivery[d].status # "none"
                      THEN [delivery[d] EXCEPT !.status = "deleted"] ELSE delivery[d]]
    /\ UNCHANGED <<trigVars, jobs, enqueued, run, custVars, dropped, crashes>>

-----------------------------------------------------------------------------
(* WebhookService.trigger, called by a scrape that changed a container. *)

\* list_active_for_event: the active endpoints that subscribe to the event.
Trigger(e) ==
    /\ trig[e] = "idle"
    /\ LET listed == {p \in Endpoints : endpoint[p] = "active"} IN
       /\ trig' = [trig EXCEPT ![e] = IF listed = {} THEN "done" ELSE "create"]
       /\ targets' = [targets EXCEPT ![e] = listed]
       /\ wanted' = [wanted EXCEPT ![e] = listed]
    /\ UNCHANGED <<endpoint, delivery, cur, jobs, enqueued, run, custVars, dropped, crashes>>

\* create_delivery commits the row; an endpoint deleted meanwhile raises out
\* of trigger.
CreateDelivery(e) ==
    /\ trig[e] = "create"
    /\ \E p \in targets[e] :
         IF Gone(p)
         THEN /\ trig' = [trig EXCEPT ![e] = "dead"]
              /\ UNCHANGED <<delivery, targets, cur>>
         ELSE /\ delivery' = [delivery EXCEPT ![<<e, p>>].status = "pending"]
              /\ targets' = [targets EXCEPT ![e] = @ \ {p}]
              /\ cur' = [cur EXCEPT ![e] = p]
              /\ trig' = [trig EXCEPT ![e] = "enqueue"]
    /\ UNCHANGED <<endpoint, wanted, jobs, enqueued, run, custVars, dropped, crashes>>

\* Where trigger goes on after an endpoint, whether or not Redis answered.
AfterEnqueue(e) == IF targets[e] = {} THEN "done" ELSE "create"

\* Best effort: a Redis failure leaves the row pending.  The handler that
\* logs it reloads the endpoint, and raises if that was deleted.
EnqueueDelivery(e) ==
    /\ trig[e] = "enqueue"
    /\ \/ /\ Enqueue(<<e, cur[e]>>)
          /\ trig' = [trig EXCEPT ![e] = AfterEnqueue(e)]
       \/ /\ EnqueueFails(<<e, cur[e]>>)
          /\ trig' = [trig EXCEPT ![e] = IF Gone(cur[e]) THEN "dead" ELSE AfterEnqueue(e)]
    /\ cur' = [cur EXCEPT ![e] = NoEndpoint]
    /\ UNCHANGED <<endpoint, delivery, targets, wanted, run, custVars, crashes>>

\* The process dies, or the scrape's CancelledError arrives at the await.
TriggerDies(e) ==
    /\ trig[e] \in {"create", "enqueue"}
    /\ trig' = [trig EXCEPT ![e] = "dead"]
    /\ cur' = [cur EXCEPT ![e] = NoEndpoint]
    /\ dropped' = IF trig[e] = "enqueue" THEN dropped \cup {<<e, cur[e]>>} ELSE dropped
    /\ UNCHANGED <<endpoint, delivery, targets, wanted, jobs, enqueued, run, custVars, crashes>>

-----------------------------------------------------------------------------
(* The worker: deliver_webhook. *)

\* record_attempt: attempt_count is written as what was read plus one, and
\* the status only if it is not what was read: the ORM leaves out a column
\* that did not change.
RecordAttempt(d, seen, was, status) ==
    delivery' = [delivery EXCEPT ![d] =
                    [status |-> IF status = was THEN @.status ELSE status,
                     attempts |-> seen + 1]]

\* Mutant: one try too many.
UsedUpLate(j) == j.tries > MaxTries

\* arq: a job whose tries are used up is not run again.
UsedUp(j) == j.tries >= MaxTries

\* arq takes a job that is not running and counts the try; one that has used
\* up its tries is dropped.  The run loads the delivery and its endpoint.
StartRun(s) ==
    /\ run[s].pc = "idle"
    /\ \E j \in jobs :
         LET d == j.d
             t == [j EXCEPT !.tries = @ + 1]
             Take(pc) == run' = [run EXCEPT ![s] =
                                   [pc |-> pc, job |-> t, seen |-> delivery[d].attempts,
                                    was |-> delivery[d].status, ok |-> FALSE]]
         IN
         /\ ~Running(j)
         /\ IF UsedUp(j)
            THEN /\ jobs' = jobs \ {j}
                 /\ dropped' = dropped \cup {d}
                 /\ UNCHANGED <<run, delivery>>
            ELSE /\ jobs' = (jobs \ {j}) \cup {t}
                 /\ UNCHANGED dropped
                 /\ IF delivery[d].status = "deleted" THEN Take("finish") /\ UNCHANGED delivery
                    ELSE IF endpoint[d[2]] = "disabled"
                    THEN /\ Take("finish")
                         /\ RecordAttempt(d, delivery[d].attempts, delivery[d].status, "exhausted")
                    ELSE Take("post") /\ UNCHANGED delivery
    /\ UNCHANGED <<endpoint, trigVars, enqueued, custVars, crashes>>

\* The request reaches the customer, who answers 2xx, or anything else
\* happens to it.
Post(s) ==
    /\ run[s].pc = "post"
    /\ \E ok \in BOOLEAN :
         /\ run' = [run EXCEPT ![s].pc = "record", ![s].ok = ok]
         /\ accepted' = IF ok THEN accepted \cup {run[s].job.d} ELSE accepted
    /\ posts' = [posts EXCEPT ![run[s].job.d] = @ + 1]
    /\ UNCHANGED <<endpoint, delivery, trigVars, jobs, enqueued, dropped, crashes>>

\* A response that never ends runs into arq's job timeout, and arq does not
\* run a job again that timed out.
PostHangs(s) ==
    /\ run[s].pc = "post"
    /\ run' = [run EXCEPT ![s] = Idle]
    /\ jobs' = jobs \ {run[s].job}
    /\ posts' = [posts EXCEPT ![run[s].job.d] = @ + 1]
    /\ dropped' = dropped \cup {run[s].job.d}
    /\ UNCHANGED <<endpoint, delivery, trigVars, enqueued, accepted, crashes>>

\* Mutant: the last attempt counts as a failure.
OutcomeExhaustedFirst(s) ==
    IF run[s].seen + 1 >= MaxAttempts THEN "exhausted"
    ELSE IF run[s].ok THEN "success" ELSE "failed"

\* Mutant: one attempt too many.
OutcomeLate(s) ==
    IF run[s].ok THEN "success"
    ELSE IF run[s].seen + 1 > MaxAttempts THEN "exhausted" ELSE "failed"

\* What an attempt leaves behind.
Outcome(s) ==
    IF run[s].ok THEN "success"
    ELSE IF run[s].seen + 1 >= MaxAttempts THEN "exhausted" ELSE "failed"

\* Mutant: nobody enqueues the next attempt.
NextNever(status) == "finish"

\* Mutant: every attempt enqueues another.
NextAlways(status) == "retry"

\* Only a failed attempt enqueues the next one.
NextAfter(status) == IF status = "failed" THEN "retry" ELSE "finish"

\* The attempt is recorded; a delivery deleted meanwhile raises.
Record(s) ==
    /\ run[s].pc = "record"
    /\ LET d == run[s].job.d IN
       IF delivery[d].status = "deleted"
       THEN /\ run' = [run EXCEPT ![s].pc = "finish"]
            /\ UNCHANGED delivery
       ELSE /\ RecordAttempt(d, run[s].seen, run[s].was, Outcome(s))
            /\ run' = [run EXCEPT ![s].pc = NextAfter(Outcome(s))]
    /\ UNCHANGED <<endpoint, trigVars, jobs, enqueued, custVars, dropped, crashes>>

\* enqueue_job(..., _defer_by = backoff); nothing catches a Redis failure.
Retry(s) ==
    /\ run[s].pc = "retry"
    /\ Enqueue(run[s].job.d) \/ EnqueueFails(run[s].job.d)
    /\ run' = [run EXCEPT ![s].pc = "finish"]
    /\ UNCHANGED <<endpoint, delivery, trigVars, custVars, crashes>>

\* The coroutine has returned or raised: arq ends the job.
Finish(s) ==
    /\ run[s].pc = "finish"
    /\ run' = [run EXCEPT ![s] = Idle]
    /\ jobs' = jobs \ {run[s].job}
    /\ UNCHANGED <<endpoint, delivery, trigVars, enqueued, custVars, dropped, crashes>>

\* Mutant: as with max_tries = 1, a job that was running is lost.
JobsWaiting == {j \in jobs : ~Running(j)}

\* arq keeps a job in Redis until a run of it ends.
JobsKept == jobs

\* The worker dies; the jobs that had not ended run again.
CrashWorker ==
    /\ crashes < MaxCrashes
    /\ crashes' = crashes + 1
    /\ run' = [s \in Slots |-> Idle]
    /\ jobs' = JobsKept
    /\ UNCHANGED <<endpoint, delivery, trigVars, enqueued, custVars, dropped>>

-----------------------------------------------------------------------------
TriggerStep(e) == CreateDelivery(e) \/ EnqueueDelivery(e)
RunStep(s) == Post(s) \/ PostHangs(s) \/ Record(s) \/ Retry(s) \/ Finish(s)

Customer ==
    \E p \in Endpoints :
        \/ CreateEndpoint(p) \/ DeleteEndpoint(p)
        \/ \E new \in Live : UpdateEndpoint(p, new)

Next ==
    \/ Customer
    \/ \E e \in Events : Trigger(e) \/ TriggerStep(e) \/ TriggerDies(e)
    \/ \E s \in Slots : StartRun(s) \/ RunStep(s)
    \/ CrashWorker

Spec == Init /\ [][Next]_vars

\* Code that runs goes on, a request ends (10 s timeouts), and arq polls its
\* queue; customers, scrapes and crashes owe nothing.
Fairness ==
    /\ \A e \in Events : WF_vars(TriggerStep(e))
    /\ \A s \in Slots : WF_vars(RunStep(s)) /\ WF_vars(StartRun(s))

FairSpec == Spec /\ Fairness

-----------------------------------------------------------------------------
(* Type invariant. *)

Job == [d : Deliveries, k : Nat, tries : 0..MaxTries]

TypeOK ==
    /\ endpoint \in [Endpoints -> {"absent", "deleted"} \cup Live]
    /\ delivery \in [Deliveries -> [status : Status, attempts : Nat]]
    /\ trig \in [Events -> {"idle", "create", "enqueue", "done", "dead"}]
    /\ targets \in [Events -> SUBSET Endpoints] /\ wanted \in [Events -> SUBSET Endpoints]
    /\ cur \in [Events -> Endpoints \cup {NoEndpoint}]
    /\ jobs \in SUBSET Job
    /\ enqueued \in [Deliveries -> Nat] /\ posts \in [Deliveries -> Nat]
    /\ run \in [Slots -> {Idle} \cup
                   [pc : {"post", "record", "retry", "finish"}, job : Job, seen : Nat,
                    was : Status, ok : BOOLEAN]]
    /\ accepted \in SUBSET Deliveries /\ dropped \in SUBSET Deliveries
    /\ crashes \in Nat

-----------------------------------------------------------------------------
(* Properties. *)

\* A delivery that is not finished has a job that will attempt it, or trigger
\* is about to enqueue one, unless a job of it was lost: a Redis failure, a
\* dead trigger, a job timeout, or more crashes than arq has tries.  Neither
\* a crash between two steps of a run nor a second run forgets it.
NoneForgotten ==
    \A d \in Deliveries \ dropped :
        delivery[d].status \in Unfinished =>
            \/ \E j \in jobs : j.d = d /\ (\A s \in Slots : run[s].job = j => run[s].pc # "finish")
            \/ trig[d[1]] = "enqueue" /\ cur[d[1]] = d[2]

\* While no worker has died, one run at a time works on a delivery, the
\* customer is called at most MaxAttempts times for it, and attempt_count
\* says how often, the attempt that found the endpoint disabled and the
\* request under way or timed out apart.
AttemptsCounted ==
    crashes = 0 =>
        \A d \in Deliveries :
            /\ posts[d] <= MaxAttempts
            /\ delivery[d].attempts <= MaxAttempts
            /\ delivery[d].attempts <= posts[d] + 1
            /\ Cardinality({s \in Slots : run[s].job.d = d /\ run[s].pc # "finish"}) <= 1

\* A delivery called a success was answered with 2xx; and, while no worker
\* has died, one that was answered with 2xx is called a success once its run
\* has recorded it, whatever happened to the endpoint meanwhile.
AnswerRecorded ==
    \A d \in Deliveries :
        /\ delivery[d].status = "success" => d \in accepted
        /\ (/\ crashes = 0 /\ d \in accepted
            /\ ~\E s \in Slots : run[s].pc = "record" /\ run[s].job.d = d)
           => delivery[d].status \in {"success", "deleted"}

\* trigger leaves a delivery row for every endpoint it listed, even if Redis
\* is out of reach (webhook_service.py: "so the audit trail exists even if
\* Redis is briefly unreachable").
EveryoneHasARow ==
    \A e \in Events : trig[e] = "done" =>
        \A p \in wanted[e] : delivery[<<e, p>>].status # "none"

\* While no worker has died, a finished delivery stays as it is until its
\* endpoint is deleted.
FinishedStays ==
    [][crashes' = 0 =>
         \A d \in Deliveries :
            delivery[d].status \in Terminal /\ delivery'[d].status # "deleted"
            => delivery'[d] = delivery[d]]_vars

\* Every delivery comes to an end, unless a job of it was lost.
DeliverySettles ==
    \A d \in Deliveries :
        delivery[d].status \in Unfinished
        ~> (delivery[d].status \notin Unfinished \/ d \in dropped)

=============================================================================

------------------------- MODULE WebhookDelivery_proofs -------------------------
(***************************************************************************)
(* Theorems about WebhookDelivery, for all events, endpoints and slots, any *)
(* number of attempts, tries and crashes, with and without Redis failures.  *)
(***************************************************************************)
EXTENDS WebhookDelivery, FiniteSetTheorems, TLAPS

-----------------------------------------------------------------------------
(* The inductive invariant. *)

Busy(s) == run[s].pc # "idle"

\* A job is known by its delivery and number, and every run holds a job of its own.
JobsOK ==
    /\ \A j \in jobs : j.k < enqueued[j.d]
    /\ \A i, j \in jobs : i.d = j.d /\ i.k = j.k => i = j
    /\ \A s \in Slots : Busy(s) => run[s].job \in jobs
    /\ \A s, t \in Slots : Busy(s) /\ run[s].job = run[t].job => s = t

\* Nothing has happened to a delivery that has no job yet.
Unsent(d) ==
    enqueued[d] = 0 /\ posts[d] = 0 /\ delivery[d].attempts = 0 /\ d \notin accepted

\* trigger meets every endpoint it listed once.
TriggerOK(e) ==
    /\ trig[e] = "idle" => \A p \in Endpoints : delivery[<<e, p>>].status = "none"
    /\ \A p \in targets[e] : delivery[<<e, p>>].status = "none"
    /\ \A p \in wanted[e] \ targets[e] : delivery[<<e, p>>].status # "none"
    /\ trig[e] = "done" => targets[e] = {}
    /\ trig[e] = "enqueue" =>
          /\ cur[e] \in Endpoints
          /\ Unsent(<<e, cur[e]>>)
          /\ delivery[<<e, cur[e]>>].status \in {"pending", "deleted"}

RowsOK ==
    /\ \A d \in Deliveries : delivery[d].status = "none" => Unsent(d)
    /\ \A d \in Deliveries : delivery[d].status = "success" => d \in accepted
    /\ \A s \in Slots : run[s].pc = "record" /\ run[s].ok => run[s].job.d \in accepted

\* The job has still to attempt its delivery, or to enqueue the next attempt.
Open(j) == j \in jobs /\ \A s \in Slots : run[s].job = j => run[s].pc # "finish"

\* The run will still write what it was enqueued for, or enqueue the next
\* attempt: what it loaded was not finished, so that its outcome is written.
WillTry(r) == r.pc # "finish" /\ (r.pc \in {"post", "record"} => r.was \in Unfinished)

\* The delivery has such a job, or is about to get its first.
Kept(d) ==
    \/ \E j \in jobs : j.d = d /\ (\A s \in Slots : run[s].job = j => WillTry(run[s]))
    \/ trig[d[1]] = "enqueue" /\ cur[d[1]] = d[2]

AllKept == \A d \in Deliveries \ dropped : delivery[d].status \in Unfinished => Kept(d)

Recording(d) == \E s \in Slots : run[s].pc = "record" /\ run[s].job.d = d

\* One job at a time works on a delivery, and knows how often it was attempted.
Alone ==
    /\ \A i, j \in jobs : Open(i) /\ Open(j) /\ i.d = j.d => i = j
    /\ \A j \in jobs : Open(j) =>
          /\ delivery[j.d].status \in Unfinished \cup {"deleted"}
          /\ delivery[j.d].attempts < MaxAttempts
          /\ posts[j.d] = delivery[j.d].attempts + IF Recording(j.d) THEN 1 ELSE 0
    /\ \A s \in Slots : run[s].pc \in {"post", "record"} =>
          /\ run[s].seen = delivery[run[s].job.d].attempts
          /\ delivery[run[s].job.d].status \in {run[s].was, "deleted"}
    /\ \A s \in Slots : run[s].pc = "record" /\ run[s].job.d \in accepted =>
          run[s].ok \/ delivery[run[s].job.d].status = "deleted"
    /\ \A d \in Deliveries :
          /\ posts[d] <= MaxAttempts
          /\ delivery[d].attempts <= MaxAttempts
          /\ delivery[d].attempts <= posts[d] + 1
          /\ d \in accepted /\ ~Recording(d) => delivery[d].status \in {"success", "deleted"}

Inv ==
    /\ TypeOK /\ JobsOK /\ RowsOK
    /\ \A e \in Events : TriggerOK(e)
    /\ AllKept
    /\ crashes = 0 => Alone

-----------------------------------------------------------------------------
(* Lemmas about the values. *)

LEMMA Constants ==
    /\ MaxAttempts \in Nat /\ MaxAttempts >= 1 /\ MaxTries \in Nat
    /\ NoJob.d \notin Deliveries /\ NoEndpoint \notin Endpoints
    /\ NoJob \notin Job
    /\ Idle.pc = "idle" /\ Idle.job = NoJob
  BY WebhookAssumption DEF NoJob, NoEndpoint, Deliveries, Idle, Job

BusyRun ==
    [pc : {"post", "record", "retry", "finish"}, job : Job, seen : Nat, was : Status,
     ok : BOOLEAN]

\* A slot that is not idle runs a job of a delivery.
LEMMA RunType ==
    ASSUME TypeOK, NEW s \in Slots
    PROVE  /\ Busy(s) => run[s] \in BusyRun /\ run[s].job \in Job /\ run[s].job.d \in Deliveries
           /\ ~Busy(s) => run[s] = Idle /\ run[s].job = NoJob
  BY Constants DEF TypeOK, Busy, BusyRun, Idle, Job

LEMMA DeliveryType ==
    ASSUME NEW e \in Events, NEW p \in Endpoints
    PROVE  <<e, p>> \in Deliveries
  BY DEF Deliveries

-----------------------------------------------------------------------------
(* Types. *)

LEMMA EnqueueTypes ==
    ASSUME TypeOK, NEW d \in Deliveries, Enqueue(d) \/ EnqueueFails(d)
    PROVE  /\ jobs' \in SUBSET Job /\ enqueued' \in [Deliveries -> Nat]
           /\ dropped' \in SUBSET Deliveries
<1>1. CASE Enqueue(d)
  <2>1. [d |-> d, k |-> enqueued[d], tries |-> 0] \in Job
    BY WebhookAssumption DEF TypeOK, Job
  <2>2. enqueued[d] + 1 \in Nat
    BY DEF TypeOK
  <2> QED
    BY <1>1, <2>1, <2>2 DEF TypeOK, Enqueue
<1>2. CASE EnqueueFails(d)
  BY <1>2 DEF TypeOK, EnqueueFails
<1> QED
  BY <1>1, <1>2

Row == [status : Status, attempts : Nat]

LEMMA RecordTypes ==
    ASSUME TypeOK, NEW d \in Deliveries, NEW seen \in Nat, NEW was, NEW status \in Status,
           RecordAttempt(d, seen, was, status)
    PROVE  /\ delivery' \in [Deliveries -> Row]
           /\ delivery'[d].status = IF status = was THEN delivery[d].status ELSE status
           /\ delivery'[d].attempts = seen + 1
           /\ \A c \in Deliveries \ {d} : delivery'[c] = delivery[c]
<1> DEFINE written == IF status = was THEN delivery[d].status ELSE status
           row == [status |-> written, attempts |-> seen + 1]
<1>1. delivery \in [Deliveries -> Row]
  BY DEF TypeOK, Row
<1>2. written \in Status
  BY <1>1 DEF Row
<1>3. row \in Row /\ row.status = written /\ row.attempts = seen + 1
  BY <1>2 DEF Row
<1>4. delivery' = [delivery EXCEPT ![d] = row]
  BY DEF RecordAttempt
<1> HIDE DEF row
<1> QED
  BY <1>1, <1>3, <1>4

\* What StartRun does with the job it takes.
Retried(j) == [j EXCEPT !.tries = @ + 1]

Drops(s, j) ==
    /\ jobs' = jobs \ {j} /\ dropped' = dropped \cup {j.d}
    /\ UNCHANGED <<run, delivery>>

Starts(s, j, pc) ==
    /\ jobs' = (jobs \ {j}) \cup {Retried(j)}
    /\ run' = [run EXCEPT ![s] = [pc |-> pc, job |-> Retried(j),
                                  seen |-> delivery[j.d].attempts,
                 was |-> delivery[j.d].status, ok |-> FALSE]]
    /\ UNCHANGED dropped

LEMMA StartRunCases ==
    ASSUME TypeOK, NEW s \in Slots, StartRun(s)
    PROVE  /\ run[s].pc = "idle"
           /\ UNCHANGED <<endpoint, trigVars, enqueued, custVars, crashes>>
           /\ \E j \in jobs :
                /\ ~Running(j)
                /\ \/ j.tries >= MaxTries /\ Drops(s, j)
                   \/ /\ j.tries < MaxTries /\ delivery[j.d].status = "deleted"
                      /\ Starts(s, j, "finish") /\ UNCHANGED delivery
                   \/ /\ j.tries < MaxTries /\ delivery[j.d].status # "deleted"
                      /\ Starts(s, j, "finish")
                      /\ RecordAttempt(j.d, delivery[j.d].attempts,
                                       delivery[j.d].status, "exhausted")
                   \/ /\ j.tries < MaxTries /\ delivery[j.d].status # "deleted"
                      /\ Starts(s, j, "post") /\ UNCHANGED delivery
<1> DEFINE t(j) == [j EXCEPT !.tries = @ + 1]
           Takes(j, pc) == run' = [run EXCEPT ![s] =
                [pc |-> pc, job |-> t(j), seen |-> delivery[j.d].attempts,
                 was |-> delivery[j.d].status, ok |-> FALSE]]
<1>1. PICK j \in jobs :
        /\ ~Running(j)
        /\ IF UsedUp(j)
           THEN /\ jobs' = jobs \ {j} /\ dropped' = dropped \cup {j.d}
                /\ UNCHANGED <<run, delivery>>
           ELSE /\ jobs' = (jobs \ {j}) \cup {t(j)}
                /\ UNCHANGED dropped
                /\ IF delivery[j.d].status = "deleted"
                   THEN Takes(j, "finish") /\ UNCHANGED delivery
                   ELSE IF endpoint[j.d[2]] = "disabled"
                   THEN /\ Takes(j, "finish")
                        /\ RecordAttempt(j.d, delivery[j.d].attempts,
                                         delivery[j.d].status, "exhausted")
                   ELSE Takes(j, "post") /\ UNCHANGED delivery
  BY DEF StartRun
<1>2. j \in Job /\ j.d \in Deliveries /\ j.tries \in Nat /\ MaxTries \in Nat
  BY Constants DEF TypeOK, Job
<1>3. j.d[2] \in Endpoints
  BY <1>2 DEF Deliveries
<1>4. CASE UsedUp(j)
  BY <1>1, <1>4 DEF UsedUp, Drops, StartRun
<1>5. CASE ~UsedUp(j)
  <2>1. j.tries < MaxTries
    BY <1>2, <1>5 DEF UsedUp
  <2>2. CASE delivery[j.d].status = "deleted"
    <3>1. Starts(s, j, "finish") /\ UNCHANGED delivery
      <4> HIDE DEF Takes
      <4>1. Takes(j, "finish") /\ UNCHANGED delivery
        BY <1>1, <1>5, <2>2
      <4> QED
        BY <1>1, <1>5, <4>1 DEF Takes, Starts, Retried
    <3> QED
      BY <1>1, <2>1, <2>2, <3>1 DEF StartRun
  <2>3. CASE delivery[j.d].status # "deleted" /\ endpoint[j.d[2]] = "disabled"
    <3>1. /\ Starts(s, j, "finish")
          /\ RecordAttempt(j.d, delivery[j.d].attempts,
                           delivery[j.d].status, "exhausted")
      <4> HIDE DEF Takes
      <4>1. /\ Takes(j, "finish")
            /\ RecordAttempt(j.d, delivery[j.d].attempts,
                             delivery[j.d].status, "exhausted")
        BY <1>1, <1>5, <2>3
      <4> QED
        BY <1>1, <1>5, <4>1 DEF Takes, Starts, Retried
    <3> QED
      BY <1>1, <2>1, <2>3, <3>1 DEF StartRun
  <2>4. CASE delivery[j.d].status # "deleted" /\ endpoint[j.d[2]] # "disabled"
    <3>1. Starts(s, j, "post") /\ UNCHANGED delivery
      BY <1>1, <1>5, <2>4 DEF Starts, Retried
    <3> QED
      BY <1>1, <2>1, <2>4, <3>1 DEF StartRun
  <2> QED
    BY <2>2, <2>3, <2>4
<1> QED
  BY <1>4, <1>5

\* A run goes on.
Goes(s, pc, ok) ==
    /\ run'[s] \in BusyRun /\ run'[s].pc = pc /\ run'[s].ok = ok
    /\ run'[s].job = run[s].job /\ run'[s].seen = run[s].seen /\ run'[s].was = run[s].was
    /\ \A t \in Slots \ {s} : run'[t] = run[t]

LEMMA GoesTypes ==
    ASSUME TypeOK, NEW s \in Slots, Busy(s), NEW ok \in BOOLEAN,
           NEW pc \in {"post", "record", "retry", "finish"},
           run' = [run EXCEPT ![s].pc = pc, ![s].ok = ok] \/
           (run' = [run EXCEPT ![s].pc = pc] /\ ok = run[s].ok)
    PROVE  run' \in [Slots -> {Idle} \cup BusyRun] /\ Goes(s, pc, ok)
  BY RunType, SMTT(40) DEF TypeOK, BusyRun, Goes

LEMMA StartsTypes ==
    ASSUME TypeOK, NEW s \in Slots, NEW j \in jobs, j.tries < MaxTries,
           NEW pc \in {"post", "finish"}, Starts(s, j, pc)
    PROVE  /\ jobs' \in SUBSET Job /\ run' \in [Slots -> {Idle} \cup BusyRun]
           /\ Retried(j) \in Job /\ Retried(j).d = j.d /\ Retried(j).k = j.k /\ Retried(j) # j
           /\ run'[s] \in BusyRun /\ run'[s].pc = pc /\ run'[s].job = Retried(j)
           /\ run'[s].seen = delivery[j.d].attempts /\ run'[s].ok = FALSE
           /\ run'[s].was = delivery[j.d].status
           /\ \A t \in Slots \ {s} : run'[t] = run[t]
<1>1. /\ Retried(j) \in Job /\ Retried(j).d = j.d /\ Retried(j).k = j.k
      /\ Retried(j).tries = j.tries + 1 /\ j.tries \in Nat
  BY Constants DEF TypeOK, Job, Retried
<1>2. j.d \in Deliveries /\ delivery[j.d].attempts \in Nat /\ delivery[j.d].status \in Status
  BY DEF TypeOK, Job
<1> DEFINE r == [pc |-> pc, job |-> Retried(j), seen |-> delivery[j.d].attempts,
                   was |-> delivery[j.d].status, ok |-> FALSE]
<1>3. /\ r \in BusyRun /\ r.pc = pc /\ r.job = Retried(j)
      /\ r.seen = delivery[j.d].attempts /\ r.was = delivery[j.d].status /\ r.ok = FALSE
  BY <1>1, <1>2 DEF BusyRun
<1>4. run' = [run EXCEPT ![s] = r] /\ jobs' = (jobs \ {j}) \cup {Retried(j)}
  BY DEF Starts
<1> HIDE DEF r
<1> QED
  BY <1>1, <1>3, <1>4 DEF TypeOK, BusyRun

LEMMA CustomerTypes ==
    ASSUME TypeOK, Customer
    PROVE  TypeOK'
<1>1. PICK p \in Endpoints : CreateEndpoint(p) \/ DeleteEndpoint(p)
                             \/ \E new \in Live : UpdateEndpoint(p, new)
  BY DEF Customer
<1>2. CASE CreateEndpoint(p) \/ \E new \in Live : UpdateEndpoint(p, new)
  BY <1>2 DEF CreateEndpoint, UpdateEndpoint, TypeOK, Live, trigVars, custVars
<1>3. CASE DeleteEndpoint(p)
  <2>1. delivery' \in [Deliveries -> Row]
    <3>1. \A d \in Deliveries : delivery[d] \in Row /\ [delivery[d] EXCEPT !.status = "deleted"] \in Row
      BY DEF TypeOK, Row, Status
    <3> QED
      BY <1>3, <3>1 DEF DeleteEndpoint
  <2> QED
    BY <1>3, <2>1 DEF DeleteEndpoint, TypeOK, Row, Status, trigVars, custVars
<1> QED
  BY <1>1, <1>2, <1>3

\* CreateDelivery meets a deleted endpoint, or writes the row of p.
Creates(e, p) ==
    /\ targets' = [targets EXCEPT ![e] = @ \ {p}]
    /\ cur' = [cur EXCEPT ![e] = p]
    /\ trig' = [trig EXCEPT ![e] = "enqueue"]
    /\ delivery' \in [Deliveries -> Row]
    /\ delivery'[<<e, p>>].status = "pending"
    /\ delivery'[<<e, p>>].attempts = delivery[<<e, p>>].attempts
    /\ \A d \in Deliveries \ {<<e, p>>} : delivery'[d] = delivery[d]

LEMMA CreateDeliveryCases ==
    ASSUME TypeOK, NEW e \in Events, CreateDelivery(e)
    PROVE  /\ trig[e] = "create"
           /\ UNCHANGED <<endpoint, wanted, jobs, enqueued, run, custVars, dropped, crashes>>
           /\ \/ /\ trig' = [trig EXCEPT ![e] = "dead"]
                 /\ UNCHANGED <<delivery, targets, cur>>
              \/ \E p \in targets[e] : p \in Endpoints /\ <<e, p>> \in Deliveries /\ Creates(e, p)
<1>1. PICK p \in targets[e] :
        IF Gone(p)
        THEN /\ trig' = [trig EXCEPT ![e] = "dead"]
             /\ UNCHANGED <<delivery, targets, cur>>
        ELSE /\ delivery' = [delivery EXCEPT ![<<e, p>>].status = "pending"]
             /\ targets' = [targets EXCEPT ![e] = @ \ {p}]
             /\ cur' = [cur EXCEPT ![e] = p]
             /\ trig' = [trig EXCEPT ![e] = "enqueue"]
  BY DEF CreateDelivery
<1>2. p \in Endpoints /\ <<e, p>> \in Deliveries
  BY DeliveryType DEF TypeOK
<1>3. ASSUME ~Gone(p) PROVE Creates(e, p)
  <2> DEFINE d == <<e, p>>
             r == [delivery[d] EXCEPT !.status = "pending"]
  <2>1. delivery \in [Deliveries -> Row]
    BY DEF TypeOK, Row, Status
  <2>2. r \in Row /\ r.status = "pending" /\ r.attempts = delivery[d].attempts
    <3> HIDE DEF d
    <3>1. delivery[d] \in Row
      BY <1>2, <2>1 DEF d
    <3> QED
      BY <3>1 DEF Row, Status, Unfinished
  <2>3. delivery' = [delivery EXCEPT ![d] = r]
    BY <1>1, <1>3
  <2> HIDE DEF r
  <2> QED
    BY <1>1, <1>2, <1>3, <2>1, <2>2, <2>3 DEF Creates
<1> QED
  BY <1>1, <1>2, <1>3 DEF CreateDelivery

LEMMA TriggerTypes ==
    ASSUME TypeOK, NEW e \in Events, TriggerOK(e), Trigger(e) \/ TriggerStep(e) \/ TriggerDies(e)
    PROVE  TypeOK'
<1>1. CASE Trigger(e)
  BY <1>1 DEF Trigger, TypeOK, trigVars, custVars
<1>2. CASE CreateDelivery(e)
  <2>1. /\ UNCHANGED <<endpoint, wanted, jobs, enqueued, run, custVars, dropped, crashes>>
        /\ \/ /\ trig' = [trig EXCEPT ![e] = "dead"]
              /\ UNCHANGED <<delivery, targets, cur>>
           \/ \E p \in targets[e] : p \in Endpoints /\ Creates(e, p)
    BY <1>2, CreateDeliveryCases
  <2>2. CASE trig' = [trig EXCEPT ![e] = "dead"] /\ UNCHANGED <<delivery, targets, cur>>
    BY <2>1, <2>2 DEF TypeOK, custVars
  <2>3. ASSUME NEW p \in Endpoints, Creates(e, p) PROVE TypeOK'
    BY <2>1, <2>3 DEF TypeOK, custVars, Creates, Row, Status
  <2> QED
    BY <2>1, <2>2, <2>3
<1>3. CASE EnqueueDelivery(e)
  <2>1. <<e, cur[e]>> \in Deliveries
    BY <1>3, DeliveryType DEF EnqueueDelivery, TriggerOK
  <2>2. /\ jobs' \in SUBSET Job /\ enqueued' \in [Deliveries -> Nat]
        /\ dropped' \in SUBSET Deliveries
    BY <1>3, <2>1, EnqueueTypes DEF EnqueueDelivery
  <2>3. trig' \in [Events -> {"idle", "create", "enqueue", "done", "dead"}]
    BY <1>3 DEF EnqueueDelivery, TypeOK, AfterEnqueue
  <2>4. cur' \in [Events -> Endpoints \cup {NoEndpoint}]
    BY <1>3 DEF EnqueueDelivery, TypeOK
  <2> QED
    BY <1>3, <2>2, <2>3, <2>4 DEF EnqueueDelivery, TypeOK, custVars
<1>4. CASE TriggerDies(e)
  <2>1. trig[e] = "enqueue" => <<e, cur[e]>> \in Deliveries
    BY DeliveryType DEF TriggerOK
  <2> QED
    BY <1>4, <2>1 DEF TriggerDies, TypeOK, custVars
<1> QED
  BY <1>1, <1>2, <1>3, <1>4 DEF TriggerStep

LEMMA OutcomeType == \A s \in Slots : Outcome(s) \in Unfinished \cup Terminal
  BY DEF Outcome, Unfinished, Terminal

LEMMA RunTypes ==
    ASSUME TypeOK, NEW s \in Slots, StartRun(s) \/ RunStep(s)
    PROVE  TypeOK'
<1>1. CASE StartRun(s)
  <2>1. PICK j \in jobs :
          \/ j.tries >= MaxTries /\ Drops(s, j)
          \/ /\ j.tries < MaxTries
             /\ Starts(s, j, "finish") /\ UNCHANGED delivery
          \/ /\ j.tries < MaxTries
             /\ Starts(s, j, "finish")
             /\ RecordAttempt(j.d, delivery[j.d].attempts, delivery[j.d].status, "exhausted")
          \/ /\ j.tries < MaxTries
             /\ Starts(s, j, "post") /\ UNCHANGED delivery
    BY <1>1, StartRunCases
  <2>2. j.d \in Deliveries /\ delivery[j.d].attempts \in Nat
    BY DEF TypeOK, Job
  <2>3. delivery' \in [Deliveries -> Row]
    BY <2>1, <2>2, RecordTypes DEF TypeOK, Row, Status, Terminal, Drops
  <2>4. jobs' \in SUBSET Job /\ run' \in [Slots -> {Idle} \cup BusyRun]
        /\ dropped' \in SUBSET Deliveries
    BY <2>1, <2>2, StartsTypes DEF Drops, Starts, TypeOK, BusyRun
  <2>5. UNCHANGED <<endpoint, trigVars, enqueued, custVars, crashes>>
    BY <1>1, StartRunCases
  <2> QED
    BY <2>3, <2>4, <2>5 DEF TypeOK, Row, Status, trigVars, custVars, BusyRun
<1>2. CASE RunStep(s)
  <2>1. run[s] \in BusyRun /\ run[s].job \in Job /\ run[s].job.d \in Deliveries /\ Busy(s)
    BY <1>2, RunType DEF RunStep, Post, PostHangs, Record, Retry, Finish, Busy
  <2> DEFINE d == run[s].job.d
  <2>2. posts[d] + 1 \in Nat
    BY <2>1 DEF TypeOK
  <2>3. CASE Post(s)
    <3>1. run' \in [Slots -> {Idle} \cup BusyRun]
      BY <2>1, <2>3, GoesTypes DEF Post
    <3> QED
      BY <2>1, <2>2, <2>3, <3>1 DEF Post, TypeOK, trigVars, BusyRun
  <2>4. CASE PostHangs(s)
    BY <2>1, <2>2, <2>4 DEF PostHangs, TypeOK, trigVars
  <2>5. CASE Record(s)
    <3>1. run[s].ok \in BOOLEAN /\ run[s].seen \in Nat
      BY <2>1 DEF BusyRun
    <3>2. /\ run' \in [Slots -> {Idle} \cup BusyRun]
          /\ delivery' \in [Deliveries -> Row]
      <4>1. CASE delivery[d].status = "deleted"
        BY <2>1, <2>5, <3>1, <4>1, GoesTypes DEF Record, TypeOK, Row, Status
      <4>2. CASE delivery[d].status # "deleted"
        <5>1. NextAfter(Outcome(s)) \in {"retry", "finish"}
          BY DEF NextAfter
        <5> QED
          BY <2>1, <2>5, <3>1, <4>2, <5>1, GoesTypes, RecordTypes, OutcomeType
             DEF Record, Status
      <4> QED
        BY <4>1, <4>2
    <3> QED
      BY <2>5, <3>2 DEF Record, TypeOK, Row, Status, trigVars, custVars, BusyRun
  <2>6. CASE Retry(s)
    <3>1. run' \in [Slots -> {Idle} \cup BusyRun]
      BY <2>1, <2>6, GoesTypes DEF Retry, BusyRun
    <3>2. /\ jobs' \in SUBSET Job /\ enqueued' \in [Deliveries -> Nat]
          /\ dropped' \in SUBSET Deliveries
      BY <2>1, <2>6, EnqueueTypes DEF Retry
    <3> QED
      BY <2>6, <3>1, <3>2 DEF Retry, TypeOK, trigVars, custVars, BusyRun
  <2>7. CASE Finish(s)
    BY <2>7 DEF Finish, TypeOK, trigVars, custVars
  <2> QED
    BY <1>2, <2>3, <2>4, <2>5, <2>6, <2>7 DEF RunStep
<1> QED
  BY <1>1, <1>2

LEMMA TypeStep == ASSUME Inv, [Next]_vars PROVE TypeOK'
<1>1. ASSUME NEW e \in Events, Trigger(e) \/ TriggerStep(e) \/ TriggerDies(e) PROVE TypeOK'
  BY <1>1, TriggerTypes DEF Inv
<1>2. ASSUME NEW s \in Slots, StartRun(s) \/ RunStep(s) PROVE TypeOK'
  BY <1>2, RunTypes DEF Inv
<1>3. CASE CrashWorker
  BY <1>3 DEF Inv, TypeOK, CrashWorker, JobsKept, trigVars, custVars
<1>4. CASE UNCHANGED vars
  BY <1>4 DEF Inv, TypeOK, vars
<1> QED
  BY <1>1, <1>2, <1>3, <1>4, CustomerTypes DEF Inv, Next

\* What the steps of a run do, in terms of the lemmas above.
LEMMA PostCases ==
    ASSUME TypeOK, NEW s \in Slots, Post(s)
    PROVE  /\ Busy(s) /\ run[s].pc = "post" /\ run[s].job \in Job /\ run[s].job.d \in Deliveries
           /\ UNCHANGED <<endpoint, delivery, trigVars, jobs, enqueued, dropped, crashes>>
           /\ posts' = [posts EXCEPT ![run[s].job.d] = @ + 1]
           /\ \E ok \in BOOLEAN :
                /\ Goes(s, "record", ok)
                /\ accepted' = IF ok THEN accepted \cup {run[s].job.d} ELSE accepted
<1>1. Busy(s) /\ run[s].job \in Job /\ run[s].job.d \in Deliveries
  BY RunType DEF Post, Busy
<1>2. PICK ok \in BOOLEAN :
        /\ run' = [run EXCEPT ![s].pc = "record", ![s].ok = ok]
        /\ accepted' = IF ok THEN accepted \cup {run[s].job.d} ELSE accepted
  BY DEF Post
<1>3. Goes(s, "record", ok)
  BY <1>1, <1>2, GoesTypes
<1> QED
  BY <1>1, <1>2, <1>3 DEF Post

\* The job's end, with its run.
Ends(s) ==
    /\ Busy(s) /\ run[s].job \in Job /\ run[s].job.d \in Deliveries
    /\ run'[s] = Idle /\ \A t \in Slots \ {s} : run'[t] = run[t]
    /\ jobs' = jobs \ {run[s].job} /\ enqueued' = enqueued

LEMMA EndCases ==
    ASSUME TypeOK, NEW s \in Slots, PostHangs(s) \/ Finish(s)
    PROVE  Ends(s)
<1>1. Busy(s)
  BY DEF PostHangs, Finish, Busy
<1> QED
  BY <1>1, RunType DEF PostHangs, Finish, Ends, TypeOK

LEMMA RecordCases ==
    ASSUME TypeOK, NEW s \in Slots, Record(s)
    PROVE  /\ Busy(s) /\ run[s].pc = "record" /\ run[s].job \in Job /\ run[s].job.d \in Deliveries
           /\ run[s].seen \in Nat /\ run[s].ok \in BOOLEAN
           /\ UNCHANGED <<endpoint, trigVars, jobs, enqueued, custVars, dropped, crashes>>
           /\ \/ /\ delivery[run[s].job.d].status = "deleted"
                 /\ Goes(s, "finish", run[s].ok) /\ UNCHANGED delivery
              \/ /\ delivery[run[s].job.d].status # "deleted"
                 /\ Goes(s, NextAfter(Outcome(s)), run[s].ok)
                 /\ RecordAttempt(run[s].job.d, run[s].seen, run[s].was, Outcome(s))
<1>1. Busy(s) /\ run[s] \in BusyRun /\ run[s].job \in Job /\ run[s].job.d \in Deliveries
  BY RunType DEF Record, Busy
<1>2. run[s].ok \in BOOLEAN /\ run[s].seen \in Nat
  BY <1>1 DEF BusyRun
<1>3. CASE delivery[run[s].job.d].status = "deleted"
  <2>1. Goes(s, "finish", run[s].ok)
    BY <1>1, <1>2, <1>3, GoesTypes DEF Record
  <2> QED
    BY <1>1, <1>2, <1>3, <2>1 DEF Record
<1>4. CASE delivery[run[s].job.d].status # "deleted"
  <2>1. NextAfter(Outcome(s)) \in {"retry", "finish"}
    BY DEF NextAfter
  <2>2. Goes(s, NextAfter(Outcome(s)), run[s].ok)
    BY <1>1, <1>2, <1>4, <2>1, GoesTypes DEF Record
  <2> QED
    BY <1>1, <1>2, <1>4, <2>2 DEF Record
<1> QED
  BY <1>3, <1>4

LEMMA RetryCases ==
    ASSUME TypeOK, NEW s \in Slots, Retry(s)
    PROVE  /\ Busy(s) /\ run[s].pc = "retry" /\ run[s].job \in Job /\ run[s].job.d \in Deliveries
           /\ Goes(s, "finish", run[s].ok)
           /\ Enqueue(run[s].job.d) \/ EnqueueFails(run[s].job.d)
           /\ UNCHANGED <<endpoint, delivery, trigVars, custVars, crashes>>
<1>1. Busy(s) /\ run[s] \in BusyRun /\ run[s].job \in Job /\ run[s].job.d \in Deliveries
  BY RunType DEF Retry, Busy
<1>2. run[s].ok \in BOOLEAN
  BY <1>1 DEF BusyRun
<1>3. Goes(s, "finish", run[s].ok)
  BY <1>1, <1>2, GoesTypes DEF Retry
<1> QED
  BY <1>1, <1>3 DEF Retry

-----------------------------------------------------------------------------
(* Jobs and their runs. *)

\* No slot starts or ends a run.
SameRuns ==
    \A t \in Slots : (run'[t].pc = "idle" <=> run[t].pc = "idle") /\ run'[t].job = run[t].job

LEMMA GoesSame ==
    ASSUME TypeOK, NEW s \in Slots, Busy(s), NEW pc, NEW ok, Goes(s, pc, ok)
    PROVE  SameRuns
  BY DEF Goes, SameRuns, Busy, BusyRun

LEMMA SameJobs ==
    ASSUME JobsOK, SameRuns, UNCHANGED <<jobs, enqueued>>
    PROVE  JobsOK'
  BY DEF JobsOK, SameRuns, Busy

LEMMA EnqueueJobs ==
    ASSUME TypeOK, JobsOK, NEW d \in Deliveries, Enqueue(d) \/ EnqueueFails(d), SameRuns
    PROVE  JobsOK'
<1>1. CASE EnqueueFails(d)
  BY <1>1, SameJobs DEF EnqueueFails
<1>2. CASE Enqueue(d)
  <2> DEFINE n == [d |-> d, k |-> enqueued[d], tries |-> 0]
  <2>1. n.d = d /\ n.k = enqueued[d] /\ enqueued[d] \in Nat
    BY DEF TypeOK
  <2>2. jobs' = jobs \cup {n} /\ enqueued' = [enqueued EXCEPT ![d] = @ + 1]
    BY <1>2 DEF Enqueue
  <2>3. \A j \in jobs : j.k < enqueued[j.d] /\ j.k \in Nat /\ j.d \in Deliveries
    BY DEF JobsOK, TypeOK, Job
  <2> HIDE DEF n
  <2>4. \A j \in jobs' : j.k < enqueued'[j.d]
    BY <2>1, <2>2, <2>3 DEF TypeOK
  <2>5. \A i, j \in jobs' : i.d = j.d /\ i.k = j.k => i = j
    BY <2>1, <2>2, <2>3 DEF JobsOK
  <2> QED
    BY <2>2, <2>4, <2>5 DEF JobsOK, SameRuns, Busy
<1> QED
  BY <1>1, <1>2

LEMMA EndJobs ==
    ASSUME TypeOK, JobsOK, NEW s \in Slots, Ends(s)
    PROVE  JobsOK'
<1>1. /\ jobs' = jobs \ {run[s].job} /\ enqueued' = enqueued
      /\ run'[s].pc = "idle" /\ run'[s].job = NoJob
      /\ \A t \in Slots \ {s} : run'[t] = run[t]
  BY Constants DEF Ends
<1>2. \A t \in Slots \ {s} : Busy(t) => run[t].job # run[s].job /\ run[t].job # NoJob
  BY Constants, RunType DEF JobsOK, Busy
<1>3. \A t \in Slots : Busy(t)' => run'[t].job \in jobs'
  BY <1>1, <1>2 DEF JobsOK, Busy
<1>4. \A q, t \in Slots : Busy(q)' /\ run'[q].job = run'[t].job => q = t
  BY <1>1, <1>2 DEF JobsOK, Busy
<1> QED
  BY <1>1, <1>3, <1>4 DEF JobsOK

LEMMA StartJobs ==
    ASSUME TypeOK, JobsOK, NEW s \in Slots, NEW j \in jobs, j.tries < MaxTries,
           NEW pc \in {"post", "finish"}, Starts(s, j, pc), ~Running(j), UNCHANGED enqueued,
           run[s].pc = "idle"
    PROVE  JobsOK'
<1> DEFINE t == Retried(j)
<1>1. /\ t.d = j.d /\ t.k = j.k /\ t # j
      /\ run'[s].pc = pc /\ run'[s].job = t
      /\ \A r \in Slots \ {s} : run'[r] = run[r]
  BY StartsTypes, ZenonT(40)
<1>2. jobs' = (jobs \ {j}) \cup {t} /\ t \notin jobs
  BY <1>1 DEF Starts, JobsOK
<1>3. \A r \in Slots \ {s} : Busy(r)' => run'[r].job \in jobs' /\ run'[r].job # t
  BY <1>1, <1>2 DEF JobsOK, Busy, Running
<1> HIDE DEF t
<1>4. \A i \in jobs' : i.k < enqueued'[i.d]
  BY <1>1, <1>2 DEF JobsOK
<1>5. \A h, i \in jobs' : h.d = i.d /\ h.k = i.k => h = i
  BY <1>1, <1>2 DEF JobsOK
<1>6. \A r \in Slots : Busy(r)' => run'[r].job \in jobs'
  BY <1>1, <1>2, <1>3
<1>7. \A q, r \in Slots : Busy(q)' /\ run'[q].job = run'[r].job => q = r
  <2> SUFFICES ASSUME NEW q \in Slots, NEW r \in Slots, Busy(q)', run'[q].job = run'[r].job,
                      q # r
               PROVE  FALSE
    OBVIOUS
  <2>1. CASE q # s /\ r # s
    BY <1>1, <2>1 DEF JobsOK, Busy
  <2>2. CASE q = s
    <3>1. run[r].job = t
      BY <1>1, <2>2
    <3>2. Busy(r)
      <4>1. t \in Job
        BY StartsTypes DEF t
      <4> QED
        BY <3>1, <4>1, RunType, Constants
    <3> QED
      BY <1>2, <3>1, <3>2 DEF JobsOK
  <2>3. CASE r = s
    BY <1>1, <1>3, <2>3
  <2> QED
    BY <2>1, <2>2, <2>3
<1> QED
  BY <1>4, <1>5, <1>6, <1>7 DEF JobsOK

LEMMA JobsStep == ASSUME Inv, [Next]_vars PROVE JobsOK'
<1> USE DEF Inv
<1>1. CASE UNCHANGED <<jobs, enqueued, run>>
  BY <1>1, SameJobs DEF SameRuns
<1>2. CASE Customer
  BY <1>1, <1>2 DEF Customer, CreateEndpoint, UpdateEndpoint, DeleteEndpoint
<1>3. ASSUME NEW e \in Events, Trigger(e) \/ TriggerStep(e) \/ TriggerDies(e) PROVE JobsOK'
  <2>1. CASE Trigger(e) \/ CreateDelivery(e) \/ TriggerDies(e)
    BY <1>1, <2>1 DEF Trigger, CreateDelivery, TriggerDies
  <2>2. CASE EnqueueDelivery(e)
    <3>1. <<e, cur[e]>> \in Deliveries
      BY <2>2, DeliveryType DEF EnqueueDelivery, TriggerOK
    <3>2. /\ Enqueue(<<e, cur[e]>>) \/ EnqueueFails(<<e, cur[e]>>)
          /\ UNCHANGED run
      BY <2>2 DEF EnqueueDelivery
    <3>3. SameRuns
      BY <3>2 DEF SameRuns
    <3> QED
      BY <3>1, <3>2, <3>3, EnqueueJobs
  <2> QED
    BY <1>3, <2>1, <2>2 DEF TriggerStep
<1>4. ASSUME NEW s \in Slots, StartRun(s) PROVE JobsOK'
  <2>1. PICK j \in jobs :
          /\ ~Running(j)
          /\ \/ Drops(s, j)
             \/ j.tries < MaxTries /\ Starts(s, j, "finish")
             \/ j.tries < MaxTries /\ Starts(s, j, "post")
    BY <1>4, StartRunCases
  <2>2. UNCHANGED enqueued /\ run[s].pc = "idle"
    BY <1>4, StartRunCases
  <2>3. CASE Drops(s, j)
    BY <2>1, <2>2, <2>3 DEF Drops, JobsOK, Running, Busy
  <2> QED
    BY <2>1, <2>2, <2>3, StartJobs
<1>5. ASSUME NEW s \in Slots, RunStep(s) PROVE JobsOK'
  <2>1. CASE Post(s)
    BY <2>1, PostCases, GoesSame, SameJobs
  <2>2. CASE PostHangs(s) \/ Finish(s)
    BY <2>2, EndCases, EndJobs
  <2>3. CASE Record(s)
    BY <2>3, RecordCases, GoesSame, SameJobs
  <2>4. CASE Retry(s)
    BY <2>4, RetryCases, GoesSame, EnqueueJobs
  <2> QED
    BY <1>5, <2>1, <2>2, <2>3, <2>4 DEF RunStep
<1>6. CASE CrashWorker
  <2>1. \A t \in Slots : run'[t].pc = "idle"
    BY <1>6, Constants DEF CrashWorker
  <2> QED
    BY <1>6, <2>1 DEF CrashWorker, JobsKept, JobsOK, Busy
<1>7. CASE UNCHANGED vars
  BY <1>1, <1>7 DEF vars
<1> QED
  BY <1>2, <1>3, <1>4, <1>5, <1>6, <1>7 DEF Next

-----------------------------------------------------------------------------
(* Rows and triggers. *)

\* A delivery that has a job or a run has a row.
LEMMA HasRow ==
    ASSUME TypeOK, JobsOK, RowsOK, NEW j \in jobs
    PROVE  j.d \in Deliveries /\ enqueued[j.d] # 0 /\ delivery[j.d].status # "none"
  BY DEF TypeOK, JobsOK, RowsOK, Unsent, Job

\* Rows that nobody works on.
LEMMA SameRows ==
    ASSUME RowsOK, UNCHANGED <<enqueued, posts, accepted, delivery>>,
           \A s \in Slots : run'[s].pc = "record" => run'[s] = run[s]
    PROVE  RowsOK'
  BY DEF RowsOK, Unsent

\* A step about a delivery that has a row, or gets one.
LEMMA ChangedRow ==
    ASSUME RowsOK, NEW d \in Deliveries, delivery'[d].status # "none",
           delivery'[d].status = "success" => d \in accepted',
           \A c \in Deliveries \ {d} :
              /\ delivery'[c] = delivery[c] /\ enqueued'[c] = enqueued[c]
              /\ posts'[c] = posts[c],
           accepted' = accepted \/ accepted' = accepted \cup {d},
           \A s \in Slots : run'[s].pc = "record" /\ run'[s].ok =>
              \/ run'[s] = run[s]
              \/ run'[s].job.d \in accepted'
    PROVE  RowsOK'
  BY DEF RowsOK, Unsent

\* DeleteEndpoint changes the rows of its endpoint, and those only in status.
LEMMA DeletedRows ==
    ASSUME TypeOK, NEW p \in Endpoints, DeleteEndpoint(p)
    PROVE  \A d \in Deliveries :
              /\ delivery'[d].attempts = delivery[d].attempts
              /\ \/ delivery'[d].status = delivery[d].status
                 \/ delivery[d].status # "none" /\ delivery'[d].status = "deleted"
<1> SUFFICES ASSUME NEW d \in Deliveries
             PROVE  /\ delivery'[d].attempts = delivery[d].attempts
                    /\ \/ delivery'[d].status = delivery[d].status
                       \/ delivery[d].status # "none" /\ delivery'[d].status = "deleted"
  OBVIOUS
<1>1. delivery[d] \in Row
  BY DEF TypeOK, Row, Status
<1>2. delivery'[d] = IF d[2] = p /\ delivery[d].status # "none"
                     THEN [delivery[d] EXCEPT !.status = "deleted"] ELSE delivery[d]
  BY DEF DeleteEndpoint
<1> QED
  BY <1>1, <1>2 DEF Row

\* The delivery that EnqueueDelivery enqueues has a row.
LEMMA CurRow ==
    ASSUME Inv, NEW e \in Events, EnqueueDelivery(e)
    PROVE  <<e, cur[e]>> \in Deliveries /\ delivery[<<e, cur[e]>>].status \in {"pending", "deleted"}
  BY DeliveryType DEF Inv, TriggerOK, EnqueueDelivery

\* The effects of Enqueue on other deliveries.
LEMMA EnqueueOthers ==
    ASSUME TypeOK, NEW d \in Deliveries, Enqueue(d) \/ EnqueueFails(d)
    PROVE  \A c \in Deliveries \ {d} : enqueued'[c] = enqueued[c]
  BY DEF TypeOK, Enqueue, EnqueueFails

LEMMA RowsStep == ASSUME Inv, [Next]_vars PROVE RowsOK'
<1> USE DEF Inv
<1>1. CASE UNCHANGED <<enqueued, posts, accepted, delivery, run>>
  BY <1>1, SameRows
<1>2. CASE Customer
  <2>1. PICK p \in Endpoints : CreateEndpoint(p) \/ DeleteEndpoint(p)
                               \/ \E new \in Live : UpdateEndpoint(p, new)
    BY <1>2 DEF Customer
  <2>2. CASE CreateEndpoint(p) \/ \E new \in Live : UpdateEndpoint(p, new)
    BY <1>1, <2>2 DEF CreateEndpoint, UpdateEndpoint, custVars
  <2>3. CASE DeleteEndpoint(p)
    <3>1. UNCHANGED <<enqueued, posts, accepted, run>>
      BY <2>3 DEF DeleteEndpoint, custVars
    <3> QED
      BY <2>3, <3>1, DeletedRows DEF RowsOK, Unsent
  <2> QED
    BY <2>1, <2>2, <2>3
<1>3. ASSUME NEW e \in Events, Trigger(e) \/ TriggerStep(e) \/ TriggerDies(e) PROVE RowsOK'
  <2>1. CASE Trigger(e) \/ TriggerDies(e)
    BY <1>1, <2>1 DEF Trigger, TriggerDies, custVars
  <2>2. CASE CreateDelivery(e)
    <3>1. UNCHANGED <<enqueued, posts, accepted, run>>
      BY <2>2, CreateDeliveryCases DEF custVars
    <3>2. CASE UNCHANGED delivery
      BY <1>1, <3>1, <3>2
    <3>3. ASSUME NEW p \in targets[e], <<e, p>> \in Deliveries, Creates(e, p) PROVE RowsOK'
      <4>1. delivery'[<<e, p>>].status = "pending"
            /\ \A d \in Deliveries \ {<<e, p>>} : delivery'[d] = delivery[d]
        BY <3>3 DEF Creates
      <4> QED
        BY <3>1, <3>3, <4>1, ChangedRow
    <3> QED
      BY <2>2, <3>2, <3>3, CreateDeliveryCases
  <2>3. CASE EnqueueDelivery(e)
    <3> DEFINE d == <<e, cur[e]>>
    <3>1. /\ d \in Deliveries /\ delivery[d].status # "none"
          /\ Enqueue(d) \/ EnqueueFails(d)
          /\ UNCHANGED <<delivery, posts, accepted, run>>
      BY <2>3, CurRow DEF EnqueueDelivery, custVars
    <3> HIDE DEF d
    <3> QED
      BY <3>1, EnqueueOthers, ChangedRow DEF RowsOK
  <2> QED
    BY <1>3, <2>1, <2>2, <2>3 DEF TriggerStep
<1>4. ASSUME NEW s \in Slots, StartRun(s) PROVE RowsOK'
  <2>1. PICK j \in jobs :
          \/ Drops(s, j)
          \/ /\ j.tries < MaxTries
             /\ Starts(s, j, "finish") \/ Starts(s, j, "post")
             /\ UNCHANGED delivery
          \/ /\ j.tries < MaxTries /\ Starts(s, j, "finish")
             /\ RecordAttempt(j.d, delivery[j.d].attempts, delivery[j.d].status, "exhausted")
    BY <1>4, StartRunCases
  <2>2. UNCHANGED <<enqueued, posts, accepted>>
    BY <1>4, StartRunCases DEF custVars
  <2>3. CASE Drops(s, j)
    BY <1>1, <2>2, <2>3 DEF Drops
  <2>4. CASE j.tries < MaxTries /\ (Starts(s, j, "finish") \/ Starts(s, j, "post"))
    <3>1. \A t \in Slots : run'[t].pc = "record" => run'[t] = run[t]
      BY <2>4, StartsTypes
    <3>2. CASE UNCHANGED delivery
      BY <2>2, <3>1, <3>2, SameRows
    <3>3. CASE RecordAttempt(j.d, delivery[j.d].attempts, delivery[j.d].status, "exhausted")
      <4>1. /\ j.d \in Deliveries /\ delivery[j.d].attempts \in Nat
            /\ "exhausted" \in Status
        BY HasRow DEF TypeOK, Status, Terminal
      <4>2. delivery'[j.d].status = "exhausted"
            /\ \A c \in Deliveries \ {j.d} : delivery'[c] = delivery[c]
        BY <3>3, <4>1, RecordTypes
      <4> QED
        BY <2>2, <3>1, <4>1, <4>2, ChangedRow
    <3> QED
      BY <2>1, <2>3, <3>2, <3>3
  <2> QED
    BY <2>1, <2>3, <2>4
<1>5. ASSUME NEW s \in Slots, RunStep(s) PROVE RowsOK'
  <2> DEFINE d == run[s].job.d
  <2>1. /\ run[s].job \in jobs /\ d \in Deliveries /\ delivery[d].status # "none"
    BY <1>5, HasRow DEF RunStep, Post, PostHangs, Record, Retry, Finish, JobsOK, Busy
  <2> HIDE DEF d
  <2>2. CASE Post(s)
    <3>1. PICK ok \in BOOLEAN : Goes(s, "record", ok)
                                /\ accepted' = IF ok THEN accepted \cup {d} ELSE accepted
      BY <2>2, PostCases DEF d
    <3>2. UNCHANGED <<enqueued, delivery>> /\ posts' = [posts EXCEPT ![d] = @ + 1]
      BY <2>2, PostCases DEF d
    <3>3. \A c \in Deliveries \ {d} : posts'[c] = posts[c]
      BY <3>2 DEF TypeOK
    <3>4. \A t \in Slots : run'[t].pc = "record" /\ run'[t].ok =>
              run'[t] = run[t] \/ run'[t].job.d \in accepted'
      BY <3>1 DEF Goes, d
    <3>5. delivery'[d].status # "none" /\ (delivery'[d].status = "success" => d \in accepted')
      BY <2>1, <3>1, <3>2 DEF RowsOK
    <3> QED
      BY <2>1, <3>1, <3>2, <3>3, <3>4, <3>5, ChangedRow
  <2>3. CASE PostHangs(s)
    <3>1. Ends(s) /\ UNCHANGED <<delivery, accepted>> /\ posts' = [posts EXCEPT ![d] = @ + 1]
      BY <2>3, EndCases DEF PostHangs, d
    <3>2. \A t \in Slots : run'[t].pc = "record" => run'[t] = run[t]
      BY <3>1, Constants DEF Ends
    <3>3. \A c \in Deliveries \ {d} : posts'[c] = posts[c] /\ enqueued'[c] = enqueued[c]
      BY <3>1 DEF TypeOK, Ends
    <3> QED
      BY <2>1, <3>1, <3>2, <3>3, ChangedRow DEF RowsOK
  <2>4. CASE Record(s)
    <3>1. /\ run[s].pc = "record" /\ run[s].seen \in Nat
          /\ UNCHANGED <<enqueued, posts, accepted>>
          /\ \/ Goes(s, "finish", run[s].ok) /\ UNCHANGED delivery
             \/ /\ Goes(s, NextAfter(Outcome(s)), run[s].ok)
                /\ RecordAttempt(d, run[s].seen, run[s].was, Outcome(s))
      BY <2>4, RecordCases DEF custVars, d
    <3>2. \A t \in Slots : run'[t].pc = "record" => run'[t] = run[t]
      BY <3>1 DEF Goes, NextAfter
    <3>3. CASE UNCHANGED delivery
      BY <3>1, <3>2, <3>3, SameRows
    <3>4. CASE RecordAttempt(d, run[s].seen, run[s].was, Outcome(s))
      <4>1. Outcome(s) \in Status /\ Outcome(s) # "none"
        BY DEF Outcome, Status, Unfinished, Terminal
      <4>2. delivery'[d].status \in {Outcome(s), delivery[d].status}
            /\ \A c \in Deliveries \ {d} : delivery'[c] = delivery[c]
        BY <2>1, <3>1, <3>4, <4>1, RecordTypes
      <4>3. /\ Outcome(s) = "success" => d \in accepted'
            /\ delivery[d].status = "success" => d \in accepted'
        BY <2>1, <3>1 DEF Outcome, RowsOK, d
      <4> QED
        BY <2>1, <3>1, <3>2, <4>1, <4>2, <4>3, ChangedRow
    <3> QED
      BY <3>1, <3>3, <3>4
  <2>5. CASE Retry(s)
    <3>1. /\ Goes(s, "finish", run[s].ok) /\ UNCHANGED <<delivery, posts, accepted>>
          /\ Enqueue(d) \/ EnqueueFails(d)
      BY <2>5, RetryCases DEF custVars, d
    <3>2. \A t \in Slots : run'[t].pc = "record" => run'[t] = run[t]
      BY <3>1 DEF Goes
    <3> QED
      BY <2>1, <3>1, <3>2, EnqueueOthers, ChangedRow DEF RowsOK
  <2>6. CASE Finish(s)
    <3>1. Ends(s) /\ UNCHANGED <<delivery, accepted, posts, enqueued>>
      BY <2>6, EndCases DEF Finish, custVars
    <3>2. \A t \in Slots : run'[t].pc = "record" => run'[t] = run[t]
      BY <3>1, Constants DEF Ends
    <3> QED
      BY <3>1, <3>2, SameRows
  <2> QED
    BY <1>5, <2>2, <2>3, <2>4, <2>5, <2>6 DEF RunStep
<1>6. CASE CrashWorker
  <2>1. UNCHANGED <<enqueued, posts, accepted, delivery>>
        /\ \A t \in Slots : run'[t].pc = "idle"
    BY <1>6, Constants DEF CrashWorker, custVars
  <2> QED
    BY <2>1, SameRows
<1>7. CASE UNCHANGED vars
  BY <1>1, <1>7 DEF vars
<1> QED
  BY <1>2, <1>3, <1>4, <1>5, <1>6, <1>7 DEF Next

\* What a trigger stands on, for the deliveries of its event.
Undisturbed(e) ==
    \A p \in Endpoints :
        /\ delivery'[<<e, p>>].status = "none" <=> delivery[<<e, p>>].status = "none"
        /\ Unsent(<<e, p>>) =>
              /\ Unsent(<<e, p>>)'
              /\ delivery'[<<e, p>>].status \in {delivery[<<e, p>>].status, "deleted"}

LEMMA UndisturbedTrigger ==
    ASSUME TypeOK, NEW e \in Events, TriggerOK(e), Undisturbed(e),
           UNCHANGED <<trig[e], targets[e], cur[e], wanted[e]>>
    PROVE  TriggerOK(e)'
<1>1. targets[e] \subseteq Endpoints /\ wanted[e] \subseteq Endpoints
  BY DEF TypeOK
<1> QED
  BY <1>1 DEF TriggerOK, Undisturbed

\* A step about a delivery that has a job: trigger has left it behind.
LEMMA ElsewhereTriggers ==
    ASSUME RowsOK, TypeOK, NEW e \in Events, TriggerOK(e), UNCHANGED trigVars,
           NEW d \in Deliveries,
           enqueued[d] # 0, delivery'[d].status # "none",
           \A c \in Deliveries \ {d} :
              /\ delivery'[c] = delivery[c] /\ enqueued'[c] = enqueued[c]
              /\ posts'[c] = posts[c],
           accepted' = accepted \/ accepted' = accepted \cup {d}
    PROVE  TriggerOK(e)'
<1>1. delivery[d].status # "none" /\ ~Unsent(d)
  BY DEF RowsOK, Unsent
<1>2. \A c \in Deliveries :
         /\ delivery'[c].status = "none" <=> delivery[c].status = "none"
         /\ Unsent(c) => Unsent(c)' /\ delivery'[c].status = delivery[c].status
  BY <1>1 DEF Unsent
<1>3. Undisturbed(e)
  BY <1>2, DeliveryType DEF Undisturbed
<1> QED
  BY <1>3, UndisturbedTrigger DEF trigVars

LEMMA TriggersStep == ASSUME Inv, [Next]_vars PROVE \A e \in Events : TriggerOK(e)'
<1> USE DEF Inv
<1> SUFFICES ASSUME NEW f \in Events PROVE TriggerOK(f)'
  OBVIOUS
<1>1. ASSUME UNCHANGED <<enqueued, posts, accepted, trigVars>>,
             \A d \in Deliveries :
                /\ delivery'[d].attempts = delivery[d].attempts
                /\ \/ delivery'[d].status = delivery[d].status
                   \/ delivery[d].status # "none" /\ delivery'[d].status = "deleted"
      PROVE  TriggerOK(f)'
  <2>1. Undisturbed(f)
    BY <1>1, DeliveryType DEF Undisturbed, Unsent
  <2> QED
    BY <1>1, <2>1, UndisturbedTrigger DEF trigVars
<1>2. CASE Customer
  <2>1. PICK p \in Endpoints : CreateEndpoint(p) \/ DeleteEndpoint(p)
                               \/ \E new \in Live : UpdateEndpoint(p, new)
    BY <1>2 DEF Customer
  <2>2. UNCHANGED <<enqueued, posts, accepted, trigVars>>
    BY <2>1 DEF CreateEndpoint, UpdateEndpoint, DeleteEndpoint, custVars
  <2>3. CASE UNCHANGED delivery
    BY <1>1, <2>2, <2>3
  <2> QED
    BY <1>1, <2>1, <2>2, <2>3, DeletedRows DEF CreateEndpoint, UpdateEndpoint
<1>3. ASSUME NEW e \in Events, Trigger(e) PROVE TriggerOK(f)'
  <2>1. UNCHANGED <<enqueued, posts, accepted, delivery, cur>>
    BY <1>3 DEF Trigger, custVars
  <2>2. CASE f # e
    <3>1. UNCHANGED <<trig[f], targets[f], cur[f], wanted[f]>>
      BY <1>3, <2>1, <2>2 DEF Trigger, TypeOK
    <3>2. Undisturbed(f)
      BY <2>1, DeliveryType DEF Undisturbed, Unsent
    <3> QED
      BY <3>1, <3>2, UndisturbedTrigger
  <2>3. CASE f = e
    <3>1. PICK listed \in SUBSET Endpoints :
            /\ trig' = [trig EXCEPT ![e] = IF listed = {} THEN "done" ELSE "create"]
            /\ targets' = [targets EXCEPT ![e] = listed]
            /\ wanted' = [wanted EXCEPT ![e] = listed]
      BY <1>3 DEF Trigger
    <3>2. trig[e] = "idle"
      BY <1>3 DEF Trigger
    <3> QED
      BY <2>1, <2>3, <3>1, <3>2 DEF TriggerOK, TypeOK
  <2> QED
    BY <2>2, <2>3
<1>4. ASSUME NEW e \in Events, CreateDelivery(e) PROVE TriggerOK(f)'
  <2>1. UNCHANGED <<enqueued, posts, accepted, wanted>> /\ trig[e] = "create"
    BY <1>4, CreateDeliveryCases DEF custVars
  <2>2. CASE trig' = [trig EXCEPT ![e] = "dead"] /\ UNCHANGED <<delivery, targets, cur>>
    <3>1. UNCHANGED <<targets, cur, wanted>> /\ trig'[f] \in {trig[f], "dead"}
      BY <2>1, <2>2 DEF TypeOK
    <3> QED
      BY <2>1, <2>2, <3>1, DeliveryType DEF TriggerOK, Unsent
  <2>3. ASSUME NEW p \in targets[e], p \in Endpoints, <<e, p>> \in Deliveries, Creates(e, p)
        PROVE  TriggerOK(f)'
    <3> DEFINE d == <<e, p>>
    <3>1. /\ delivery'[d].status = "pending" /\ delivery[d].status = "none" /\ Unsent(d)
          /\ delivery'[d].attempts = delivery[d].attempts
          /\ \A c \in Deliveries \ {d} : delivery'[c] = delivery[c]
      BY <2>3 DEF Creates, TriggerOK, RowsOK
    <3>2. CASE f # e
      <4>1. UNCHANGED <<trig[f], targets[f], cur[f], wanted[f]>>
        BY <2>1, <2>3, <3>2 DEF Creates, TypeOK
      <4>2. \A q \in Endpoints : delivery'[<<f, q>>] = delivery[<<f, q>>]
        BY <3>1, <3>2, DeliveryType
      <4>3. Undisturbed(f)
        BY <2>1, <4>2 DEF Undisturbed, Unsent
      <4> QED
        BY <4>1, <4>3, UndisturbedTrigger
    <3>3. CASE f = e
      <4>1. /\ trig'[e] = "enqueue" /\ targets'[e] = targets[e] \ {p} /\ cur'[e] = p
            /\ wanted'[e] = wanted[e]
            /\ targets[e] \subseteq Endpoints /\ wanted[e] \subseteq Endpoints
        BY <2>1, <2>3 DEF Creates, TypeOK
      <4>2. Unsent(d)'
        BY <2>1, <3>1 DEF Unsent
      <4>3. \A q \in Endpoints \ {p} : delivery'[<<e, q>>] = delivery[<<e, q>>]
        BY <3>1, DeliveryType
      <4>4. /\ \A q \in targets[e] \ {p} : delivery'[<<e, q>>].status = "none"
            /\ \A q \in wanted[e] \ (targets[e] \ {p}) : delivery'[<<e, q>>].status # "none"
        <5>1. /\ \A q \in targets[e] : delivery[<<e, q>>].status = "none"
              /\ \A q \in wanted[e] \ targets[e] : delivery[<<e, q>>].status # "none"
          BY DEF TriggerOK
        <5>2. delivery'[<<e, p>>].status # "none"
          BY <3>1
        <5> HIDE DEF d
        <5>3. \A q \in targets[e] \ {p} : delivery'[<<e, q>>].status = "none"
          BY <4>1, <4>3, <5>1
        <5>4. \A q \in wanted[e] \ (targets[e] \ {p}) : delivery'[<<e, q>>].status # "none"
          BY <4>1, <4>3, <5>1, <5>2
        <5> QED
          BY <5>3, <5>4
      <4> QED
        BY <2>3, <3>1, <3>3, <4>1, <4>2, <4>4 DEF TriggerOK
    <3> QED
      BY <3>2, <3>3
  <2> QED
    BY <1>4, <2>2, <2>3, CreateDeliveryCases
<1>5. ASSUME NEW e \in Events, EnqueueDelivery(e) PROVE TriggerOK(f)'
  <2> DEFINE d == <<e, cur[e]>>
  <2>1. d \in Deliveries /\ (Enqueue(d) \/ EnqueueFails(d)) /\ UNCHANGED <<delivery, posts, accepted>>
    BY <1>5, CurRow DEF EnqueueDelivery, custVars
  <2>2. \A c \in Deliveries \ {d} : enqueued'[c] = enqueued[c]
    <3> HIDE DEF d
    <3> QED
      BY <2>1, EnqueueOthers
  <2>3. CASE f # e
    <3>1. UNCHANGED <<trig[f], targets[f], cur[f], wanted[f]>>
      BY <1>5, <2>3 DEF EnqueueDelivery, TypeOK
    <3>2. Undisturbed(f)
      BY <2>1, <2>2, <2>3, DeliveryType DEF Undisturbed, Unsent
    <3> QED
      BY <3>1, <3>2, UndisturbedTrigger
  <2>4. CASE f = e
    <3>1. /\ UNCHANGED <<targets, wanted, delivery>> /\ trig'[e] \in {"done", "dead", "create"}
          /\ trig'[e] = "done" => targets[e] = {}
      BY <1>5 DEF EnqueueDelivery, AfterEnqueue, TypeOK
    <3> QED
      BY <2>4, <3>1 DEF TriggerOK
  <2> QED
    BY <2>3, <2>4
<1>6. ASSUME NEW e \in Events, TriggerDies(e) PROVE TriggerOK(f)'
  <2>1. UNCHANGED <<enqueued, posts, accepted, delivery, targets, wanted>>
    BY <1>6 DEF TriggerDies, custVars
  <2>2. CASE f # e
    <3>1. UNCHANGED <<trig[f], targets[f], cur[f], wanted[f]>>
      BY <1>6, <2>2 DEF TriggerDies, TypeOK
    <3>2. Undisturbed(f)
      BY <2>1, DeliveryType DEF Undisturbed, Unsent
    <3> QED
      BY <3>1, <3>2, UndisturbedTrigger
  <2>3. CASE f = e
    <3>1. trig'[e] = "dead"
      BY <1>6 DEF TriggerDies, TypeOK
    <3> QED
      BY <2>1, <2>3, <3>1 DEF TriggerOK
  <2> QED
    BY <2>2, <2>3
<1>7. ASSUME NEW s \in Slots, StartRun(s) PROVE TriggerOK(f)'
  <2>1. PICK j \in jobs :
          \/ UNCHANGED delivery
          \/ RecordAttempt(j.d, delivery[j.d].attempts, delivery[j.d].status, "exhausted")
    BY <1>7, StartRunCases DEF Drops
  <2>2. UNCHANGED <<enqueued, posts, accepted, trigVars>>
    BY <1>7, StartRunCases DEF custVars
  <2>3. CASE UNCHANGED delivery
    BY <1>1, <2>2, <2>3
  <2>4. CASE RecordAttempt(j.d, delivery[j.d].attempts, delivery[j.d].status, "exhausted")
    <3>1. /\ j.d \in Deliveries /\ enqueued[j.d] # 0 /\ delivery[j.d].attempts \in Nat
          /\ "exhausted" \in Status
      BY HasRow DEF TypeOK, Status, Terminal
    <3>2. delivery'[j.d].status = "exhausted"
          /\ \A c \in Deliveries \ {j.d} : delivery'[c] = delivery[c]
      BY <2>4, <3>1, RecordTypes
    <3> QED
      BY <2>2, <3>1, <3>2, ElsewhereTriggers
  <2> QED
    BY <2>1, <2>3, <2>4
<1>8. ASSUME NEW s \in Slots, RunStep(s) PROVE TriggerOK(f)'
  <2> DEFINE d == run[s].job.d
  <2>1. /\ d \in Deliveries /\ enqueued[d] # 0 /\ delivery[d].status # "none"
    BY <1>8, HasRow DEF RunStep, Post, PostHangs, Record, Retry, Finish, JobsOK, Busy
  <2>2. UNCHANGED trigVars
    BY <1>8 DEF RunStep, Post, PostHangs, Record, Retry, Finish
  <2> HIDE DEF d
  <2>3. CASE Post(s) \/ PostHangs(s)
    <3>1. /\ posts' = [posts EXCEPT ![d] = @ + 1] /\ UNCHANGED <<delivery, enqueued>>
          /\ accepted' = accepted \/ accepted' = accepted \cup {d}
      BY <2>3 DEF Post, PostHangs, d
    <3>2. \A c \in Deliveries \ {d} : posts'[c] = posts[c]
      BY <3>1 DEF TypeOK
    <3> QED
      BY <2>1, <2>2, <3>1, <3>2, ElsewhereTriggers
  <2>4. CASE Record(s)
    <3>1. /\ UNCHANGED <<enqueued, posts, accepted>> /\ run[s].seen \in Nat
          /\ UNCHANGED delivery \/ RecordAttempt(d, run[s].seen, run[s].was, Outcome(s))
      BY <2>4, RecordCases DEF custVars, d
    <3>2. CASE UNCHANGED delivery
      BY <2>1, <2>2, <3>1, <3>2, ElsewhereTriggers
    <3>3. CASE RecordAttempt(d, run[s].seen, run[s].was, Outcome(s))
      <4>1. Outcome(s) \in Status /\ Outcome(s) # "none"
        BY DEF Outcome, Status, Unfinished, Terminal
      <4>2. delivery'[d].status \in {Outcome(s), delivery[d].status}
            /\ \A c \in Deliveries \ {d} : delivery'[c] = delivery[c]
        BY <2>1, <3>1, <3>3, <4>1, RecordTypes
      <4> QED
        BY <2>1, <2>2, <3>1, <4>1, <4>2, ElsewhereTriggers
    <3> QED
      BY <3>1, <3>2, <3>3
  <2>5. CASE Retry(s)
    <3>1. UNCHANGED <<delivery, posts, accepted>> /\ (Enqueue(d) \/ EnqueueFails(d))
      BY <2>5, RetryCases DEF custVars, d
    <3> QED
      BY <2>1, <2>2, <3>1, EnqueueOthers, ElsewhereTriggers
  <2>6. CASE Finish(s)
    BY <1>1, <2>2, <2>6 DEF Finish, custVars
  <2> QED
    BY <1>8, <2>3, <2>4, <2>5, <2>6 DEF RunStep
<1>9. CASE CrashWorker \/ UNCHANGED vars
  BY <1>1, <1>9 DEF CrashWorker, vars, custVars, trigVars
<1> QED
  BY <1>2, <1>3, <1>4, <1>5, <1>6, <1>7, <1>8, <1>9 DEF Next, TriggerStep

-----------------------------------------------------------------------------
(* No delivery is forgotten. *)

\* What keeps a delivery whose job and trigger a step leaves alone.
LEMMA KeptStays ==
    ASSUME NEW d \in Deliveries, Kept(d), UNCHANGED <<trig[d[1]], cur[d[1]]>>,
           \A j \in jobs : j.d = d => j \in jobs',
           \A s \in Slots : run'[s].job.d = d =>
              \/ WillTry(run'[s])
              \/ run'[s].job = run[s].job /\ (WillTry(run[s]) => WillTry(run'[s]))
    PROVE  Kept(d)'
<1>1. CASE trig[d[1]] = "enqueue" /\ cur[d[1]] = d[2]
  BY <1>1 DEF Kept
<1>2. ASSUME NEW j \in jobs, j.d = d, \A s \in Slots : run[s].job = j => WillTry(run[s])
      PROVE  Kept(d)'
  <2>1. \A s \in Slots : run'[s].job = j => WillTry(run'[s])
    BY <1>2
  <2> QED
    BY <1>2, <2>1 DEF Kept
<1> QED
  BY <1>1, <1>2 DEF Kept

\* A job whose run will try keeps its delivery.
LEMMA JobKeeps ==
    ASSUME NEW j \in jobs', \A s \in Slots : run'[s].job = j => WillTry(run'[s])
    PROVE  Kept(j.d)'
  BY DEF Kept

LEMMA ForgottenStep == ASSUME Inv, [Next]_vars, TypeOK', JobsOK' PROVE AllKept'
<1> USE DEF Inv
<1> SUFFICES ASSUME NEW d \in Deliveries, d \notin dropped', delivery'[d].status \in Unfinished
             PROVE  Kept(d)'
  BY DEF AllKept
<1>1. ASSUME d \notin dropped, delivery[d].status \in Unfinished PROVE Kept(d)
  BY <1>1 DEF AllKept
<1>2. CASE Customer
  <2>1. UNCHANGED <<trigVars, jobs, run, dropped>>
    BY <1>2 DEF Customer, CreateEndpoint, UpdateEndpoint, DeleteEndpoint
  <2>2. delivery[d].status \in Unfinished
    BY <1>2, DeletedRows
       DEF Customer, CreateEndpoint, UpdateEndpoint, DeleteEndpoint, Unfinished
  <2> QED
    BY <1>1, <2>1, <2>2, KeptStays DEF trigVars
<1>3. ASSUME NEW e \in Events, Trigger(e) \/ TriggerDies(e) PROVE Kept(d)'
  <2>1. UNCHANGED <<delivery, jobs, run>> /\ dropped \subseteq dropped'
    BY <1>3 DEF Trigger, TriggerDies
  <2>2. Kept(d)
    BY <1>1, <2>1
  <2>3. d[1] \in Events /\ d[2] \in Endpoints /\ d = <<d[1], d[2]>>
    BY DEF Deliveries
  <2>4. CASE d[1] # e
    <3>1. UNCHANGED <<trig[d[1]], cur[d[1]]>>
      BY <1>3, <2>3, <2>4 DEF Trigger, TriggerDies, TypeOK
    <3> QED
      BY <2>1, <2>2, <3>1, KeptStays
  <2>5. CASE d[1] = e
    <3>1. ~(trig[d[1]] = "enqueue" /\ cur[d[1]] = d[2])
      BY <1>3, <2>3, <2>5 DEF Trigger, TriggerDies
    <3> QED
      BY <2>1, <2>2, <3>1 DEF Kept
  <2> QED
    BY <2>4, <2>5
<1>4. ASSUME NEW e \in Events, CreateDelivery(e) PROVE Kept(d)'
  <2>1. UNCHANGED <<jobs, run, dropped>> /\ trig[e] = "create"
    BY <1>4, CreateDeliveryCases
  <2>2. d[1] \in Events /\ d[2] \in Endpoints /\ d = <<d[1], d[2]>>
    BY DEF Deliveries
  <2>3. ASSUME Kept(d) PROVE Kept(d)'
    <3>1. CASE d[1] = e
      <4>1. ~(trig[d[1]] = "enqueue" /\ cur[d[1]] = d[2])
        BY <2>1, <3>1
      <4> QED
        BY <2>1, <2>3, <4>1 DEF Kept
    <3>2. CASE d[1] # e
      <4>1. UNCHANGED <<trig[d[1]], cur[d[1]]>>
        <5>1. \/ trig' = [trig EXCEPT ![e] = "dead"] /\ UNCHANGED cur
              \/ \E p \in Endpoints :
                    trig' = [trig EXCEPT ![e] = "enqueue"] /\ cur' = [cur EXCEPT ![e] = p]
          BY <1>4, CreateDeliveryCases DEF Creates
        <5> QED
          BY <2>2, <3>2, <5>1 DEF TypeOK
      <4> QED
        BY <2>1, <2>3, <4>1, KeptStays
    <3> QED
      BY <3>1, <3>2
  <2>4. CASE UNCHANGED delivery
    BY <1>1, <2>1, <2>3, <2>4
  <2>5. ASSUME NEW p \in targets[e], p \in Endpoints, <<e, p>> \in Deliveries, Creates(e, p)
        PROVE  Kept(d)'
    <3>1. CASE d = <<e, p>>
      <4>1. trig'[e] = "enqueue" /\ cur'[e] = p
        BY <2>5 DEF Creates, TypeOK
      <4>2. d[1] = e /\ d[2] = p
        BY <3>1
      <4> QED
        BY <4>1, <4>2 DEF Kept
    <3>2. CASE d # <<e, p>>
      <4>1. delivery'[d] = delivery[d]
        BY <2>5, <3>2 DEF Creates
      <4> QED
        BY <1>1, <2>1, <2>3, <4>1
    <3> QED
      BY <3>1, <3>2
  <2> QED
    BY <1>4, <2>4, <2>5, CreateDeliveryCases
<1>5. ASSUME NEW c \in Deliveries, Enqueue(c),
             \A s \in Slots : run'[s].job = run[s].job /\ (run[s].pc = "idle" => run'[s].pc = "idle")
      PROVE  Kept(c)'
  <2> DEFINE j == [d |-> c, k |-> enqueued[c], tries |-> 0]
  <2>1. j \in jobs' /\ j.d = c /\ j.k = enqueued[c] /\ enqueued[c] \in Nat
    BY <1>5 DEF Enqueue, TypeOK
  <2>2. j \notin jobs
    BY <2>1 DEF JobsOK
  <2> HIDE DEF j
  <2>3. \A s \in Slots : run'[s].job = j => WillTry(run'[s])
    BY <1>5, <2>2 DEF JobsOK, Busy, WillTry
  <2> QED
    BY <2>1, <2>3, JobKeeps
<1>6. ASSUME NEW e \in Events, EnqueueDelivery(e) PROVE Kept(d)'
  <2> DEFINE c == <<e, cur[e]>>
  <2>1. /\ c \in Deliveries /\ UNCHANGED <<delivery, run>>
        /\ Enqueue(c) \/ EnqueueFails(c)
    BY <1>6, CurRow DEF EnqueueDelivery
  <2>2. CASE d = c
    <3>1. Enqueue(c)
      BY <2>1, <2>2 DEF EnqueueFails
    <3> HIDE DEF c
    <3> QED
      BY <1>5, <2>1, <2>2, <3>1
  <2>3. CASE d # c
    <3>1. d[1] \in Events /\ d[2] \in Endpoints /\ d = <<d[1], d[2]>>
      BY DEF Deliveries
    <3>2. dropped \subseteq dropped' /\ jobs \subseteq jobs'
      BY <2>1 DEF Enqueue, EnqueueFails
    <3>3. Kept(d)
      BY <1>1, <2>1, <3>2
    <3>4. CASE d[1] # e
      <4>1. UNCHANGED <<trig[d[1]], cur[d[1]]>>
        BY <1>6, <3>1, <3>4 DEF EnqueueDelivery, TypeOK
      <4> QED
        BY <2>1, <3>2, <3>3, <4>1, KeptStays
    <3>5. CASE d[1] = e
      <4>1. ~(cur[d[1]] = d[2])
        BY <2>3, <3>1, <3>5
      <4> QED
        BY <2>1, <3>2, <3>3, <4>1 DEF Kept
    <3> QED
      BY <3>4, <3>5
  <2> QED
    BY <2>2, <2>3
<1>7. ASSUME NEW s \in Slots, StartRun(s) PROVE Kept(d)'
  <2>1. /\ run[s].pc = "idle" /\ UNCHANGED <<trig, cur>>
        /\ \E j \in jobs :
             /\ ~Running(j)
             /\ \/ Drops(s, j)
                \/ /\ j.tries < MaxTries /\ delivery[j.d].status = "deleted"
                   /\ Starts(s, j, "finish") /\ UNCHANGED delivery
                \/ /\ j.tries < MaxTries
                   /\ Starts(s, j, "finish")
                   /\ RecordAttempt(j.d, delivery[j.d].attempts, delivery[j.d].status, "exhausted")
                \/ /\ j.tries < MaxTries
                   /\ Starts(s, j, "post") /\ UNCHANGED delivery
    BY <1>7, StartRunCases DEF trigVars
  <2>2. PICK j \in jobs :
          /\ ~Running(j)
          /\ \/ Drops(s, j)
             \/ /\ j.tries < MaxTries /\ delivery[j.d].status = "deleted"
                /\ Starts(s, j, "finish") /\ UNCHANGED delivery
             \/ /\ j.tries < MaxTries
                /\ Starts(s, j, "finish")
                /\ RecordAttempt(j.d, delivery[j.d].attempts, delivery[j.d].status, "exhausted")
             \/ /\ j.tries < MaxTries
                /\ Starts(s, j, "post") /\ UNCHANGED delivery
    BY <2>1
  <2>3. j.d \in Deliveries
    BY HasRow
  <2>4. CASE Drops(s, j)
    <3>1. Kept(d) /\ d # j.d
      BY <1>1, <2>4 DEF Drops
    <3> QED
      BY <2>1, <2>4, <3>1, KeptStays DEF Drops
  <2>5. CASE j.tries < MaxTries /\ (Starts(s, j, "finish") \/ Starts(s, j, "post"))
    <3>1. /\ run'[s].job = Retried(j) /\ Retried(j).d = j.d /\ Retried(j) \in Job
          /\ \A t \in Slots \ {s} : run'[t] = run[t]
          /\ jobs' = (jobs \ {j}) \cup {Retried(j)} /\ dropped' = dropped
      <4>1. PICK pc \in {"post", "finish"} : Starts(s, j, pc)
        BY <2>5
      <4>2. j.tries < MaxTries
        BY <2>5
      <4> QED
        BY <4>1, <4>2, StartsTypes DEF Starts
    <3>5. ASSUME Starts(s, j, "post") PROVE ~Starts(s, j, "finish")
      BY <2>5, <3>5, StartsTypes
    <3>2. CASE d # j.d
      <4>1. delivery'[d] = delivery[d]
        <5>1. CASE UNCHANGED delivery
          BY <5>1
        <5>2. CASE RecordAttempt(j.d, delivery[j.d].attempts, delivery[j.d].status, "exhausted")
          <6>1. delivery[j.d].attempts \in Nat /\ "exhausted" \in Status
            BY <2>3 DEF TypeOK, Status, Terminal
          <6> QED
            BY <2>3, <3>2, <5>2, <6>1, RecordTypes
        <5>3. CASE Drops(s, j)
          BY <5>3 DEF Drops
        <5> QED
          BY <2>2, <5>1, <5>2, <5>3
      <4>2. Kept(d)
        BY <1>1, <3>1, <4>1
      <4> QED
        BY <2>1, <3>1, <3>2, <4>2, KeptStays
    <3>3. CASE d = j.d /\ Starts(s, j, "post")
      <4>0. UNCHANGED delivery
        BY <2>2, <3>3, <3>5 DEF Drops
      <4>1. run'[s].pc = "post" /\ WillTry(run'[s])
        BY <2>5, <3>3, <4>0, StartsTypes DEF WillTry
      <4>2. \A t \in Slots : run'[t].job = Retried(j) => t = s
        <5>1. Busy(s)' /\ \A q, t \in Slots : Busy(q)' /\ run'[q].job = run'[t].job => q = t
          BY <4>1 DEF JobsOK, Busy
        <5> QED
          BY <3>1, <5>1
      <4>3. Kept(Retried(j).d)'
        BY <3>1, <4>1, <4>2, JobKeeps
      <4> QED
        BY <3>1, <3>3, <4>3
    <3>4. CASE d = j.d /\ Starts(s, j, "finish")
      <4>1. CASE delivery[j.d].status = "deleted" /\ UNCHANGED delivery
        BY <3>4, <4>1 DEF Unfinished
      <4>2. CASE RecordAttempt(j.d, delivery[j.d].attempts, delivery[j.d].status, "exhausted")
        <5>1. delivery[j.d].attempts \in Nat /\ "exhausted" \in Status
          BY <2>3 DEF TypeOK, Status, Terminal
        <5>2. delivery'[j.d].status = "exhausted"
          BY <2>3, <4>2, <5>1, RecordTypes
        <5> QED
          BY <3>4, <5>2 DEF Unfinished
      <4> QED
        BY <2>2, <2>4, <3>3, <3>4, <4>1, <4>2
    <3> QED
      BY <2>5, <3>2, <3>3, <3>4
  <2> QED
    BY <2>2, <2>4, <2>5
<1>8. ASSUME NEW s \in Slots, RunStep(s) PROVE Kept(d)'
  <2> DEFINE j == run[s].job
  <2>1. j \in jobs /\ j.d \in Deliveries /\ UNCHANGED <<trig, cur>> /\ dropped \subseteq dropped'
    BY <1>8, HasRow
       DEF RunStep, Post, PostHangs, Record, Retry, Finish, Enqueue, EnqueueFails,
           JobsOK, Busy, trigVars
  <2>2. \A t \in Slots : run[t].job = j => t = s
    BY <1>8 DEF RunStep, Post, PostHangs, Record, Retry, Finish, JobsOK, Busy
  <2>3. d \notin dropped
    BY <2>1
  <2> HIDE DEF j
  <2>4. CASE Post(s)
    <3>1. (\E ok \in BOOLEAN : Goes(s, "record", ok)) /\ UNCHANGED <<jobs, delivery>>
      BY <2>4, PostCases
    <3> QED
      <4>1. \A t \in Slots : run'[t].job = run[t].job /\ (WillTry(run[t]) => WillTry(run'[t]))
        BY <2>4, <3>1 DEF Goes, WillTry, Post
      <4> QED
        BY <1>1, <2>1, <2>3, <3>1, <4>1, KeptStays
  <2>5. CASE PostHangs(s)
    <3>1. d # j.d /\ jobs' = jobs \ {j} /\ Ends(s) /\ UNCHANGED delivery
      BY <2>5, EndCases DEF PostHangs, j
    <3>2. \A t \in Slots : WillTry(run'[t]) \/ run'[t] = run[t]
      BY <3>1, Constants DEF Ends, WillTry
    <3> QED
      BY <1>1, <2>1, <2>3, <3>1, <3>2, KeptStays
  <2>6. CASE Record(s)
    <3>1. /\ UNCHANGED jobs /\ run[s].seen \in Nat
          /\ \/ /\ delivery[j.d].status = "deleted"
                /\ Goes(s, "finish", run[s].ok) /\ UNCHANGED delivery
             \/ /\ Goes(s, NextAfter(Outcome(s)), run[s].ok)
                /\ RecordAttempt(j.d, run[s].seen, run[s].was, Outcome(s))
      BY <2>6, RecordCases DEF j
    <3>2. CASE delivery[j.d].status = "deleted" /\ Goes(s, "finish", run[s].ok) /\ UNCHANGED delivery
      <4>1. d # j.d
        BY <3>2 DEF Unfinished
      <4> QED
        BY <1>1, <2>1, <2>3, <3>1, <3>2, <4>1, KeptStays DEF Goes, j
    <3>3. CASE /\ Goes(s, NextAfter(Outcome(s)), run[s].ok)
               /\ RecordAttempt(j.d, run[s].seen, run[s].was, Outcome(s))
      <4>1. Outcome(s) \in Status
        BY OutcomeType DEF Status
      <4>2. delivery'[j.d].status = (IF Outcome(s) = run[s].was THEN delivery[j.d].status
                                     ELSE Outcome(s))
            /\ \A c \in Deliveries \ {j.d} : delivery'[c] = delivery[c]
        BY <2>1, <3>1, <3>3, <4>1, RecordTypes
      <4>3. CASE d # j.d
        BY <1>1, <2>1, <2>3, <3>1, <3>3, <4>2, <4>3, KeptStays DEF Goes, j
      <4>4. CASE d = j.d /\ Outcome(s) = "failed"
        <5>1. run'[s].pc = "retry" /\ \A t \in Slots \ {s} : run'[t] = run[t]
          BY <3>3, <4>4 DEF Goes, NextAfter
        <5>2. \A t \in Slots : run'[t].job = j => WillTry(run'[t])
          BY <2>2, <5>1 DEF WillTry
        <5> QED
          BY <2>1, <3>1, <4>4, <5>2, JobKeeps
      \* The outcome was not written: the run had loaded a finished delivery,
      \* and another job keeps it.
      <4>5. CASE d = j.d /\ Outcome(s) # "failed"
        <5>1. Outcome(s) \notin Unfinished
          BY <4>5 DEF Outcome, Unfinished
        <5>2. run[s].was \notin Unfinished /\ delivery[d].status \in Unfinished
          BY <4>2, <4>5, <5>1
        <5>3. ~WillTry(run[s])
          BY <2>6, <5>2 DEF WillTry, Record
        <5>4. \A t \in Slots : run'[t].job = run[t].job /\ (WillTry(run[t]) => WillTry(run'[t]))
          BY <3>3, <5>3 DEF Goes
        <5> QED
          BY <1>1, <2>1, <2>3, <3>1, <5>2, <5>4, KeptStays
      <4> QED
        BY <4>3, <4>4, <4>5
    <3> QED
      BY <3>1, <3>2, <3>3
  <2>7. CASE Retry(s)
    <3>1. /\ Goes(s, "finish", run[s].ok) /\ UNCHANGED delivery
          /\ Enqueue(j.d) \/ EnqueueFails(j.d)
      BY <2>7, RetryCases DEF j
    <3>2. CASE d = j.d
      <4>1. Enqueue(j.d)
        BY <3>1, <3>2 DEF EnqueueFails
      <4>2. \A t \in Slots : run'[t].job = run[t].job /\ (run[t].pc = "idle" => run'[t].pc = "idle")
        BY <2>7, <3>1 DEF Goes, Retry
      <4> QED
        BY <1>5, <2>1, <3>2, <4>1, <4>2
    <3>3. CASE d # j.d
      <4>1. jobs \subseteq jobs'
        BY <3>1 DEF Enqueue, EnqueueFails
      <4> QED
        BY <1>1, <2>1, <2>3, <3>1, <3>3, <4>1, KeptStays DEF Goes, j
    <3> QED
      BY <3>2, <3>3
  <2>8. CASE Finish(s)
    <3>1. jobs' = jobs \ {j} /\ Ends(s) /\ UNCHANGED delivery /\ run[s].pc = "finish"
      BY <2>8, EndCases DEF Finish, j
    <3>2. \A t \in Slots : WillTry(run'[t]) \/ run'[t] = run[t]
      BY <3>1, Constants DEF Ends, WillTry
    <3>3. Kept(d)
      BY <1>1, <2>3, <3>1
    <3>4. CASE trig[d[1]] = "enqueue" /\ cur[d[1]] = d[2]
      BY <2>1, <3>4 DEF Kept
    <3>5. ASSUME NEW i \in jobs, i.d = d, \A t \in Slots : run[t].job = i => WillTry(run[t])
          PROVE  Kept(d)'
      <4>1. i # j
        BY <3>1, <3>5 DEF j, WillTry
      <4>2. i \in jobs' /\ \A t \in Slots : run'[t].job = i => WillTry(run'[t])
        BY <3>1, <3>2, <3>5, <4>1
      <4> QED
        BY <3>5, <4>2, JobKeeps
    <3> QED
      BY <3>3, <3>4, <3>5 DEF Kept
  <2> QED
    BY <1>8, <2>4, <2>5, <2>6, <2>7, <2>8 DEF RunStep
<1>9. CASE CrashWorker
  <2>1. UNCHANGED <<trigVars, jobs, delivery, dropped>> /\ \A t \in Slots : WillTry(run'[t])
    BY <1>9, Constants DEF CrashWorker, JobsKept, WillTry
  <2> QED
    BY <1>1, <2>1, KeptStays DEF trigVars
<1>10. CASE UNCHANGED vars
  BY <1>1, <1>10, KeptStays DEF vars
<1> QED
  BY <1>2, <1>3, <1>4, <1>6, <1>7, <1>8, <1>9, <1>10 DEF Next, TriggerStep

-----------------------------------------------------------------------------
(* One job at a time, and what it knows, while no worker has died. *)

\* The parts of Alone about one job, one run and one delivery.
OpenOK(j) ==
    /\ delivery[j.d].status \in Unfinished \cup {"deleted"}
    /\ delivery[j.d].attempts < MaxAttempts
    /\ posts[j.d] = delivery[j.d].attempts + IF Recording(j.d) THEN 1 ELSE 0

RunOK(s) ==
    /\ run[s].pc \in {"post", "record"} =>
          /\ run[s].seen = delivery[run[s].job.d].attempts
          /\ delivery[run[s].job.d].status \in {run[s].was, "deleted"}
    /\ run[s].pc = "record" /\ run[s].job.d \in accepted =>
          run[s].ok \/ delivery[run[s].job.d].status = "deleted"

CountOK(d) ==
    /\ posts[d] <= MaxAttempts
    /\ delivery[d].attempts <= MaxAttempts
    /\ delivery[d].attempts <= posts[d] + 1
    /\ d \in accepted /\ ~Recording(d) => delivery[d].status \in {"success", "deleted"}

OneOpen(d) == \A i, j \in jobs : Open(i) /\ Open(j) /\ i.d = d /\ j.d = d => i = j

\* All that Alone says about one delivery.
AloneAt(d) ==
    /\ OneOpen(d) /\ CountOK(d)
    /\ \A j \in jobs : Open(j) /\ j.d = d => OpenOK(j)
    /\ \A s \in Slots : run[s].job.d = d => RunOK(s)

LEMMA AloneParts ==
    ASSUME TypeOK
    PROVE  Alone <=> \A d \in Deliveries : AloneAt(d)
<1>1. \A j \in jobs : j.d \in Deliveries
  BY DEF TypeOK, Job
<1>2. \A s \in Slots : Busy(s) => run[s].job.d \in Deliveries
  BY RunType
<1>3. ASSUME Alone, NEW d \in Deliveries PROVE AloneAt(d)
  BY <1>3 DEF Alone, AloneAt, OneOpen, CountOK, OpenOK, RunOK
<1>4. ASSUME \A d \in Deliveries : AloneAt(d) PROVE Alone
  <2>1. \A i, j \in jobs : Open(i) /\ Open(j) /\ i.d = j.d => i = j
    BY <1>1, <1>4 DEF AloneAt, OneOpen
  <2>2. \A j \in jobs : Open(j) => OpenOK(j)
    BY <1>1, <1>4 DEF AloneAt
  <2>3. \A s \in Slots : Busy(s) => RunOK(s)
    BY <1>2, <1>4 DEF AloneAt
  <2>4. \A d \in Deliveries : CountOK(d)
    BY <1>4 DEF AloneAt
  <2> QED
    BY <2>1, <2>2, <2>3, <2>4 DEF Alone, OpenOK, RunOK, CountOK, Busy
<1> QED
  BY <1>3, <1>4

\* A step about something else, or the deletion of the endpoint.
LEMMA AloneElsewhere ==
    ASSUME NEW d \in Deliveries, AloneAt(d),
           UNCHANGED posts[d], d \in accepted' <=> d \in accepted,
           delivery'[d].attempts = delivery[d].attempts,
           delivery'[d].status \in {delivery[d].status, "deleted"},
           \A j \in jobs' : j.d = d => j \in jobs,
           \A s \in Slots : run[s].job.d = d \/ run'[s].job.d = d => run'[s] = run[s]
    PROVE  AloneAt(d)'
<1>1. Recording(d)' <=> Recording(d)
  BY DEF Recording
<1>2. \A j \in jobs' : j.d = d => j \in jobs /\ (Open(j)' => Open(j))
  BY DEF Open
<1>3. OneOpen(d)'
  BY <1>2 DEF AloneAt, OneOpen
<1>4. CountOK(d)'
  BY <1>1 DEF AloneAt, CountOK
<1>5. \A j \in jobs' : Open(j)' /\ j.d = d => OpenOK(j)'
  BY <1>1, <1>2 DEF AloneAt, OpenOK
<1>6. \A s \in Slots : run'[s].job.d = d => RunOK(s)'
  BY DEF AloneAt, RunOK
<1> QED
  BY <1>3, <1>4, <1>5, <1>6 DEF AloneAt

\* The one job that is open, and its run.
LEMMA Sole ==
    ASSUME TypeOK, JobsOK, NEW d \in Deliveries, AloneAt(d),
           NEW j \in jobs, Open(j), j.d = d
    PROVE  /\ OpenOK(j)
           /\ \A i \in jobs : Open(i) /\ i.d = d => i = j
           /\ \A s \in Slots : run[s].job.d = d /\ run[s].pc # "finish" =>
                 Busy(s) /\ run[s].job = j
<1>1. OpenOK(j) /\ \A i \in jobs : Open(i) /\ i.d = d => i = j
  BY DEF AloneAt, OneOpen
<1>2. ASSUME NEW s \in Slots, run[s].job.d = d, run[s].pc # "finish"
      PROVE  Busy(s) /\ run[s].job = j
  <2>1. Busy(s)
    BY <1>2, Constants, RunType
  <2>2. Open(run[s].job)
    BY <1>2, <2>1 DEF Open, JobsOK
  <2> QED
    BY <1>1, <1>2, <2>1, <2>2 DEF Open
<1> QED
  BY <1>1, <1>2

\* After the step, no job of the delivery is open.
LEMMA Closed ==
    ASSUME NEW d \in Deliveries,
           \A i \in jobs' : i.d = d => ~Open(i)',
           \A s \in Slots : run'[s].job.d = d => run'[s].pc \notin {"post", "record"},
           posts'[d] <= MaxAttempts, delivery'[d].attempts <= MaxAttempts,
           delivery'[d].attempts <= posts'[d] + 1,
           d \in accepted' => delivery'[d].status \in {"success", "deleted"}
    PROVE  AloneAt(d)'
  BY DEF AloneAt, OneOpen, CountOK, RunOK

\* After the step, j is open and nothing but s may run it.
LEMMA Opened ==
    ASSUME NEW d \in Deliveries, NEW j \in jobs', j.d = d, NEW s \in Slots,
           \A i \in jobs' : Open(i)' /\ i.d = d => i = j,
           \A r \in Slots \ {s} : run'[r].job.d = d => run'[r].pc \notin {"post", "record"},
           OpenOK(j)', CountOK(d)', RunOK(s)'
    PROVE  AloneAt(d)'
  BY DEF AloneAt, OneOpen, RunOK

\* A delivery without a job.
LEMMA NoJobs ==
    ASSUME TypeOK, JobsOK, NEW d \in Deliveries, enqueued[d] = 0
    PROVE  (\A j \in jobs : j.d # d) /\ (\A s \in Slots : run[s].job.d # d) /\ ~Recording(d)
<1>1. \A j \in jobs : j.d # d
  BY DEF TypeOK, JobsOK, Job
<1>2. \A s \in Slots : run[s].job.d # d
  BY <1>1, RunType, Constants DEF JobsOK
<1> QED
  BY <1>1, <1>2 DEF Recording

LEMMA CreateAlone ==
    ASSUME Inv, Alone, NEW e \in Events, CreateDelivery(e), NEW d \in Deliveries
    PROVE  AloneAt(d)'
<1> USE DEF Inv
<1>1. AloneAt(d)
  BY AloneParts
<1>2. UNCHANGED <<posts, accepted, jobs, run, enqueued>>
  BY CreateDeliveryCases DEF custVars
<1>3. CASE UNCHANGED delivery
  BY <1>1, <1>2, <1>3, AloneElsewhere
<1>4. ASSUME NEW p \in targets[e], p \in Endpoints, <<e, p>> \in Deliveries, Creates(e, p)
      PROVE  AloneAt(d)'
  <2>1. CASE d # <<e, p>>
    BY <1>1, <1>2, <1>4, <2>1, AloneElsewhere DEF Creates
  <2>2. CASE d = <<e, p>>
    <3>1. Unsent(d)
      BY <1>4, <2>2 DEF TriggerOK, RowsOK
    <3>2. (\A j \in jobs : j.d # d) /\ (\A s \in Slots : run[s].job.d # d)
      BY <3>1, NoJobs DEF Unsent
    <3>3. delivery'[d].attempts = 0
      BY <1>4, <2>2, <3>1 DEF Creates, Unsent
    <3> QED
      BY <1>2, <3>1, <3>2, <3>3, Constants, Closed DEF Unsent
  <2> QED
    BY <2>1, <2>2
<1> QED
  BY <1>3, <1>4, CreateDeliveryCases

\* The job that is enqueued is open, and new.
LEMMA NewJob ==
    ASSUME TypeOK, JobsOK, NEW d \in Deliveries, Enqueue(d),
           \A s \in Slots : run'[s].job = run[s].job
    PROVE  \E n \in jobs' : /\ n.d = d /\ n \notin jobs /\ jobs' = jobs \cup {n}
                            /\ \A s \in Slots : run'[s].job = n => run[s].pc = "idle"
<1> DEFINE n == [d |-> d, k |-> enqueued[d], tries |-> 0]
<1>1. n.d = d /\ n.k = enqueued[d] /\ enqueued[d] \in Nat /\ jobs' = jobs \cup {n}
  BY DEF TypeOK, Enqueue
<1> HIDE DEF n
<1>2. n \notin jobs
  BY <1>1 DEF JobsOK
<1>3. \A s \in Slots : run'[s].job = n => run[s].pc = "idle"
  BY <1>2 DEF JobsOK, Busy
<1> QED
  BY <1>1, <1>2, <1>3

\* What Enqueue leaves alone.
LEMMA EnqueueElsewhere ==
    ASSUME TypeOK, NEW d \in Deliveries, Enqueue(d) \/ EnqueueFails(d)
    PROVE  \A j \in jobs' : j.d # d => j \in jobs
  BY DEF Enqueue, EnqueueFails

LEMMA EnqueueAlone ==
    ASSUME Inv, Alone, NEW e \in Events, EnqueueDelivery(e), NEW d \in Deliveries
    PROVE  AloneAt(d)'
<1> USE DEF Inv
<1> DEFINE c == <<e, cur[e]>>
<1>1. AloneAt(d)
  BY AloneParts
<1>2. /\ UNCHANGED <<posts, accepted, delivery, run>> /\ c \in Deliveries
      /\ Enqueue(c) \/ EnqueueFails(c)
      /\ delivery[c].status \in {"pending", "deleted"} /\ Unsent(c)
  BY CurRow DEF EnqueueDelivery, custVars, TriggerOK
<1> HIDE DEF c
<1>3. CASE d # c
  BY <1>1, <1>2, <1>3, AloneElsewhere, EnqueueElsewhere
<1>4. CASE d = c
  <2>1. (\A j \in jobs : j.d # d) /\ (\A s \in Slots : run[s].job.d # d) /\ ~Recording(d)
    BY <1>2, <1>4, NoJobs DEF Unsent
  <2>2. CASE EnqueueFails(c)
    BY <1>1, <1>2, <2>2, AloneElsewhere DEF EnqueueFails
  <2>3. CASE Enqueue(c)
    <3>1. PICK n \in jobs' : n.d = d /\ jobs' = jobs \cup {n}
      BY <1>2, <1>4, <2>3, NewJob
    <3>2. \A i \in jobs' : i.d = d => i = n
      BY <2>1, <3>1
    <3>3. ~Recording(d)' /\ delivery'[d].attempts = 0 /\ posts'[d] = 0
      BY <1>2, <1>4, <2>1 DEF Recording, Unsent
    <3>4. OpenOK(n)'
      BY <1>2, <1>4, <3>1, <3>3, Constants DEF OpenOK, Unfinished
    <3>5. CountOK(d)'
      BY <1>2, <1>4, <3>3, Constants DEF CountOK, Unsent
    <3>6. \A s \in Slots : run'[s].job.d # d
      BY <1>2, <2>1
    <3> QED
      BY <3>1, <3>2, <3>4, <3>5, <3>6 DEF AloneAt, OneOpen
  <2> QED
    BY <1>2, <2>2, <2>3
<1> QED
  BY <1>3, <1>4

LEMMA StartAlone ==
    ASSUME Inv, Alone, NEW s \in Slots, StartRun(s), NEW d \in Deliveries
    PROVE  AloneAt(d)'
<1> USE DEF Inv
<1>1. AloneAt(d)
  BY AloneParts
<1>2. UNCHANGED <<posts, accepted>> /\ run[s].pc = "idle"
  BY StartRunCases DEF custVars
<1>3. PICK j \in jobs :
        /\ ~Running(j)
        /\ \/ Drops(s, j)
           \/ /\ j.tries < MaxTries /\ delivery[j.d].status = "deleted"
              /\ Starts(s, j, "finish") /\ UNCHANGED delivery
           \/ /\ j.tries < MaxTries /\ delivery[j.d].status # "deleted"
              /\ Starts(s, j, "finish")
              /\ RecordAttempt(j.d, delivery[j.d].attempts, delivery[j.d].status, "exhausted")
           \/ /\ j.tries < MaxTries
              /\ Starts(s, j, "post") /\ UNCHANGED delivery
  BY StartRunCases
<1>4. j.d \in Deliveries /\ j \in Job /\ delivery[j.d].attempts \in Nat /\ posts[j.d] \in Nat
  BY DEF TypeOK, Job
<1>5. run[s].job = NoJob /\ NoJob.d \notin Deliveries
  BY <1>2, RunType, Constants DEF Busy
<1>6. Open(j)
  <2>1. \A r \in Slots : run[r].job = j => run[r].pc = "idle"
    BY <1>3 DEF Running
  <2> QED
    BY <2>1 DEF Open
<1> DEFINE t == Retried(j)
<1>7. CASE Drops(s, j)
  BY <1>1, <1>2, <1>7, AloneElsewhere DEF Drops
<1>8. ASSUME NEW pc \in {"post", "finish"}, j.tries < MaxTries, Starts(s, j, pc)
      PROVE  /\ run'[s].job = t /\ t.d = j.d /\ t \notin jobs /\ run'[s].pc = pc
             /\ run'[s].seen = delivery[j.d].attempts /\ run'[s].was = delivery[j.d].status
             /\ jobs' = (jobs \ {j}) \cup {t}
             /\ \A r \in Slots \ {s} : run'[r] = run[r]
             /\ \A i \in jobs' : i.d # j.d => i \in jobs
  <2>1. /\ run'[s].job = Retried(j) /\ Retried(j).d = j.d /\ Retried(j).k = j.k
        /\ Retried(j) # j
        /\ run'[s].pc = pc /\ run'[s].seen = delivery[j.d].attempts
        /\ run'[s].was = delivery[j.d].status
        /\ \A r \in Slots \ {s} : run'[r] = run[r]
    BY <1>8, StartsTypes, ZenonT(40)
  <2>2. jobs' = (jobs \ {j}) \cup {Retried(j)}
    BY <1>8 DEF Starts
  <2>3. Retried(j) \notin jobs
    BY <2>1 DEF JobsOK
  <2> QED
    BY <2>1, <2>2, <2>3
<1> HIDE DEF t
<1>9. CASE d # j.d /\ ~Drops(s, j)
  <2>1. delivery'[d] = delivery[d]
    <3>1. CASE UNCHANGED delivery
      BY <3>1
    <3>2. CASE RecordAttempt(j.d, delivery[j.d].attempts, delivery[j.d].status, "exhausted")
      <4>1. "exhausted" \in Status
        BY DEF Status, Terminal
      <4> QED
        BY <1>4, <1>9, <3>2, <4>1, RecordTypes
    <3> QED
      BY <1>3, <1>9, <3>1, <3>2
  <2>2. /\ \A i \in jobs' : i.d = d => i \in jobs
        /\ \A r \in Slots : run[r].job.d = d \/ run'[r].job.d = d => run'[r] = run[r]
    <3>1. PICK pc \in {"post", "finish"} : j.tries < MaxTries /\ Starts(s, j, pc)
      BY <1>3, <1>9
    <3> QED
      BY <1>5, <1>8, <1>9, <3>1
  <2> QED
    BY <1>1, <1>2, <2>1, <2>2, AloneElsewhere
<1>10. ASSUME d = j.d, NEW pc \in {"post", "finish"}, j.tries < MaxTries, Starts(s, j, pc)
       PROVE  /\ \A i \in jobs' : i.d = d /\ i # t => ~Open(i)'
              /\ \A r \in Slots \ {s} : run'[r].job.d = d => run'[r].pc = "finish"
              /\ ~Recording(d) /\ ~Recording(d)'
  <2>1. \A i \in jobs : Open(i) /\ i.d = d => i = j
    BY <1>1, <1>6, <1>10, Sole
  <2>2. \A r \in Slots : run[r].job.d = d => run[r].pc = "finish"
    BY <1>1, <1>3, <1>6, <1>10, Sole DEF Running, Busy
  <2>3. \A r \in Slots \ {s} : run'[r].job.d = d => run'[r].pc = "finish"
    BY <1>8, <1>10, <2>2
  <2>4. ASSUME NEW i \in jobs', i.d = d, i # t, Open(i)' PROVE FALSE
    <3>1. i \in jobs /\ i # j
      BY <1>8, <1>10, <2>4
    <3>2. Open(i)
      BY <1>8, <1>10, <2>4, <3>1, <1>2 DEF Open
    <3> QED
      BY <2>1, <2>4, <3>1, <3>2
  <2> QED
    BY <1>8, <1>10, <2>2, <2>3, <2>4 DEF Recording
<1>11. CASE d = j.d /\ j.tries < MaxTries /\ Starts(s, j, "post") /\ UNCHANGED delivery
  <2>1. /\ t \in jobs' /\ t.d = d /\ run'[s].job = t /\ run'[s].pc = "post"
        /\ run'[s].seen = delivery[d].attempts /\ run'[s].was = delivery[d].status
        /\ \A i \in jobs' : Open(i)' /\ i.d = d => i = t
        /\ \A r \in Slots \ {s} : run'[r].job.d = d => run'[r].pc = "finish"
        /\ ~Recording(d) /\ ~Recording(d)'
    BY <1>8, <1>10, <1>11
  <2>2. OpenOK(j)
    BY <1>1, <1>6, <1>11 DEF AloneAt
  <2>3. OpenOK(t)' /\ CountOK(d)' /\ RunOK(s)'
    BY <1>1, <1>2, <1>11, <2>1, <2>2 DEF AloneAt, OpenOK, CountOK, RunOK
  <2> QED
    BY <2>1, <2>3, Opened
<1>12. ASSUME d = j.d, j.tries < MaxTries, Starts(s, j, "finish")
       PROVE  /\ \A i \in jobs' : i.d = d => ~Open(i)'
              /\ \A r \in Slots : run'[r].job.d = d => run'[r].pc \notin {"post", "record"}
              /\ ~Recording(d)
  <2>1. run'[s].pc = "finish"
    BY <1>8, <1>12
  <2>2. ~Open(t)'
    BY <1>8, <1>12, <2>1 DEF Open
  <2> QED
    BY <1>10, <1>12, <2>1, <2>2
<1>13. CASE /\ d = j.d /\ j.tries < MaxTries /\ Starts(s, j, "finish")
            /\ delivery[d].status = "deleted" /\ UNCHANGED delivery
  BY <1>1, <1>2, <1>12, <1>13, Closed DEF AloneAt, CountOK
<1>14. CASE /\ d = j.d /\ j.tries < MaxTries /\ Starts(s, j, "finish")
            /\ delivery[d].status # "deleted"
            /\ RecordAttempt(d, delivery[d].attempts, delivery[d].status, "exhausted")
  <2>1. OpenOK(j)
    BY <1>1, <1>6, <1>14 DEF AloneAt
  <2>2. /\ delivery[d].attempts + 1 <= MaxAttempts /\ posts[d] = delivery[d].attempts
        /\ delivery[d].status \in Unfinished
    BY <1>4, <1>12, <1>14, <2>1, Constants DEF OpenOK
  <2>3. d \notin accepted
    BY <1>1, <1>12, <1>14, <2>2 DEF AloneAt, CountOK, Unfinished
  <2>4. delivery'[d].attempts = delivery[d].attempts + 1
    <3>1. "exhausted" \in Status
      BY DEF Status, Terminal
    <3> QED
      BY <1>4, <1>14, <3>1, RecordTypes
  <2>5. posts'[d] <= MaxAttempts /\ delivery'[d].attempts <= MaxAttempts
        /\ delivery'[d].attempts <= posts'[d] + 1
    BY <1>1, <1>2, <1>4, <1>14, <2>2, <2>4, Constants DEF AloneAt, CountOK
  <2> QED
    BY <1>2, <1>12, <1>14, <2>3, <2>5, Closed
<1> QED
  BY <1>3, <1>7, <1>9, <1>11, <1>13, <1>14

\* The run that takes a step has the one open job of its delivery.
LEMMA RunIsSole ==
    ASSUME Inv, Alone, NEW s \in Slots, Busy(s), run[s].pc # "finish"
    PROVE  /\ run[s].job \in jobs /\ run[s].job.d \in Deliveries /\ Open(run[s].job)
           /\ OpenOK(run[s].job) /\ AloneAt(run[s].job.d) /\ RunOK(s)
           /\ \A i \in jobs : Open(i) /\ i.d = run[s].job.d => i = run[s].job
           /\ \A r \in Slots \ {s} : run[r].job.d = run[s].job.d => run[r].pc = "finish"
           /\ Recording(run[s].job.d) <=> run[s].pc = "record"
           /\ delivery[run[s].job.d].attempts \in Nat /\ posts[run[s].job.d] \in Nat
<1> USE DEF Inv
<1>1. run[s].job \in jobs /\ run[s].job.d \in Deliveries
  BY RunType DEF JobsOK
<1>2. Open(run[s].job)
  BY <1>1 DEF Open, JobsOK
<1>3. AloneAt(run[s].job.d)
  BY <1>1, AloneParts
<1>4. /\ OpenOK(run[s].job)
      /\ \A i \in jobs : Open(i) /\ i.d = run[s].job.d => i = run[s].job
      /\ \A r \in Slots : run[r].job.d = run[s].job.d /\ run[r].pc # "finish" =>
            Busy(r) /\ run[r].job = run[s].job
  BY <1>1, <1>2, <1>3, Sole
<1>5. \A r \in Slots \ {s} : run[r].job.d = run[s].job.d => run[r].pc = "finish"
  BY <1>4 DEF JobsOK
<1>6. Recording(run[s].job.d) <=> run[s].pc = "record"
  BY <1>5 DEF Recording
<1> QED
  BY <1>1, <1>2, <1>3, <1>4, <1>5, <1>6 DEF AloneAt, TypeOK

LEMMA PostAlone ==
    ASSUME Inv, Alone, NEW s \in Slots, Post(s), NEW d \in Deliveries
    PROVE  AloneAt(d)'
<1> USE DEF Inv
<1>0. PICK j : j = run[s].job
  OBVIOUS
<1> USE <1>0
<1>1. AloneAt(d)
  BY AloneParts
<1>2. /\ Busy(s) /\ run[s].pc = "post" /\ j.d \in Deliveries /\ UNCHANGED <<delivery, jobs>>
      /\ posts' = [posts EXCEPT ![j.d] = @ + 1]
  BY PostCases
<1>3. PICK ok \in BOOLEAN :
        /\ Goes(s, "record", ok)
        /\ accepted' = IF ok THEN accepted \cup {j.d} ELSE accepted
  BY PostCases
<1>4. CASE d # j.d
  <2>1. posts'[d] = posts[d] /\ (d \in accepted' <=> d \in accepted)
    BY <1>2, <1>3, <1>4 DEF TypeOK
  <2> QED
    BY <1>1, <1>2, <1>3, <1>4, <2>1, AloneElsewhere DEF Goes
<1>5. CASE d = j.d
  <2>1. /\ j \in jobs /\ Open(j) /\ OpenOK(j) /\ RunOK(s)
        /\ \A i \in jobs : Open(i) /\ i.d = d => i = j
        /\ \A r \in Slots \ {s} : run[r].job.d = d => run[r].pc = "finish"
        /\ ~Recording(d) /\ delivery[d].attempts \in Nat /\ posts[d] \in Nat
    BY <1>2, <1>5, RunIsSole
  <2>2. /\ run'[s].pc = "record" /\ run'[s].job = j /\ run'[s].ok = ok
        /\ run'[s].seen = run[s].seen /\ run'[s].was = run[s].was
        /\ \A r \in Slots \ {s} : run'[r] = run[r]
    BY <1>3 DEF Goes
  <2>3. posts[d] = delivery[d].attempts /\ delivery[d].attempts < MaxAttempts
        /\ delivery[d].status \in Unfinished \cup {"deleted"}
    BY <1>5, <2>1 DEF OpenOK
  <2>4. posts'[d] = posts[d] + 1 /\ delivery'[d] = delivery[d]
    BY <1>2, <1>5 DEF TypeOK
  <2>5. Recording(d)'
    BY <1>5, <2>2 DEF Recording
  <2>6. \A i \in jobs' : Open(i)' /\ i.d = d => i = j
    BY <1>2, <2>1, <2>2 DEF Open
  <2>7. OpenOK(j)'
    BY <1>5, <2>3, <2>4, <2>5 DEF OpenOK
  <2>8. CountOK(d)'
    BY <2>1, <2>3, <2>4, <2>5, Constants DEF CountOK
  <2>9. RunOK(s)'
    <3>1. d \in accepted => delivery[d].status = "deleted"
      BY <1>1, <2>1, <2>3 DEF AloneAt, CountOK, Unfinished
    <3> QED
      BY <1>2, <1>3, <1>5, <2>1, <2>2, <2>4, <3>1 DEF RunOK
  <2>10. j \in jobs' /\ \A r \in Slots \ {s} : run'[r].job.d = d => run'[r].pc \notin {"post", "record"}
    BY <1>2, <2>1, <2>2
  <2> QED
    BY <1>5, <2>6, <2>7, <2>8, <2>9, <2>10 DEF AloneAt, OneOpen, RunOK
<1> QED
  BY <1>4, <1>5

LEMMA HangAlone ==
    ASSUME Inv, Alone, NEW s \in Slots, PostHangs(s), NEW d \in Deliveries
    PROVE  AloneAt(d)'
<1> USE DEF Inv
<1>0. PICK j : j = run[s].job
  OBVIOUS
<1> USE <1>0
<1>1. AloneAt(d)
  BY AloneParts
<1>2. /\ run[s].pc = "post" /\ UNCHANGED <<delivery, accepted>> /\ Ends(s)
      /\ posts' = [posts EXCEPT ![j.d] = @ + 1]
  BY EndCases DEF PostHangs
<1>3. run'[s].job.d \notin Deliveries /\ run'[s].pc = "idle"
  BY <1>2, Constants DEF Ends
<1>4. CASE d # j.d
  <2>1. posts'[d] = posts[d]
    BY <1>2, <1>4 DEF TypeOK
  <2> QED
    BY <1>1, <1>2, <1>3, <1>4, <2>1, AloneElsewhere DEF Ends
<1>5. CASE d = j.d
  <2>1. /\ OpenOK(j)
        /\ \A i \in jobs : Open(i) /\ i.d = d => i = j
        /\ \A r \in Slots \ {s} : run[r].job.d = d => run[r].pc = "finish"
        /\ ~Recording(d) /\ delivery[d].attempts \in Nat /\ posts[d] \in Nat
    BY <1>2, <1>5, RunIsSole DEF Ends
  <2>2. posts'[d] = posts[d] + 1 /\ posts[d] = delivery[d].attempts
        /\ delivery[d].attempts < MaxAttempts
    BY <1>2, <1>5, <2>1 DEF TypeOK, OpenOK
  <2>3. ASSUME NEW i \in jobs', i.d = d, Open(i)' PROVE FALSE
    <3>1. i \in jobs /\ i # j /\ Open(i)
      BY <1>2, <2>3 DEF Ends, Open
    <3> QED
      BY <2>1, <2>3, <3>1
  <2>4. \A r \in Slots : run'[r].job.d = d => run'[r].pc \notin {"post", "record"}
    BY <1>2, <1>3, <2>1 DEF Ends
  <2>5. posts'[d] <= MaxAttempts /\ delivery'[d].attempts <= MaxAttempts
        /\ delivery'[d].attempts <= posts'[d] + 1
    BY <1>2, <2>1, <2>2, Constants
  <2>6. d \in accepted' => delivery'[d].status \in {"success", "deleted"}
    BY <1>1, <1>2, <2>1 DEF AloneAt, CountOK
  <2> QED
    BY <2>3, <2>4, <2>5, <2>6, Closed
<1> QED
  BY <1>4, <1>5

LEMMA FinishAlone ==
    ASSUME Inv, Alone, NEW s \in Slots, Finish(s), NEW d \in Deliveries
    PROVE  AloneAt(d)'
<1> USE DEF Inv
<1>1. AloneAt(d)
  BY AloneParts
<1>2. UNCHANGED <<delivery, accepted, posts>> /\ Ends(s) /\ run[s].pc = "finish"
  BY EndCases DEF Finish, custVars
<1>3. run'[s].job.d \notin Deliveries /\ run'[s].pc = "idle"
  BY <1>2, Constants DEF Ends
<1>4. Recording(d)' <=> Recording(d)
  BY <1>2, <1>3 DEF Recording, Ends
<1>5. \A i \in jobs' : i \in jobs /\ (Open(i)' => Open(i))
  BY <1>2 DEF Open, Ends
<1>6. OneOpen(d)' /\ CountOK(d)'
  BY <1>1, <1>2, <1>4, <1>5 DEF AloneAt, OneOpen, CountOK
<1>7. \A i \in jobs' : Open(i)' /\ i.d = d => OpenOK(i)'
  BY <1>1, <1>2, <1>4, <1>5 DEF AloneAt, OpenOK
<1>8. \A r \in Slots : run'[r].job.d = d => RunOK(r)'
  BY <1>1, <1>2, <1>3 DEF AloneAt, RunOK, Ends
<1> QED
  BY <1>6, <1>7, <1>8 DEF AloneAt

LEMMA RecordAlone ==
    ASSUME Inv, Alone, NEW s \in Slots, Record(s), NEW d \in Deliveries
    PROVE  AloneAt(d)'
<1> USE DEF Inv
<1>0. PICK j : j = run[s].job
  OBVIOUS
<1> USE <1>0
<1>1. AloneAt(d)
  BY AloneParts
<1>2. /\ Busy(s) /\ run[s].pc = "record" /\ j.d \in Deliveries /\ run[s].seen \in Nat
      /\ run[s].ok \in BOOLEAN /\ UNCHANGED <<jobs, posts, accepted>>
      /\ \/ /\ delivery[j.d].status = "deleted"
            /\ Goes(s, "finish", run[s].ok) /\ UNCHANGED delivery
         \/ /\ delivery[j.d].status # "deleted"
            /\ Goes(s, NextAfter(Outcome(s)), run[s].ok)
            /\ RecordAttempt(j.d, run[s].seen, run[s].was, Outcome(s))
  BY RecordCases DEF custVars
<1>3. /\ run'[s].job = j /\ run'[s].pc \in {"finish", "retry"}
      /\ \A r \in Slots \ {s} : run'[r] = run[r]
  BY <1>2 DEF Goes, NextAfter
<1>4. ASSUME delivery[j.d].status # "deleted"
      PROVE  /\ delivery'[j.d].status = Outcome(s) /\ delivery'[j.d].attempts = run[s].seen + 1
             /\ \A c \in Deliveries \ {j.d} : delivery'[c] = delivery[c]
  <2>1. Outcome(s) \in Status
    BY OutcomeType DEF Status
  <2>2. run[s].was = delivery[j.d].status
    BY <1>2, <1>4, RunIsSole DEF RunOK
  <2> QED
    BY <1>2, <1>4, <2>1, <2>2, RecordTypes
<1>5. CASE d # j.d
  <2>1. delivery'[d] = delivery[d]
    BY <1>2, <1>4, <1>5
  <2> QED
    BY <1>1, <1>2, <1>3, <1>5, <2>1, AloneElsewhere
<1>6. CASE d = j.d
  <2>1. /\ j \in jobs /\ OpenOK(j) /\ RunOK(s)
        /\ \A i \in jobs : Open(i) /\ i.d = d => i = j
        /\ \A r \in Slots \ {s} : run[r].job.d = d => run[r].pc = "finish"
        /\ Recording(d) /\ delivery[d].attempts \in Nat /\ posts[d] \in Nat
    BY <1>2, <1>6, RunIsSole
  <2>2. /\ posts[d] = delivery[d].attempts + 1 /\ delivery[d].attempts < MaxAttempts
        /\ run[s].seen = delivery[d].attempts /\ posts' = posts
    BY <1>2, <1>6, <2>1 DEF OpenOK, RunOK
  <2>3. \A r \in Slots : run'[r].job.d = d => run'[r].pc \notin {"post", "record"}
    BY <1>3, <2>1
  <2>4. \A i \in jobs' : Open(i)' /\ i.d = d => i = j
    <3>1. \A i \in jobs' : i # j => (Open(i)' => Open(i))
      BY <1>2, <1>3 DEF Open
    <3> QED
      BY <1>2, <2>1, <3>1
  <2>5. CASE delivery[d].status = "deleted"
    <3>1. run'[s].pc = "finish" /\ UNCHANGED delivery
      BY <1>2, <1>6, <2>5 DEF Goes
    <3>2. ~Open(j)'
      BY <1>3, <3>1 DEF Open
    <3>3. \A i \in jobs' : i.d = d => ~Open(i)'
      BY <2>4, <3>2
    <3>4. posts'[d] <= MaxAttempts /\ delivery'[d].attempts <= MaxAttempts
          /\ delivery'[d].attempts <= posts'[d] + 1
      BY <2>1, <2>2, <3>1, Constants
    <3> QED
      BY <2>3, <2>5, <3>1, <3>3, <3>4, Closed
  <2>6. CASE delivery[d].status # "deleted"
    <3>1. /\ delivery'[d].status = Outcome(s) /\ delivery'[d].attempts = delivery[d].attempts + 1
          /\ run'[s].pc = NextAfter(Outcome(s))
      BY <1>2, <1>4, <1>6, <2>2, <2>6 DEF Goes
    <3>2. posts'[d] <= MaxAttempts /\ delivery'[d].attempts <= MaxAttempts
          /\ delivery'[d].attempts <= posts'[d] + 1 /\ posts'[d] = delivery'[d].attempts
      BY <2>1, <2>2, <3>1, Constants
    <3>3. d \in accepted' => Outcome(s) = "success"
      BY <1>2, <1>6, <2>1, <2>6 DEF RunOK, Outcome
    <3>4. CASE Outcome(s) = "failed"
      <4>1. run[s].seen + 1 < MaxAttempts
        BY <1>2, <3>4, Constants DEF Outcome
      <4>2. ~Recording(d)'
        BY <2>3 DEF Recording
      <4>3. OpenOK(j)'
        BY <1>3, <1>6, <2>2, <3>1, <3>2, <3>4, <4>1, <4>2, <2>1 DEF OpenOK, Unfinished
      <4>4. CountOK(d)'
        BY <3>1, <3>2, <3>3 DEF CountOK
      <4> QED
        BY <1>6, <2>3, <2>4, <4>3, <4>4 DEF AloneAt, OneOpen, RunOK
    <3>5. CASE Outcome(s) # "failed"
      <4>1. run'[s].pc = "finish"
        BY <3>1, <3>5 DEF NextAfter
      <4>2. \A i \in jobs' : i.d = d => ~Open(i)'
        BY <1>3, <2>4, <4>1 DEF Open
      <4> QED
        BY <2>3, <3>1, <3>2, <3>3, <4>2, Closed
    <3> QED
      BY <3>4, <3>5
  <2> QED
    BY <2>5, <2>6
<1> QED
  BY <1>5, <1>6

LEMMA RetryAlone ==
    ASSUME Inv, Alone, NEW s \in Slots, Retry(s), NEW d \in Deliveries
    PROVE  AloneAt(d)'
<1> USE DEF Inv
<1>0. PICK j : j = run[s].job
  OBVIOUS
<1> USE <1>0
<1>1. AloneAt(d)
  BY AloneParts
<1>2. /\ Busy(s) /\ run[s].pc = "retry" /\ j.d \in Deliveries
      /\ Goes(s, "finish", run[s].ok) /\ UNCHANGED <<delivery, posts, accepted>>
      /\ Enqueue(j.d) \/ EnqueueFails(j.d)
  BY RetryCases DEF custVars
<1>3. /\ run'[s].job = j /\ run'[s].pc = "finish"
      /\ \A r \in Slots \ {s} : run'[r] = run[r]
  BY <1>2 DEF Goes
<1>4. CASE d # j.d
  <2>1. \A i \in jobs' : i.d = d => i \in jobs
    BY <1>2, <1>4, EnqueueElsewhere
  <2> QED
    BY <1>1, <1>2, <1>3, <1>4, <2>1, AloneElsewhere
<1>5. CASE d = j.d
  <2>1. /\ j \in jobs /\ OpenOK(j)
        /\ \A i \in jobs : Open(i) /\ i.d = d => i = j
        /\ \A r \in Slots \ {s} : run[r].job.d = d => run[r].pc = "finish"
        /\ ~Recording(d)
    BY <1>2, <1>5, RunIsSole
  <2>2. \A r \in Slots : run'[r].job.d = d => run'[r].pc \notin {"post", "record"}
    BY <1>3, <2>1
  <2>3. ~Recording(d)'
    BY <2>2 DEF Recording
  <2>4. CountOK(d)'
    BY <1>1, <1>2, <2>1, <2>3 DEF AloneAt, CountOK
  <2>5. \A i \in jobs : i.d = d => ~Open(i)'
    <3>1. \A i \in jobs : i # j /\ Open(i)' => Open(i)
      BY <1>3 DEF Open
    <3>2. ~Open(j)'
      BY <1>3 DEF Open
    <3> QED
      BY <2>1, <3>1, <3>2
  <2>6. CASE EnqueueFails(j.d)
    BY <2>2, <2>4, <2>5, <2>6 DEF EnqueueFails, AloneAt, OneOpen, RunOK
  <2>7. CASE Enqueue(j.d)
    <3>1. PICK n \in jobs' : n.d = d /\ jobs' = jobs \cup {n}
      <4>1. \A r \in Slots : run'[r].job = run[r].job
        BY <1>3
      <4> QED
        BY <1>2, <1>5, <2>7, <4>1, NewJob
    <3>2. \A i \in jobs' : i.d = d /\ Open(i)' => i = n
      BY <2>5, <3>1
    <3>3. OpenOK(n)'
      BY <1>2, <1>5, <2>1, <2>3, <3>1 DEF OpenOK
    <3> QED
      BY <2>2, <2>4, <3>2, <3>3 DEF AloneAt, OneOpen, RunOK
  <2> QED
    BY <1>2, <2>6, <2>7
<1> QED
  BY <1>4, <1>5

\* Nobody takes a crash back.
LEMMA CrashesStay == ASSUME Inv, [Next]_vars, crashes' = 0 PROVE crashes = 0
<1> USE DEF Inv
<1>1. crashes \in Nat
  BY DEF TypeOK
<1>2. CASE CrashWorker
  BY <1>1, <1>2 DEF CrashWorker
<1>3. CASE Customer
  BY <1>2, <1>3 DEF Customer, CreateEndpoint, UpdateEndpoint, DeleteEndpoint
<1>4. ASSUME NEW e \in Events, Trigger(e) \/ TriggerStep(e) \/ TriggerDies(e)
    PROVE  crashes = 0
  BY <1>4 DEF Trigger, TriggerStep, CreateDelivery, EnqueueDelivery, TriggerDies
<1>5. ASSUME NEW s \in Slots, StartRun(s) \/ RunStep(s) PROVE crashes = 0
  BY <1>5 DEF StartRun, RunStep, Post, PostHangs, Record, Retry, Finish
<1>6. CASE UNCHANGED vars
  BY <1>6 DEF vars
<1> QED
  BY <1>2, <1>3, <1>4, <1>5, <1>6 DEF Next

LEMMA AloneStep == ASSUME Inv, [Next]_vars, TypeOK', crashes' = 0 PROVE Alone'
<1> USE DEF Inv
<1>1. crashes = 0
  BY CrashesStay
<1>2. Alone
  BY <1>1
<1> SUFFICES ASSUME NEW d \in Deliveries PROVE AloneAt(d)'
  <2>1. (Alone <=> \A d \in Deliveries : AloneAt(d))'
    BY AloneParts, PTL
  <2> QED
    BY <2>1
<1>3. AloneAt(d)
  BY <1>2, AloneParts
<1>4. CASE Customer
  <2>1. UNCHANGED <<posts, accepted, jobs, run>>
    BY <1>4 DEF Customer, CreateEndpoint, UpdateEndpoint, DeleteEndpoint, custVars
  <2>2. /\ delivery'[d].attempts = delivery[d].attempts
        /\ delivery'[d].status \in {delivery[d].status, "deleted"}
    BY <1>4, DeletedRows DEF Customer, CreateEndpoint, UpdateEndpoint
  <2> QED
    BY <1>3, <2>1, <2>2, AloneElsewhere
<1>5. ASSUME NEW e \in Events, Trigger(e) \/ TriggerDies(e) PROVE AloneAt(d)'
  BY <1>3, <1>5, AloneElsewhere DEF Trigger, TriggerDies, custVars
<1>6. CASE UNCHANGED vars
  BY <1>3, <1>6, AloneElsewhere DEF vars
<1>7. ASSUME NEW e \in Events, TriggerStep(e) PROVE AloneAt(d)'
  BY <1>2, <1>7, CreateAlone, EnqueueAlone DEF TriggerStep
<1>8. ASSUME NEW s \in Slots, StartRun(s) \/ RunStep(s) PROVE AloneAt(d)'
  BY <1>2, <1>8, StartAlone, PostAlone, HangAlone, RecordAlone, RetryAlone, FinishAlone
     DEF RunStep
<1>9. ~CrashWorker
  BY <1>1 DEF CrashWorker
<1> QED
  BY <1>9, <1>4, <1>5, <1>6, <1>7, <1>8 DEF Next

-----------------------------------------------------------------------------
LEMMA InitInv == Init => Inv
<1> SUFFICES ASSUME Init PROVE Inv
  OBVIOUS
<1>1. TypeOK
  <2>1. NoDelivery \in Row
    BY DEF NoDelivery, Row, Status
  <2>2. delivery \in [Deliveries -> Row]
    BY <2>1 DEF Init
  <2> QED
    BY <2>2 DEF Init, TypeOK, Row, Status
<1>2. \A s \in Slots : run[s].pc = "idle"
  BY Constants DEF Init
<1>3. JobsOK
  BY <1>2 DEF Init, JobsOK, Busy
<1>4. \A d \in Deliveries : Unsent(d) /\ delivery[d].status = "none"
  BY DEF Init, Unsent, NoDelivery
<1>5. RowsOK
  BY <1>2, <1>4 DEF RowsOK
<1>6. \A e \in Events : TriggerOK(e)
  BY <1>4, DeliveryType DEF Init, TriggerOK
<1>7. AllKept
  BY <1>4 DEF AllKept, Unfinished
<1>8. Alone
  <2>1. \A d \in Deliveries : ~Recording(d)
    BY <1>2 DEF Recording
  <2> QED
    BY <1>2, <1>4, <2>1, Constants DEF Init, Alone, Unsent
<1> QED
  BY <1>1, <1>3, <1>5, <1>6, <1>7, <1>8 DEF Inv

LEMMA NextInv == Inv /\ [Next]_vars => Inv'
<1> SUFFICES ASSUME Inv, [Next]_vars PROVE Inv'
  OBVIOUS
<1>1. TypeOK'
  BY TypeStep
<1>2. JobsOK'
  BY JobsStep
<1>3. RowsOK' /\ \A e \in Events : TriggerOK(e)'
  BY RowsStep, TriggersStep
<1>4. AllKept'
  BY <1>1, <1>2, ForgottenStep
<1>5. crashes' = 0 => Alone'
  BY <1>1, AloneStep
<1> QED
  BY <1>1, <1>2, <1>3, <1>4, <1>5 DEF Inv

LEMMA Invariance == Spec => []Inv
<1> QED
  BY InitInv, NextInv, PTL DEF Spec

-----------------------------------------------------------------------------
(* The theorems. *)

\* Every variable keeps its type: trigger enqueues jobs for rows that exist,
\* and arq never runs a job more often than max_tries.
THEOREM Types == Spec => []TypeOK
<1>1. Inv => TypeOK
  BY DEF Inv
<1> QED
  BY <1>1, Invariance, PTL

\* A delivery that is not finished has a job or is about to get one, unless a
\* job of it was lost, through any number of crashes and runs of one job.
THEOREM NoneForgottenHolds == Spec => []NoneForgotten
<1>1. Inv => NoneForgotten
  BY DEF Inv, AllKept, Kept, WillTry, NoneForgotten
<1> QED
  BY <1>1, Invariance, PTL

\* While no worker has died, deliver_webhook never calls the customer more than
\* webhook_max_attempts times for a delivery, and attempt_count keeps count.
THEOREM AttemptsCountedHolds == Spec => []AttemptsCounted
<1>1. Inv => AttemptsCounted
  <2> SUFFICES ASSUME Inv, crashes = 0, NEW d \in Deliveries
               PROVE  /\ posts[d] <= MaxAttempts
                      /\ delivery[d].attempts <= MaxAttempts
                      /\ delivery[d].attempts <= posts[d] + 1
                      /\ Cardinality({s \in Slots : run[s].job.d = d /\ run[s].pc # "finish"}) <= 1
    BY DEF AttemptsCounted
  <2> DEFINE S == {s \in Slots : run[s].job.d = d /\ run[s].pc # "finish"}
  <2>1. TypeOK /\ JobsOK /\ Alone
    BY DEF Inv
  <2>2. \A s \in S : Busy(s) /\ Open(run[s].job)
    BY <2>1, RunType, Constants DEF Open, JobsOK
  <2>3. \A r, s \in S : r = s
    <3>1. \A r, s \in S : run[r].job = run[s].job
      BY <2>1, <2>2 DEF Alone, Open
    <3> QED
      BY <2>1, <2>2, <3>1 DEF JobsOK
  <2>4. Cardinality(S) <= 1
    <3> HIDE DEF S
    <3>1. CASE S = {}
      BY <3>1, FS_EmptySet
    <3>2. ASSUME NEW s \in S PROVE Cardinality(S) <= 1
      <4>1. S = {s}
        BY <2>3, <3>2
      <4>2. Cardinality({s}) = 1
        BY FS_Singleton
      <4> QED
        BY <4>1, <4>2
    <3> QED
      BY <3>1, <3>2
  <2> QED
    BY <2>1, <2>4 DEF Alone
<1> QED
  BY <1>1, Invariance, PTL

\* deliver_webhook calls a delivery a success only after a 2xx, and, while no
\* worker has died, every 2xx it recorded is called one.
THEOREM AnswerRecordedHolds == Spec => []AnswerRecorded
<1>1. Inv => AnswerRecorded
  BY DEF Inv, RowsOK, Alone, AnswerRecorded, Recording
<1> QED
  BY <1>1, Invariance, PTL

\* A trigger that ended has left a row for every endpoint that it listed,
\* whether or not Redis took the jobs.
THEOREM EveryoneHasARowHolds == Spec => []EveryoneHasARow
<1>1. Inv => EveryoneHasARow
  BY DEF Inv, TriggerOK, EveryoneHasARow
<1> QED
  BY <1>1, Invariance, PTL

LEMMA FinishedStep ==
    ASSUME Inv, [Next]_vars, crashes' = 0, crashes = 0, NEW d \in Deliveries,
           delivery[d].status \in Terminal, delivery'[d].status # "deleted"
    PROVE  delivery'[d] = delivery[d]
<1> USE DEF Inv
<1>1. delivery[d].status \notin Unfinished \cup {"deleted", "none"}
  BY DEF Terminal, Unfinished
<1>2. CASE UNCHANGED delivery
  BY <1>2
<1>3. CASE Customer
  <2>1. ASSUME NEW p \in Endpoints, DeleteEndpoint(p) PROVE delivery'[d] = delivery[d]
    <3>1. delivery'[d] = IF d[2] = p /\ delivery[d].status # "none"
                         THEN [delivery[d] EXCEPT !.status = "deleted"] ELSE delivery[d]
      BY <2>1 DEF DeleteEndpoint
    <3>2. delivery[d] \in Row
      BY DEF TypeOK, Row, Status
    <3>3. [delivery[d] EXCEPT !.status = "deleted"].status = "deleted"
      BY <3>2 DEF Row
    <3> QED
      BY <3>1, <3>3
  <2> QED
    BY <1>2, <1>3, <2>1 DEF Customer, CreateEndpoint, UpdateEndpoint
<1>4. ASSUME NEW e \in Events, CreateDelivery(e) PROVE delivery'[d] = delivery[d]
  <2>1. ASSUME NEW p \in targets[e], Creates(e, p) PROVE delivery'[d] = delivery[d]
    <3>1. d # <<e, p>>
      BY <1>1, <2>1 DEF TriggerOK
    <3> QED
      BY <2>1, <3>1 DEF Creates
  <2> QED
    BY <1>2, <1>4, <2>1, CreateDeliveryCases
<1>5. ASSUME NEW s \in Slots, StartRun(s) PROVE delivery'[d] = delivery[d]
  <2>1. PICK j \in jobs :
          /\ ~Running(j)
          /\ \/ UNCHANGED delivery
             \/ RecordAttempt(j.d, delivery[j.d].attempts, delivery[j.d].status, "exhausted")
    BY <1>5, StartRunCases DEF Drops
  <2>2. CASE RecordAttempt(j.d, delivery[j.d].attempts, delivery[j.d].status, "exhausted")
    <3>1. Open(j)
      BY <2>1 DEF Running, Open, JobsOK, Busy
    <3>2. d # j.d
      BY <1>1, <3>1 DEF Alone
    <3>3. j.d \in Deliveries /\ delivery[j.d].attempts \in Nat /\ "exhausted" \in Status
      BY HasRow DEF TypeOK, Status, Terminal
    <3> QED
      BY <2>2, <3>2, <3>3, RecordTypes
  <2> QED
    BY <1>2, <2>1, <2>2
<1>6. ASSUME NEW s \in Slots, Record(s) PROVE delivery'[d] = delivery[d]
  <2>1. /\ Busy(s) /\ run[s].pc = "record" /\ run[s].job.d \in Deliveries /\ run[s].seen \in Nat
        /\ UNCHANGED delivery \/ RecordAttempt(run[s].job.d, run[s].seen, run[s].was, Outcome(s))
    BY <1>6, RecordCases
  <2>2. CASE RecordAttempt(run[s].job.d, run[s].seen, run[s].was, Outcome(s))
    <3>1. OpenOK(run[s].job)
      BY <2>1, RunIsSole
    <3>2. d # run[s].job.d
      BY <1>1, <3>1 DEF OpenOK
    <3>3. Outcome(s) \in Status
      BY OutcomeType DEF Status
    <3> QED
      BY <2>1, <2>2, <3>2, <3>3, RecordTypes
  <2> QED
    BY <1>2, <2>1, <2>2
<1>7. ASSUME NEW e \in Events, Trigger(e) \/ EnqueueDelivery(e) \/ TriggerDies(e)
      PROVE  delivery'[d] = delivery[d]
  BY <1>7 DEF Trigger, EnqueueDelivery, TriggerDies
<1>8. ASSUME NEW s \in Slots, Post(s) \/ PostHangs(s) \/ Retry(s) \/ Finish(s)
      PROVE  delivery'[d] = delivery[d]
  BY <1>8 DEF Post, PostHangs, Retry, Finish
<1>9. CASE CrashWorker \/ UNCHANGED vars
  BY <1>2, <1>9 DEF CrashWorker, vars
<1> QED
  BY <1>3, <1>4, <1>5, <1>6, <1>7, <1>8, <1>9 DEF Next, TriggerStep, RunStep

\* While no worker has died, a finished delivery is not attempted again: it
\* stays as it is until its endpoint is deleted.
THEOREM FinishedStaysHolds == Spec => FinishedStays
<1>1. Inv /\ [Next]_vars =>
        [crashes' = 0 =>
           \A d \in Deliveries :
              delivery[d].status \in Terminal /\ delivery'[d].status # "deleted"
              => delivery'[d] = delivery[d]]_vars
  BY FinishedStep, CrashesStay
<1> QED
  BY <1>1, Invariance, PTL DEF Spec, FinishedStays

=============================================================================

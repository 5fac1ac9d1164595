--------------------------- MODULE ContainerTracking ---------------------------
(***************************************************************************)
(* The container lifecycle of one organisation: the five endpoints of      *)
(* ContainerService (track, get_or_refresh, request_refresh, queue_bulk,   *)
(* stop_tracking), the scrape_container jobs they enqueue, the cron sweep  *)
(* of stuck rows and the credits all of them spend.                        *)
(*                                                                         *)
(* Every step is one database transaction, or the code between two         *)
(* database transactions.  A coroutine keeps its event loop between two    *)
(* awaits: LoopFree says so, and it is what separates requests that share  *)
(* an API process from requests served by two of them.                     *)
(***************************************************************************)
EXTENDS Integers, FiniteSets

CONSTANTS
    Numbers,          \* container numbers of the organisation
    Requests,         \* API requests; each is submitted at most once
    Servers,          \* API processes, each with one event loop
    Slots,            \* concurrent scrape jobs of the worker process (max_jobs)
    Ops,              \* the endpoints that clients call
    InitialCredits,   \* credits_remaining at the start
    JobTimeout,       \* scrape_job_timeout_s, in ticks
    StuckAfter,       \* scrape_stuck_threshold_s, in ticks
    MaxTopUps,        \* bound: credit purchases
    MaxApiCrashes,    \* bound: crashes of an API process
    MaxJobCrashes,    \* bound: crashes of the worker process
    RedisMayFail      \* whether enqueue_job may raise

AllOps == {"track", "get", "refresh", "bulk", "stop"}

ASSUME ConstantsAssumption ==
    /\ Ops \subseteq AllOps
    /\ InitialCredits \in Nat
    /\ JobTimeout \in Nat \ {0}
    /\ StuckAfter \in Nat \ {0}
    /\ MaxTopUps \in Nat
    /\ MaxApiCrashes \in Nat
    /\ MaxJobCrashes \in Nat
    /\ RedisMayFail \in BOOLEAN
    /\ Requests \cap Slots = {}
    /\ IsFiniteSet(Requests) /\ IsFiniteSet(Numbers)

Procs == Requests \cup Slots    \* whoever can be running a scrape
Tokens == Requests \X Numbers   \* one charge: this request, for this number

VARIABLES
    row,        \* TrackedContainer by number; "gen" tells a re-created row apart
    balance,    \* CreditBalance.credits_remaining
    topups,     \* credits bought so far
    crashes,    \* crashes so far, of the API and of the worker
    paid,       \* history: tokens a credit was deducted for
    recorded,   \* UsageEvent rows
    scraped,    \* history: how often registry.track was called for a token
    disowned,   \* history: live tokens whose row stopped saying that they are live
    queue,      \* scrape_container jobs waiting in Redis
    host,       \* the API process that serves a request
    op,         \* the endpoint a request calls
    pc,         \* where a request or a job stands
    num,        \* the number it works on
    gen,        \* the row it loaded
    snap,       \* the columns its session loaded before the provider call
    todo,       \* queue_bulk: numbers still to charge
    send,       \* rows committed as queued whose job is still to be enqueued
    by,         \* the request whose charge the job in a slot spends
    jobAge,     \* ticks a job has been running
    sweep,      \* rows, with their message, that sweep_stuck_scrapes is about to fail
    creating    \* rows a GoComet thread may still store a tracking id on

vars == <<row, balance, topups, crashes, paid, recorded, scraped, disowned, queue, host,
          op, pc, num, gen, snap, todo, send, by, jobAge, sweep, creating>>

credits == <<balance, topups, paid, recorded>>
reqVars == <<host, op, todo, send>>
jobVars == <<queue, by, jobAge>>
envVars == <<crashes, disowned, sweep>>

-----------------------------------------------------------------------------
(* Values. *)

Status  == {"queued", "in_progress", "completed", "no_data", "failed"}
Message == {"none", "no_data", "failed", "timeout"}
Sync    == {"create", "deduct", "undo", "record", "mark", "next", "look", "insert", "queue"}
Await   == {"enqueue", "scrape", "notify"}
Ended   == {"done", "dead", "lost"}
PC      == {"idle"} \cup Sync \cup Await \cup Ended

NoNumber == "-"
NoOne    == "nobody"
NoSnap   == [status |-> "queued", msg |-> "none"]
Snap     == [status : Status, msg : Message]
RowId    == Numbers \X Nat
Age      == 0..(StuckAfter + 1)
Row      == [here : BOOLEAN, gen : Nat, status : Status, msg : Message,
             active : BOOLEAN, age : Age, fresh : BOOLEAN]
Job      == [num : Numbers, gen : Nat, by : Requests]
NoRow(g) == [here |-> FALSE, gen |-> g, status |-> "queued", msg |-> "none",
             active |-> TRUE, age |-> 0, fresh |-> FALSE]
NewRow(g) == [NoRow(g) EXCEPT !.here = TRUE]

Pending(n) == row[n].here /\ row[n].status \in {"queued", "in_progress"}

\* Mutant: the threshold has no margin over the job timeout.
StuckAtTimeout(n) == row[n].age >= JobTimeout
Stuck(n) == row[n].age > StuckAfter

Exists(n, g) == row[n].here /\ row[n].gen = g

\* Mutant: a scrape under way does not count as pending.
IsQueued(n) == row[n].here /\ row[n].status = "queued" /\ ~Stuck(n)

\* ContainerService._is_pending and _needs_live_lookup.
IsPending(n) == Pending(n) /\ ~Stuck(n)
NeedsLiveLookup(n) == ~IsPending(n) /\ ~row[n].fresh

Token(r) == <<r, num[r]>>
JobToken(j) == <<j.by, j.num>>

\* An UPDATE of a row's two status columns: updated_at moves (age 0).
Write(n, status, msg) ==
    row' = [row EXCEPT ![n].status = status, ![n].msg = msg, ![n].age = 0]

\* Mutant: plain "def" routes, which FastAPI runs in a thread pool.
ThreadPool(r) == TRUE

\* No other coroutine of the same API process stands between two awaits.
LoopFree(r) ==
    \A q \in Requests \ {r} : host[q] = host[r] => pc[q] \notin Sync

\* The sweep runs on the worker's loop, so jobs wait while it is under way.
WorkerFree(p) == p \in Slots => sweep = {}

\* Tokens whose scrape of row n is still to come or under way.
LiveTokens(n) ==
    {JobToken(j) : j \in {k \in queue : k.num = n}}
    \cup {<<by[s], n>> : s \in {t \in Slots : pc[t] = "scrape" /\ num[t] = n}}
    \cup {<<r, n>> : r \in {q \in Requests :
            \/ num[q] = n /\ pc[q] \in {"record", "mark", "look", "insert", "queue", "scrape"}
            \/ \E id \in send[q] : id[1] = n}}

-----------------------------------------------------------------------------
Init ==
    /\ row = [n \in Numbers |-> NoRow(0)]
    /\ balance = InitialCredits /\ topups = 0
    /\ crashes = [api |-> 0, worker |-> 0]
    /\ paid = {} /\ recorded = {} /\ disowned = {}
    /\ scraped = [t \in Tokens |-> 0]
    /\ queue = {} /\ sweep = {} /\ creating = {}
    /\ host \in [Requests -> Servers]
    /\ op = [r \in Requests |-> "none"]
    /\ pc = [p \in Procs |-> "idle"]
    /\ num = [p \in Procs |-> NoNumber]
    /\ gen = [p \in Procs |-> 0]
    /\ snap = [p \in Procs |-> NoSnap]
    /\ todo = [r \in Requests |-> {}]
    /\ send = [r \in Requests |-> {}]
    /\ by = [s \in Slots |-> NoOne]
    /\ jobAge = [s \in Slots |-> 0]

-----------------------------------------------------------------------------
(* The endpoints up to the charge. *)

\* Request r is through with the number it was working on.
Leave(r) ==
    /\ num' = [num EXCEPT ![r] = NoNumber]
    /\ gen' = [gen EXCEPT ![r] = 0]
    /\ snap' = [snap EXCEPT ![r] = NoSnap]

\* Request r, for number n with endpoint o, reads the row and goes to pc c.
Submit(r, o, n, c) ==
    /\ pc[r] = "idle" /\ LoopFree(r)
    /\ o \in Ops
    /\ op' = [op EXCEPT ![r] = o]
    /\ pc' = [pc EXCEPT ![r] = c]
    /\ IF c = "done" THEN Leave(r)
       ELSE /\ num' = [num EXCEPT ![r] = n]
            /\ gen' = [gen EXCEPT ![r] = row[n].gen]
            /\ UNCHANGED snap
    /\ disowned' = IF Pending(n) /\ Stuck(n) THEN disowned \cup LiveTokens(n) ELSE disowned
    /\ UNCHANGED <<row, credits, scraped, jobVars, crashes, sweep, host, todo, send, creating>>

\* track(): a pending or fresh row is served as it is.
Track(r, n) ==
    Submit(r, "track", n,
           IF ~row[n].here THEN "create"
           ELSE IF NeedsLiveLookup(n) THEN "deduct" ELSE "done")

\* get_or_refresh(): the same, and an unknown number is a 404.
GetOrRefresh(r, n) ==
    Submit(r, "get", n, IF row[n].here /\ NeedsLiveLookup(n) THEN "deduct" ELSE "done")

\* request_refresh(): only an active row with no pending scrape.
RequestRefresh(r, n) ==
    Submit(r, "refresh", n,
           IF row[n].here /\ row[n].active /\ ~IsPending(n) THEN "deduct" ELSE "done")

\* queue_bulk(): the de-duplicated numbers of one payload.
QueueBulk(r, S) ==
    /\ pc[r] = "idle" /\ LoopFree(r)
    /\ "bulk" \in Ops /\ S # {}
    /\ op' = [op EXCEPT ![r] = "bulk"]
    /\ pc' = [pc EXCEPT ![r] = "next"]
    /\ todo' = [todo EXCEPT ![r] = S]
    /\ UNCHANGED <<row, credits, scraped, jobVars, envVars, host, num, gen, snap, send, creating>>

\* stop_tracking(): the row stays, inactive.
StopTracking(r, n) ==
    /\ pc[r] = "idle" /\ LoopFree(r)
    /\ "stop" \in Ops
    /\ op' = [op EXCEPT ![r] = "stop"]
    /\ pc' = [pc EXCEPT ![r] = "done"]
    /\ row' = IF row[n].here /\ row[n].active
              THEN [row EXCEPT ![n].active = FALSE, ![n].age = 0] ELSE row
    /\ UNCHANGED <<credits, scraped, jobVars, envVars, host, num, gen, snap, todo, send, creating>>

-----------------------------------------------------------------------------
(* UsageService.charge: the deduction and the usage event are two commits. *)

\* Where the endpoint goes on once the lookup is charged.
AfterCharge(r) ==
    CASE op[r] \in {"track", "get"} -> "mark"
      [] op[r] = "refresh" -> "queue"
      [] OTHER -> "look"

\* Mutant: the UPDATE without its WHERE clause on the balance.
DeductUnguarded(r) ==
    /\ balance' = balance - 1
    /\ paid' = paid \cup {Token(r)}
    /\ pc' = [pc EXCEPT ![r] = "record"]

\* Mutant: a charge that writes no usage event.
DeductUnrecorded(r) ==
    /\ balance >= 1
    /\ balance' = balance - 1
    /\ paid' = paid \cup {Token(r)}
    /\ pc' = [pc EXCEPT ![r] = AfterCharge(r)]

\* try_deduct_credits: UPDATE ... WHERE credits_remaining >= 1, then commit.
DeductCredit(r) ==
    /\ balance >= 1
    /\ balance' = balance - 1
    /\ paid' = paid \cup {Token(r)}
    /\ pc' = [pc EXCEPT ![r] = "record"]

\* ... which matches no row when the credits are used up: QuotaExceededError.
QuotaExceeded(r, next) ==
    /\ balance < 1
    /\ UNCHANGED <<balance, paid>>
    /\ pc' = [pc EXCEPT ![r] = next]

\* track() of an unknown number: its INSERT is committed by the deduction,
\* whether or not a credit was left; a row inserted meanwhile by another
\* request is an IntegrityError.
CreateAndDeduct(r) ==
    /\ pc[r] = "create" /\ LoopFree(r)
    /\ LET n == num[r] IN
       IF row[n].here
       THEN /\ pc' = [pc EXCEPT ![r] = "done"]
            /\ Leave(r)
            /\ UNCHANGED <<row, balance, paid>>
       ELSE /\ row' = [row EXCEPT ![n] = NewRow(@.gen + 1)]
            /\ gen' = [gen EXCEPT ![r] = row[n].gen + 1]
            /\ DeductCredit(r) \/ QuotaExceeded(r, "undo")
            /\ UNCHANGED <<num, snap>>
    /\ UNCHANGED <<topups, recorded, scraped, jobVars, envVars, reqVars, creating>>

Deduct(r) ==
    /\ pc[r] = "deduct" /\ LoopFree(r)
    /\ \/ DeductCredit(r) /\ UNCHANGED <<num, gen, snap>>
       \/ QuotaExceeded(r, IF op[r] = "bulk" THEN "next" ELSE "done") /\ Leave(r)
    /\ UNCHANGED <<row, topups, recorded, scraped, jobVars, envVars, reqVars, creating>>

\* track(): db.delete(container) after a failed charge.
DeleteUncharged(r) ==
    /\ pc[r] = "undo" /\ LoopFree(r)
    /\ pc' = [pc EXCEPT ![r] = "done"]
    /\ row' = IF Exists(num[r], gen[r]) THEN [row EXCEPT ![num[r]] = NoRow(@.gen)] ELSE row
    /\ Leave(r)
    /\ UNCHANGED <<credits, scraped, jobVars, envVars, reqVars, creating>>

\* record_event: the ledger row, in a commit of its own.
RecordEvent(r) ==
    /\ pc[r] = "record" /\ LoopFree(r)
    /\ recorded' = recorded \cup {Token(r)}
    /\ pc' = [pc EXCEPT ![r] = AfterCharge(r)]
    /\ UNCHANGED <<row, balance, topups, paid, scraped, jobVars, envVars, reqVars, num, gen, snap, creating>>

\* A purchase: UsageRepository.add_credits.
AddCredits ==
    /\ topups < MaxTopUps
    /\ balance' = balance + 1
    /\ topups' = topups + 1
    /\ UNCHANGED <<row, paid, recorded, scraped, jobVars, envVars, reqVars, pc, num, gen, snap, creating>>

-----------------------------------------------------------------------------
(* From the charge to the hand-over: a scrape in the request itself, or a  *)
(* row committed as queued and a job for it.                               *)

\* registry.track is about to be called for token t on behalf of process p,
\* whose session has just loaded the row; a GoComet lookup may create a
\* tracking id in a thread of its own.
BeginScrape(p, t, n, g, status, msg) ==
    /\ scraped' = [scraped EXCEPT ![t] = @ + 1]
    /\ snap' = [snap EXCEPT ![p] = [status |-> status, msg |-> msg]]
    /\ creating' \in {creating, creating \cup {<<n, g>>}}

\* track / get_or_refresh: commit IN_PROGRESS, reload, call the providers.
\* A row deleted meanwhile fails the UPDATE.
MarkInProgress(r) ==
    /\ pc[r] = "mark" /\ LoopFree(r)
    /\ LET n == num[r] IN
       IF Exists(n, gen[r])
       THEN /\ Write(n, "in_progress", row[n].msg)
            /\ BeginScrape(r, Token(r), n, gen[r], "in_progress", row[n].msg)
            /\ pc' = [pc EXCEPT ![r] = "scrape"]
            /\ UNCHANGED <<num, gen>>
       ELSE /\ pc' = [pc EXCEPT ![r] = "done"]
            /\ Leave(r)
            /\ UNCHANGED <<row, scraped, creating>>
    /\ UNCHANGED <<credits, jobVars, envVars, reqVars>>

\* request_refresh: commit QUEUED with no message.
MarkQueued(r) ==
    /\ pc[r] = "queue" /\ op[r] = "refresh" /\ LoopFree(r)
    /\ IF Exists(num[r], gen[r])
       THEN /\ Write(num[r], "queued", "none")
            /\ send' = [send EXCEPT ![r] = {<<num[r], gen[r]>>}]
            /\ pc' = [pc EXCEPT ![r] = "enqueue"]
       ELSE /\ pc' = [pc EXCEPT ![r] = "done"]
            /\ UNCHANGED <<row, send>>
    /\ Leave(r)
    /\ UNCHANGED <<credits, scraped, jobVars, envVars, host, op, todo, creating>>

\* queue_bulk: the next number of the payload, or the jobs of those accepted.
BulkNext(r) ==
    /\ pc[r] = "next" /\ LoopFree(r)
    /\ \/ \E n \in todo[r] :
             /\ num' = [num EXCEPT ![r] = n]
             /\ todo' = [todo EXCEPT ![r] = @ \ {n}]
             /\ pc' = [pc EXCEPT ![r] = "deduct"]
       \/ /\ todo[r] = {}
          /\ pc' = [pc EXCEPT ![r] = IF send[r] = {} THEN "done" ELSE "enqueue"]
          /\ UNCHANGED <<num, todo>>
    /\ UNCHANGED <<row, credits, scraped, jobVars, envVars, host, op, send, gen, snap, creating>>

\* get_or_create inside queue_bulk: the SELECT ...
BulkLook(r) ==
    /\ pc[r] = "look" /\ LoopFree(r)
    /\ LET n == num[r] IN
       /\ gen' = [gen EXCEPT ![r] = row[n].gen]
       /\ snap' = [snap EXCEPT ![r] = [status |-> row[n].status, msg |-> row[n].msg]]
       /\ pc' = [pc EXCEPT ![r] = IF row[n].here THEN "queue" ELSE "insert"]
    /\ UNCHANGED <<row, credits, scraped, jobVars, envVars, reqVars, num, creating>>

\* Mutant: the list of accepted rows is assigned, not appended to.
AcceptLast(r, id) == send' = [send EXCEPT ![r] = {id}]

\* queued.append(container).
Accept(r, id) == send' = [send EXCEPT ![r] = @ \cup {id}]

\* ... the INSERT, which fails if another request has inserted the number ...
BulkInsert(r) ==
    /\ pc[r] = "insert" /\ LoopFree(r)
    /\ LET n == num[r]  id == <<n, row[n].gen + 1>> IN
       IF row[n].here
       THEN UNCHANGED <<row, send>>
       ELSE /\ row' = [row EXCEPT ![n] = NewRow(@.gen + 1)]
            /\ Accept(r, id)
    /\ pc' = [pc EXCEPT ![r] = "next"]
    /\ Leave(r)
    /\ UNCHANGED <<credits, scraped, jobVars, envVars, host, op, todo, creating>>

\* ... and the UPDATE to QUEUED of a row that was there: the ORM writes the
\* columns that differ from what it loaded, and nothing if none does.
BulkQueue(r) ==
    /\ pc[r] = "queue" /\ op[r] = "bulk" /\ LoopFree(r)
    /\ LET n == num[r]  id == <<n, gen[r]>>  s == snap[r] IN
       /\ IF s # NoSnap /\ Exists(n, gen[r])
          THEN Write(n, IF s.status = "queued" THEN row[n].status ELSE "queued",
                        IF s.msg = "none" THEN row[n].msg ELSE "none")
          ELSE UNCHANGED row
       /\ IF s = NoSnap \/ Exists(n, gen[r]) THEN Accept(r, id) ELSE UNCHANGED send
    /\ pc' = [pc EXCEPT ![r] = "next"]
    /\ Leave(r)
    /\ UNCHANGED <<credits, scraped, jobVars, envVars, host, op, todo, creating>>

\* _enqueue_scrapes: one enqueue_job per row, best effort.  A row deleted
\* meanwhile raises out of the handler itself and loses the remaining ones.
EnqueueScrape(r) ==
    /\ pc[r] = "enqueue" /\ LoopFree(r)
    /\ \E id \in send[r] :
         /\ IF Exists(id[1], id[2])
            THEN /\ send' = [send EXCEPT ![r] = @ \ {id}]
                 /\ \/ queue' = queue \cup {[num |-> id[1], gen |-> id[2], by |-> r]}
                    \/ RedisMayFail /\ UNCHANGED queue
            ELSE /\ send' = [send EXCEPT ![r] = {}]
                 /\ UNCHANGED queue
         /\ pc' = IF send'[r] = {} THEN [pc EXCEPT ![r] = "done"] ELSE pc
    /\ UNCHANGED <<row, credits, scraped, by, jobAge, envVars, host, op, todo, num, gen, snap, creating>>

-----------------------------------------------------------------------------
(* The worker: scrape_container jobs. *)

\* Mutant: a job whose row is no longer queued is skipped.
QueuedStill(j) ==
    Exists(j.num, j.gen) /\ row[j.num].active /\ row[j.num].status = "queued"

\* A job finds its row: it is there and still tracked.
RowFound(j) == Exists(j.num, j.gen) /\ row[j.num].active

\* _process_in_own_session: a row that is gone or inactive ends the job;
\* otherwise commit IN_PROGRESS (no UPDATE if it is that already) and scrape.
StartJob(s) ==
    /\ pc[s] = "idle" /\ WorkerFree(s)
    /\ \E j \in queue :
         LET n == j.num IN
         /\ queue' = queue \ {j}
         /\ IF RowFound(j)
            THEN /\ IF row[n].status = "in_progress" THEN UNCHANGED row
                    ELSE Write(n, "in_progress", row[n].msg)
                 /\ BeginScrape(s, JobToken(j), n, j.gen, "in_progress", row[n].msg)
                 /\ pc' = [pc EXCEPT ![s] = "scrape"]
                 /\ num' = [num EXCEPT ![s] = n]
                 /\ gen' = [gen EXCEPT ![s] = j.gen]
                 /\ by' = [by EXCEPT ![s] = j.by]
            ELSE UNCHANGED <<row, snap, scraped, creating, pc, num, gen, by>>
    /\ UNCHANGED <<credits, jobAge, envVars, reqVars>>

-----------------------------------------------------------------------------
(* The provider call and what follows it, for a request or a job.          *)

\* The process is over: a request has answered, a slot is free again.
Finish(p) ==
    /\ pc' = [pc EXCEPT ![p] = IF p \in Slots THEN "idle" ELSE "done"]
    /\ num' = [num EXCEPT ![p] = NoNumber]
    /\ gen' = [gen EXCEPT ![p] = 0]
    /\ snap' = [snap EXCEPT ![p] = NoSnap]
    /\ by' = [s \in Slots |-> IF s = p THEN NoOne ELSE by[s]]
    /\ jobAge' = [s \in Slots |-> IF s = p THEN 0 ELSE jobAge[s]]

CanStep(p) == IF p \in Slots THEN WorkerFree(p) ELSE LoopFree(p)

\* Mutant: a completed scrape leaves the message of an earlier one.
ApplyKeepingMessage(p, status, msg) ==
    LET n == num[p] IN
    row' = [row EXCEPT ![n].status = status,
                       ![n].msg = IF status = "completed" THEN @ ELSE msg,
                       ![n].age = 0, ![n].fresh = TRUE]

\* The result is written through the session that loaded the row before the
\* call: a status column equal to what was loaded then is left out.
Apply(p, status, msg) ==
    LET n == num[p]  s == snap[p] IN
    row' = [row EXCEPT ![n].status = IF s.status = status THEN @ ELSE status,
                       ![n].msg = IF s.msg = msg THEN @ ELSE msg,
                       ![n].age = 0, ![n].fresh = TRUE]

\* History: a scrape that settles its row hides the others of the same row.
OwnToken(p) == IF p \in Slots THEN <<by[p], num[p]>> ELSE <<p, num[p]>>
Disown(p) == disowned' = disowned \cup (LiveTokens(num[p]) \ {OwnToken(p)})

\* No provider resolved the number: NO_DATA, known data kept.
ProviderMiss(p) ==
    /\ pc[p] = "scrape" /\ CanStep(p)
    /\ IF Exists(num[p], gen[p]) THEN Apply(p, "no_data", "no_data") ELSE UNCHANGED row
    /\ Disown(p) /\ Finish(p)
    /\ UNCHANGED <<credits, scraped, queue, crashes, sweep, reqVars, creating>>

\* A provider resolved it and no webhook endpoint wants to know.
ProviderHit(p) ==
    /\ pc[p] = "scrape" /\ CanStep(p)
    /\ IF Exists(num[p], gen[p]) THEN Apply(p, "completed", "none") ELSE UNCHANGED row
    /\ Disown(p) /\ Finish(p)
    /\ UNCHANGED <<credits, scraped, queue, crashes, sweep, reqVars, creating>>

\* A provider resolved it and there are deliveries: creating the first one
\* commits the result, then enqueueing its job awaits Redis.
ProviderHitNotify(p) ==
    /\ pc[p] = "scrape" /\ CanStep(p) /\ Exists(num[p], gen[p])
    /\ Apply(p, "completed", "none")
    /\ Disown(p)
    /\ pc' = [pc EXCEPT ![p] = "notify"]
    /\ UNCHANGED <<credits, scraped, jobVars, crashes, sweep, reqVars, num, gen, snap, creating>>

\* The last delivery is enqueued; the final commit changes nothing.
Notified(p) ==
    /\ pc[p] = "notify" /\ CanStep(p)
    /\ Finish(p)
    /\ UNCHANGED <<row, credits, scraped, queue, envVars, reqVars, creating>>

\* An exception, or the CancelledError of arq's timeout or shutdown, in the
\* provider call or in the webhook trigger: a terminal FAILED row.
ScrapeRaises(p) ==
    /\ pc[p] \in {"scrape", "notify"} /\ CanStep(p)
    /\ IF Exists(num[p], gen[p]) THEN Write(num[p], "failed", "failed") ELSE UNCHANGED row
    /\ Disown(p) /\ Finish(p)
    /\ UNCHANGED <<credits, scraped, queue, crashes, sweep, reqVars, creating>>

\* _persist_tracking_id_early: commits from a GoComet thread, which outlives
\* the coroutine that started it, and moves updated_at.
TrackingIdSaved(id) ==
    /\ id \in creating
    /\ creating' = creating \ {id}
    /\ row' = IF Exists(id[1], id[2]) THEN [row EXCEPT ![id[1]].age = 0] ELSE row
    /\ UNCHANGED <<credits, scraped, jobVars, envVars, reqVars, pc, num, gen, snap>>

-----------------------------------------------------------------------------
(* The sweep: find_stuck reads, the commit writes. *)

\* Mutant: only rows in progress are looked for.
StuckInProgress == {n \in Numbers : row[n].here /\ row[n].status = "in_progress" /\ Stuck(n)}

\* ContainerRepository.find_stuck.
FindStuck == {n \in Numbers : Pending(n) /\ Stuck(n)}

SweepRead ==
    /\ sweep = {}
    /\ sweep' = {<<n, row[n].gen, row[n].msg>> : n \in FindStuck}
    /\ sweep' # {}
    /\ UNCHANGED <<row, credits, scraped, jobVars, crashes, disowned, reqVars, pc, num, gen, snap, creating>>

\* The row as the sweep's UPDATE leaves it: status and message, the latter
\* only if it is not what the sweep read.
SweptRow(id) ==
    [row[id[1]] EXCEPT !.status = "failed", !.age = 0,
                       !.msg = IF id[3] = "timeout" THEN @ ELSE "timeout"]

\* History: the lookups that a sweep contradicts: the live ones of the row, or
\* all of them if it has settled or was queued anew since it was read.
Contradicted(id) ==
    IF Pending(id[1]) /\ row[id[1]].msg = id[3] THEN LiveTokens(id[1])
    ELSE {t \in paid : t[2] = id[1]}

\* One UPDATE per row read, by id alone; a row deleted meanwhile aborts all.
SweepWrite ==
    /\ sweep # {}
    /\ sweep' = {}
    /\ row' = IF \A id \in sweep : Exists(id[1], id[2])
              THEN [n \in Numbers |->
                      IF \E id \in sweep : id[1] = n
                      THEN SweptRow(CHOOSE id \in sweep : id[1] = n) ELSE row[n]]
              ELSE row
    /\ disowned' = disowned \cup UNION {Contradicted(id) : id \in sweep}
    /\ UNCHANGED <<credits, scraped, jobVars, crashes, reqVars, pc, num, gen, snap, creating>>

-----------------------------------------------------------------------------
(* Time and crashes. *)

\* A tick passes, longer than any synchronous section; no job outlives its
\* timeout.  Ages stop counting once a row is stuck.
Tick ==
    /\ \A r \in Requests : pc[r] \notin Sync
    /\ sweep = {}
    /\ \A s \in Slots : jobAge[s] < JobTimeout
    /\ jobAge' = [s \in Slots |-> IF pc[s] = "idle" THEN 0 ELSE jobAge[s] + 1]
    /\ row' = [n \in Numbers |->
                 IF Pending(n) /\ ~Stuck(n) THEN [row[n] EXCEPT !.age = @ + 1] ELSE row[n]]
    /\ UNCHANGED <<credits, scraped, queue, by, envVars, reqVars, pc, num, gen, snap, creating>>

\* container_cache_ttl_seconds has passed since last_polled_at.
CacheExpires(n) ==
    /\ row[n].fresh
    /\ row' = [row EXCEPT ![n].fresh = FALSE]
    /\ UNCHANGED <<credits, scraped, jobVars, envVars, reqVars, pc, num, gen, snap, creating>>

\* An API process dies with the requests it serves; a request that dies
\* between the two commits of a charge is "lost".
CrashApi(h) ==
    /\ crashes.api < MaxApiCrashes
    /\ crashes' = [crashes EXCEPT !.api = @ + 1]
    /\ pc' = [p \in Procs |->
                IF p \in Requests /\ host[p] = h /\ pc[p] \in Sync \cup Await
                THEN IF pc[p] = "record" THEN "lost" ELSE "dead"
                ELSE pc[p]]
    /\ todo' = [r \in Requests |-> IF host[r] = h THEN {} ELSE todo[r]]
    /\ send' = [r \in Requests |-> IF host[r] = h THEN {} ELSE send[r]]
    /\ num' = [p \in Procs |-> IF pc'[p] = "dead" THEN NoNumber ELSE num[p]]
    /\ gen' = [p \in Procs |-> IF pc'[p] = "dead" THEN 0 ELSE gen[p]]
    /\ snap' = [p \in Procs |-> IF pc'[p] = "dead" THEN NoSnap ELSE snap[p]]
    /\ UNCHANGED <<row, credits, scraped, jobVars, disowned, sweep, host, op, creating>>

\* Mutant: arq's default of several tries.
RunningJobs ==
    {[num |-> num[s], gen |-> gen[s], by |-> by[s]] : s \in {t \in Slots : pc[t] # "idle"}}

\* Jobs that run again after their worker died: none, max_tries = 1.
RetriedJobs == {}

\* The worker dies with its jobs and its sweep; the jobs still in Redis stay.
CrashWorker ==
    /\ crashes.worker < MaxJobCrashes
    /\ crashes' = [crashes EXCEPT !.worker = @ + 1]
    /\ pc' = [p \in Procs |-> IF p \in Slots THEN "idle" ELSE pc[p]]
    /\ num' = [p \in Procs |-> IF p \in Slots THEN NoNumber ELSE num[p]]
    /\ gen' = [p \in Procs |-> IF p \in Slots THEN 0 ELSE gen[p]]
    /\ snap' = [p \in Procs |-> IF p \in Slots THEN NoSnap ELSE snap[p]]
    /\ by' = [s \in Slots |-> NoOne]
    /\ jobAge' = [s \in Slots |-> 0]
    /\ sweep' = {}
    /\ queue' = queue \cup RetriedJobs
    /\ UNCHANGED <<row, credits, scraped, disowned, reqVars, creating>>

-----------------------------------------------------------------------------
\* The code of a request between its submission and its answer.
RequestStep(r) ==
    \/ CreateAndDeduct(r) \/ Deduct(r) \/ DeleteUncharged(r) \/ RecordEvent(r)
    \/ MarkInProgress(r) \/ MarkQueued(r)
    \/ BulkNext(r) \/ BulkLook(r) \/ BulkInsert(r) \/ BulkQueue(r)
    \/ EnqueueScrape(r)

ScrapeEnds(p) ==
    ProviderMiss(p) \/ ProviderHit(p) \/ ProviderHitNotify(p) \/ Notified(p) \/ ScrapeRaises(p)

ClientCalls(r) ==
    \/ \E n \in Numbers :
          Track(r, n) \/ GetOrRefresh(r, n) \/ RequestRefresh(r, n) \/ StopTracking(r, n)
    \/ \E S \in SUBSET Numbers : QueueBulk(r, S)

Environment ==
    \/ AddCredits \/ Tick \/ CrashWorker
    \/ \E n \in Numbers : CacheExpires(n)
    \/ \E id \in creating : TrackingIdSaved(id)
    \/ \E h \in Servers : CrashApi(h)

Next ==
    \/ \E r \in Requests : ClientCalls(r) \/ RequestStep(r)
    \/ \E p \in Procs : ScrapeEnds(p)
    \/ \E s \in Slots : StartJob(s)
    \/ SweepRead \/ SweepWrite
    \/ Environment

Spec == Init /\ [][Next]_vars

\* A process runs its code, a provider call ends (each provider has timeouts),
\* a free slot takes a job, cron fires every five minutes and time passes;
\* clients, purchases, crashes and expiry owe nobody anything.
Fairness ==
    /\ \A r \in Requests : WF_vars(RequestStep(r))
    /\ \A p \in Procs : WF_vars(ScrapeEnds(p))
    /\ \A s \in Slots : WF_vars(StartJob(s))
    /\ WF_vars(SweepRead) /\ WF_vars(SweepWrite) /\ WF_vars(Tick)

FairSpec == Spec /\ Fairness

-----------------------------------------------------------------------------
(* Type invariant. *)

TypeOK ==
    /\ row \in [Numbers -> Row]
    /\ balance \in Nat /\ topups \in Nat
    /\ crashes \in [api : Nat, worker : Nat]
    /\ paid \in SUBSET Tokens /\ recorded \in SUBSET Tokens
    /\ scraped \in [Tokens -> Nat] /\ disowned \in SUBSET Tokens
    /\ queue \in SUBSET Job
    /\ host \in [Requests -> Servers]
    /\ op \in [Requests -> AllOps \cup {"none"}]
    /\ pc \in [Procs -> PC]
    /\ num \in [Procs -> Numbers \cup {NoNumber}]
    /\ gen \in [Procs -> Nat]
    /\ snap \in [Procs -> Snap]
    /\ todo \in [Requests -> SUBSET Numbers]
    /\ send \in [Requests -> SUBSET RowId]
    /\ by \in [Slots -> Requests \cup {NoOne}]
    /\ jobAge \in [Slots -> 0..JobTimeout]
    /\ sweep \in SUBSET (Numbers \X Nat \X Message)
    /\ creating \in SUBSET RowId

-----------------------------------------------------------------------------
(* Credits. *)

\* Refinement: whatever the interleaving, the crash or the failure, a lookup
\* is paid at most once and only out of credits that exist, and the provider
\* chain is called at most once for a charge and never without one
\* (container_service.py, process_queued_scrape: "Charges nothing").
Metering == INSTANCE PaidLookups
    WITH Tokens <- Tokens, balance <- balance, topups <- topups, paid <- paid,
         scraped <- scraped
PaysOnceScrapesOnce == Metering!Spec

\* Every credit that left the balance has its usage event, except those of
\* the requests that stand, or died, between the two commits of a charge.
LedgerBalanced ==
    /\ balance + Cardinality(paid) = InitialCredits + topups
    /\ recorded \subseteq paid
    /\ paid \ recorded = {Token(r) : r \in {q \in Requests : pc[q] \in {"record", "lost"}}}

\* Where a charge is until the providers are called: in the request that made
\* it, with a row committed as queued, or with a job in Redis.
Holding == {"record", "mark", "look", "insert", "queue"}
InHand(r, n) == num[r] = n /\ pc[r] \in Holding
ToSend(r, n) == \E id \in send[r] : id[1] = n
Queued(r, n) == \E j \in queue : j.by = r /\ j.num = n

\* A request charges each number of its payload once.
ChargedOnce ==
    \A r \in Requests :
        /\ pc[r] = "idle" => todo[r] = {}
        /\ pc[r] \in {"create", "deduct"} => num[r] \notin todo[r]
        /\ \A n \in Numbers : <<r, n>> \in paid =>
              /\ pc[r] # "idle" /\ n \notin todo[r]
              /\ num[r] = n => pc[r] \notin {"create", "deduct"}

\* Whoever holds a charge holds one that was paid and not spent yet.
HeldUnspent ==
    \A r \in Requests, n \in Numbers :
        InHand(r, n) \/ ToSend(r, n) \/ Queued(r, n)
        => <<r, n>> \in paid /\ scraped[<<r, n>>] = 0

HeldByOne ==
    /\ \A r \in Requests, n \in Numbers :
          /\ ToSend(r, n) => ~InHand(r, n)
          /\ Queued(r, n) => ~InHand(r, n) /\ ~ToSend(r, n)
    /\ \A j, k \in queue : j.by = k.by /\ j.num = k.num => j = k
    /\ \A r \in Requests : \A a, b \in send[r] : a[1] = b[1] => a = b

\* A charge is in one place at a time and reaches the provider chain from
\* there: no number of a payload, no retry and no crash duplicates it.
ChargeInOnePlace ==
    /\ ChargedOnce /\ HeldUnspent /\ HeldByOne
    /\ \A t \in Tokens : scraped[t] # 0 => t \in paid

\* A request that has answered has handed every lookup it charged over: the
\* provider was called for it or its job waits in Redis (enqueueing being
\* reliable), unless the customer stopped tracking.
HandedOver ==
    \A t \in paid :
        pc[t[1]] = "done" =>
            \/ scraped[t] > 0
            \/ \E j \in queue : JobToken(j) = t
            \/ ~row[t[2]].active

-----------------------------------------------------------------------------
(* One scrape at a time. *)

\* track, get and refresh do not charge for a number whose scrape is already
\* paid for and still to come or under way, unless the row stopped saying so:
\* a request found it stuck, or the sweep or another scrape settled it.  Two scrapes of
\* one row come about in no other way than by bulk, which does not ask; so the
\* first overlap is always a stuck row, a bulk, or a scrape that fails after
\* it has delivered its result.
SingleFlight ==
    [][\A t \in paid' \ paid :
         \/ op[t[1]] = "bulk"
         \/ LiveTokens(t[2]) \subseteq disowned]_vars

\* A job that waits in Redis finds the row it was paid for: track's cleanup
\* of an unpaid row never takes one that another request has queued.
QueuedRowSurvives ==
    \A j \in queue : Exists(j.num, j.gen)

-----------------------------------------------------------------------------
(* The sweep. *)

\* The stuck threshold is longer than a job can run, so the sweep never picks
\* the row of a running job (config.py, scrape_stuck_threshold_s), except
\* where a second process scrapes the same row: the job that started on a row
\* already in progress did not move its updated_at.
LoneJobNotSwept ==
    [][\A s \in Slots :
         pc[s] = "scrape" /\ (\E id \in sweep' \ sweep : id[1] = num[s])
         => \E p \in Procs \ {s} : pc[p] = "scrape" /\ num[p] = num[s]]_vars

\* Said of a row that could not be enqueued, or whose job is gone: it "stays
\* `queued` until the customer manually re-scrapes it", as "there is no background
\* sweep anymore" (_enqueue_scrapes; WorkerSettings says the same).  So a queued
\* row with no lookup on the way would leave that status only by a request.
QueuedUntilAsked ==
    [][\A n \in Numbers :
         /\ row[n].here /\ row[n].status = "queued" /\ LiveTokens(n) = {}
         /\ row'[n].status # "queued"
         => \E r \in Requests : pc'[r] # pc[r]]_vars

PaidFor(n) == {t \in paid : t[2] = n}
DoubledByBulk(n) == Cardinality(PaidFor(n)) >= 2 /\ \E t \in PaidFor(n) : op[t[1]] = "bulk"

\* What the customer reads agrees with the status, on every row that only
\* ever had one live scrape at a time and that no sweep has failed over a
\* scrape or a result.
SettledMessage ==
    \A n \in Numbers :
        (row[n].here /\ ~DoubledByBulk(n) /\ ~(\E t \in disowned : t[2] = n))
        => /\ row[n].status = "completed" => row[n].msg = "none"
           /\ row[n].status = "no_data" => row[n].msg = "no_data"
           /\ row[n].status = "failed" => row[n].msg \in {"failed", "timeout"}

-----------------------------------------------------------------------------
(* Liveness. *)

\* No row stays queued or in progress for ever, whatever crashed, was lost or
\* was never enqueued because Redis failed (sweep_stuck_scrapes).
PendingSettles ==
    \A n \in Numbers : Pending(n) ~> ~Pending(n)

\* A charge buys a call to the providers, within the request where track and
\* get_or_refresh look the number up, through a job where request_refresh and
\* queue_bulk hand it to Redis: a job that Redis took gets there, whatever died
\* or changed since.  Excepted are charges of a request whose process died
\* before it had handed them over, and containers that the customer stopped
\* tracking.  (Whether a request that has answered has handed everything over
\* is HandedOver; what Redis never took is not retried.)
PaidLookupHappens ==
    \A t \in Tokens :
        /\ (t \in paid) ~> \/ scraped[t] > 0
                           \/ op[t[1]] \in {"refresh", "bulk"} /\ pc[t[1]] = "done"
                           \/ pc[t[1]] \in {"dead", "lost"}
                           \/ ~row[t[2]].active
        /\ Queued(t[1], t[2]) ~> (scraped[t] > 0 \/ ~row[t[2]].active)

=============================================================================

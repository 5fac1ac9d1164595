------------------------------ MODULE BulkTracking ------------------------------
(***************************************************************************)
(* The preview routes /v1/track-searates: a batch of numbers that several  *)
(* workers share, and lookups of single numbers beside it.  Workers and    *)
(* single lookups are coroutines of one event loop; each takes a GoComet   *)
(* tracker from a pool that both routes share and runs track_with_cache in *)
(* a thread, which goes on by itself when the coroutine gives up on it.     *)
(* Results are cached in container_results, where older rows of another    *)
(* shape are left.                                                         *)
(*                                                                         *)
(* Left out: cancelled tasks (the server cancels only when it shuts down)  *)
(* and a failing build of a tracker (it opens no connection).              *)
(***************************************************************************)
EXTENDS Integers, Sequences, FiniteSets

CONSTANTS
    Numbers,        \* container numbers
    Batch,          \* the numbers of the batch, a sequence
    Single,         \* the number each single lookup asks for, a function
    MaxWorkers,     \* what max(1, min(batch_size, len(numbers))) is at the most
    MaxActors,      \* bound: workers and single lookups together
    TargetSize,     \* target_size of the pool
    Trackers,       \* bound: trackers that exist at one time
    NoOne

Items   == DOMAIN Batch
Singles == DOMAIN Single
Lookups == Items \cup Singles
Workers == 1..MaxWorkers
Actors  == Workers \cup Singles
Number(l) == IF l \in Singles THEN Single[l] ELSE Batch[l]

ASSUME BulkAssumption ==
    /\ Batch \in Seq(Numbers) /\ Batch # <<>>
    /\ Single \in [Singles -> Numbers] /\ IsFiniteSet(Singles)
    /\ Items \cap Singles = {} /\ Workers \cap Singles = {} /\ NoOne \notin Actors
    /\ {MaxWorkers, TargetSize} \subseteq Nat /\ MaxActors \in Nat /\ Trackers \subseteq Nat \ {0}

VARIABLES
    opened,     \* _pool is not None
    idle,       \* the queue of the pool: the trackers ready for use
    building,   \* builds that were submitted and are not finished
    blocked,    \* who waits in acquire() and thereby holds the event loop
    todo,       \* the queue of the batch: the items nobody has taken
    actor,      \* a worker or a single lookup: its tracker, item and result
    answer,     \* results[index], and the answer of a single lookup
    thread,     \* the thread of a lookup; new: it found no row of its number
    cache       \* the row of a number in container_results: "none", "fresh", or
                \* "other", which is stale or not of GoComet's shape

vars    == <<opened, idle, building, blocked, todo, actor, answer, thread, cache>>
pool    == <<opened, idle, building, blocked>>

NoTracker == 0
None      == "none"
Running   == {"cache", "live", "insert", "update"}
NoThread  == [pc |-> "none", tracker |-> NoTracker, new |-> FALSE, outcome |-> None]

Init ==
    /\ opened = FALSE /\ idle = {} /\ building = 0 /\ blocked = NoOne
    /\ todo = [i \in 1..Len(Batch) |-> i]
    /\ actor = [a \in Actors |-> [pc |-> "idle", tracker |-> NoTracker, item |-> 0,
                                  result |-> None]]
    /\ answer = [l \in Lookups |-> None]
    /\ thread = [l \in Lookups |-> NoThread]
    /\ cache \in [Numbers -> {"none", "other"}]

\* A tracker that nobody has any more is as good as new, so its number is used
\* again for the next one that is built.
InUse == idle \cup {actor[a].tracker : a \in Actors}
         \cup {thread[l].tracker : l \in Lookups}
Free  == Trackers \ InUse
\* Which of the trackers ready for use is taken makes no difference to anybody,
\* because no thread uses one of them (TrackersAccountedFor).
Some(trackers) == CHOOSE t \in trackers : TRUE

LoopFree(a) == blocked \in {NoOne, a}
At(a, pc)   == actor[a].pc = pc

-----------------------------------------------------------------------------
(* The pool. *)

\* get_pool, start_filling.
OpenPool ==
    /\ opened' = TRUE
    /\ building' = IF opened THEN building ELSE TargetSize

Started == {a \in Actors : ~At(a, "idle")}

\* track_many_parallel creates max(1, min(batch_size, len(numbers))) workers.
StartBatch ==
    /\ blocked = NoOne /\ Started \cap Workers = {}
    /\ OpenPool
    /\ \E count \in 1..MaxWorkers :
          /\ Cardinality(Started) + count <= MaxActors
          /\ actor' = [a \in Actors |-> IF a \in 1..count THEN [actor[a] EXCEPT !.pc = "acquire"]
                                        ELSE actor[a]]
    /\ UNCHANGED <<idle, blocked, todo, answer, thread, cache>>

\* _lookup.
StartSingle(s) ==
    /\ blocked = NoOne /\ At(s, "idle") /\ Cardinality(Started) < MaxActors
    /\ OpenPool
    /\ actor' = [actor EXCEPT ![s].pc = "acquire", ![s].item = s]
    /\ UNCHANGED <<idle, blocked, todo, answer, thread, cache>>

\* _build_one, in a thread of the pool.
BuildOne ==
    /\ building > 0 /\ Free # {}
    /\ building' = building - 1
    /\ idle' = idle \cup {Some(Free)}
    /\ UNCHANGED <<opened, blocked, todo, actor, answer, thread, cache>>

Release(a) == /\ idle' = idle \cup {actor[a].tracker}
              /\ UNCHANGED building

\* Mutant: a tracker whose thread was given up on goes back to the pool.
DiscardNothing(a) == Release(a)

\* The session is closed; a replacement is built in the background.
Discard(a) == /\ building' = building + 1
              /\ UNCHANGED idle

\* _track_with_cache starts in a thread, for the item and with the tracker.
Dispatch(l, tracker) ==
    thread' = [thread EXCEPT ![l] = [NoThread EXCEPT !.pc = "cache", !.tracker = tracker]]

\* acquire() has returned.  A single lookup goes on to its thread; a worker to
\* its queue, if it had an item then that has failed and is answered.
Take(a, tracker) ==
    IF a \in Singles
    THEN /\ Dispatch(a, tracker)
         /\ actor' = [actor EXCEPT ![a].pc = "wait", ![a].tracker = tracker]
         /\ UNCHANGED answer
    ELSE /\ actor' = [actor EXCEPT ![a].pc = "next", ![a].tracker = tracker]
         /\ answer' = IF actor[a].item = 0 THEN answer
                      ELSE [answer EXCEPT ![actor[a].item] =
                               IF actor[a].result = None THEN "error" ELSE actor[a].result]
         /\ UNCHANGED thread

\* The pool has one, at once or while a waits.
Claim(a) ==
    /\ LoopFree(a) /\ At(a, "acquire") /\ idle # {}
    /\ Take(a, Some(idle))
    /\ idle' = idle \ {Some(idle)}
    /\ blocked' = NoOne
    /\ UNCHANGED <<opened, building, todo, cache>>

Block(a) ==
    /\ blocked = NoOne /\ At(a, "acquire") /\ idle = {}
    /\ blocked' = a
    /\ UNCHANGED <<opened, idle, building, todo, actor, answer, thread, cache>>

\* Mutant: acquire waits for the pool for as long as it takes.
NeverBuildNow(a) == FALSE /\ UNCHANGED vars

\* _ACQUIRE_TIMEOUT_S has passed: build one here.
BuildNow(a) ==
    /\ blocked = a /\ idle = {} /\ Free # {}
    /\ Take(a, Some(Free))
    /\ blocked' = NoOne
    /\ UNCHANGED <<opened, idle, building, todo, cache>>

-----------------------------------------------------------------------------
(* A worker of the batch: _worker. *)

\* Mutant: the result of the item before is still there.
NextItemKeepingResult(w) ==
    /\ blocked = NoOne /\ At(w, "next") /\ todo # <<>>
    /\ todo' = Tail(todo)
    /\ Dispatch(Head(todo), actor[w].tracker)
    /\ actor' = [actor EXCEPT ![w].pc = "wait", ![w].item = Head(todo)]
    /\ UNCHANGED <<pool, answer, cache>>

NextItem(w) ==
    /\ blocked = NoOne /\ At(w, "next") /\ todo # <<>>
    /\ todo' = Tail(todo)
    /\ Dispatch(Head(todo), actor[w].tracker)
    /\ actor' = [actor EXCEPT ![w].pc = "wait", ![w].item = Head(todo), ![w].result = None]
    /\ UNCHANGED <<pool, answer, cache>>

\* The queue is empty: the tracker goes back for the next request.
Finish(w) ==
    /\ blocked = NoOne /\ At(w, "next") /\ todo = <<>>
    /\ Release(w)
    /\ actor' = [actor EXCEPT ![w].pc = "done", ![w].tracker = NoTracker, ![w].item = 0, ![w].result = None]
    /\ UNCHANGED <<opened, blocked, todo, answer, thread, cache>>

Awaited(l)    == \E a \in Actors : At(a, "wait") /\ actor[a].item = l
Ended(a)      == thread[actor[a].item].pc = "ended"
Outcome(a)    == thread[actor[a].item].outcome
Returned(a)   == Ended(a) /\ Outcome(a) = "returned"
\* The answer is taken over, the thread forgotten.
Forget(a)     == thread' = IF Ended(a) THEN [thread EXCEPT ![actor[a].item] = NoThread]
                           ELSE thread
\* wait_for may give up on a thread that is still running.
GivenUp(a)    == ~Ended(a)

ReceiveItem(w) ==
    /\ w \in Workers /\ blocked = NoOne /\ At(w, "wait") /\ Returned(w)
    /\ answer' = [answer EXCEPT ![actor[w].item] = Number(actor[w].item)]
    /\ actor' = [actor EXCEPT ![w].pc = "next", ![w].result = Number(actor[w].item)]
    /\ Forget(w)
    /\ UNCHANGED <<pool, todo, cache>>

\* Whatever went wrong, the tracker is not trusted any more.
FailItem(w) ==
    /\ w \in Workers /\ blocked = NoOne /\ At(w, "wait")
    /\ GivenUp(w) \/ (Ended(w) /\ ~Returned(w))
    /\ Discard(w)
    /\ actor' = [actor EXCEPT ![w].pc = "acquire", ![w].tracker = NoTracker]
    /\ Forget(w)
    /\ UNCHANGED <<opened, blocked, todo, answer, cache>>

\* The end of _lookup: a carrier that is not resolved says nothing against
\* the tracker.
EndSingle(s) ==
    /\ s \in Singles /\ blocked = NoOne /\ At(s, "wait")
    /\ \/ Returned(s) /\ Release(s)
       \/ Ended(s) /\ Outcome(s) = "unresolved" /\ Release(s)
       \/ (GivenUp(s) \/ (Ended(s) /\ Outcome(s) \in {"raised", "lost"})) /\ Discard(s)
    /\ answer' = [answer EXCEPT ![s] = IF Returned(s) THEN Number(s) ELSE "error"]
    /\ actor' = [actor EXCEPT ![s].pc = "done", ![s].tracker = NoTracker]
    /\ Forget(s)
    /\ UNCHANGED <<opened, blocked, todo, cache>>

-----------------------------------------------------------------------------
(* track_with_cache, in the thread. *)

\* Nobody hears of the end of a thread that was given up on.
EndThread(l, outcome) ==
    thread' = [thread EXCEPT ![l] =
                  IF Awaited(l)
                  THEN [pc |-> "ended", tracker |-> NoTracker, outcome |-> outcome,
                        new |-> @.new /\ outcome = "lost"]
                  ELSE NoThread]

\* A row that is fresh and of GoComet's shape is the answer.
ReadCache(l) ==
    /\ thread[l].pc = "cache"
    /\ IF cache[Number(l)] = "fresh" THEN EndThread(l, "returned")
       ELSE thread' = [thread EXCEPT ![l].pc = "live", ![l].new = cache[Number(l)] = "none"]
    /\ UNCHANGED <<pool, todo, actor, answer, cache>>

\* Mutant: always insert.
InsertBlindly(n) == "insert"

\* upsert looks for the row ...
FindRow(n) == IF cache[n] = "none" THEN "insert" ELSE "update"

\* GoCometTracker.track returns a result, which upsert stores at once, or raises.
TrackLive(l) ==
    /\ thread[l].pc = "live"
    /\ \/ thread' = [thread EXCEPT ![l].pc = FindRow(Number(l))]
       \/ EndThread(l, "raised")
       \/ EndThread(l, "unresolved")        \* CarrierNotResolved
    /\ UNCHANGED <<pool, todo, actor, answer, cache>>

\* ... and commits an insert, which the unique number may refuse, or an update.
StoreRow(l) ==
    /\ thread[l].pc \in {"insert", "update"}
    /\ IF thread[l].pc = "insert" /\ cache[Number(l)] # "none"
       THEN EndThread(l, "lost") /\ UNCHANGED cache             \* IntegrityError
       ELSE /\ EndThread(l, "returned")
            /\ cache' = [cache EXCEPT ![Number(l)] = "fresh"]
    /\ UNCHANGED <<pool, todo, actor, answer>>

\* container_cache_ttl_seconds pass.
CacheExpires(n) ==
    /\ cache[n] = "fresh"
    /\ cache' = [cache EXCEPT ![n] = "other"]
    /\ UNCHANGED <<pool, todo, actor, answer, thread>>

-----------------------------------------------------------------------------
Acquire(a) == Claim(a) \/ Block(a) \/ BuildNow(a)

ActorStep(a) ==
    \/ Acquire(a) \/ ReceiveItem(a) \/ FailItem(a) \/ EndSingle(a)
    \/ a \in Workers /\ (NextItem(a) \/ Finish(a))

ThreadStep(l) == ReadCache(l) \/ TrackLive(l) \/ StoreRow(l)

Next ==
    \/ StartBatch \/ BuildOne
    \/ \E s \in Singles : StartSingle(s)
    \/ \E a \in Actors : ActorStep(a)
    \/ \E l \in Lookups : ThreadStep(l)
    \/ \E n \in Numbers : CacheExpires(n)

Spec == Init /\ [][Next]_vars

\* The event loop runs what is ready; acquire gives up after 5 s, and wait_for
\* after 95 s or 120 s.  No thread need ever end, and no build.
FairSpec == Spec /\ \A a \in Actors : WF_vars(ActorStep(a))

-----------------------------------------------------------------------------
(* Properties. *)

Actor  == [pc : {"idle", "acquire", "next", "wait", "done"},
           tracker : Trackers \cup {NoTracker}, item : Lookups \cup {0},
           result : Numbers \cup {None}]
Thread == [pc : Running \cup {"none", "ended"}, tracker : Trackers \cup {NoTracker},
           new : BOOLEAN, outcome : {None, "returned", "raised", "unresolved", "lost"}]

\* Every variable keeps its type.
TypeOK ==
    /\ opened \in BOOLEAN /\ idle \subseteq Trackers /\ building \in Nat
    /\ blocked \in Actors \cup {NoOne}
    /\ todo \in Seq(Items)
    /\ actor \in [Actors -> Actor]
    /\ answer \in [Lookups -> Numbers \cup {None, "error"}]
    /\ thread \in [Lookups -> Thread]
    /\ cache \in [Numbers -> {"none", "fresh", "other"}]

\* Every answer is the answer to its own number, or an error: a failure never
\* shows the result of the item that the worker had before it.
AnswersMatch == \A l \in Lookups : answer[l] \in {None, "error", Number(l)}

Held == {a \in Actors : actor[a].tracker # NoTracker}

\* Two threads never use one tracker, not even one that was given up on
\* ("each worker owns one GoCometTracker"), none is ready for use while a
\* thread uses it, and no failure makes the pool smaller.
TrackersAccountedFor ==
    /\ \A k, l \in Lookups :
          k # l /\ {thread[k].pc, thread[l].pc} \subseteq Running
             => thread[k].tracker # thread[l].tracker
    /\ \A l \in Lookups : thread[l].pc \in Running => thread[l].tracker \notin idle
    /\ opened => Cardinality(idle) + Cardinality(Held) + building >= TargetSize

\* A result that was fetched and paid for is lost only to another lookup, which
\* stored the first row of that number since this one found none.
LostOnlyToTwin ==
    \A l \in Lookups : thread[l].outcome = "lost" =>
        thread[l].new /\ cache[Number(l)] # "none"

\* A batch ends and answers every item, though every thread may hang and the
\* pool run dry.
BatchEnds ==
    (\E w \in Workers : At(w, "acquire")) ~>
        (\A w \in Workers : actor[w].pc \in {"idle", "done"}) /\ \A i \in Items : answer[i] # None
=============================================================================

----------------------------- MODULE ProviderChain -----------------------------
(***************************************************************************)
(* A live lookup through the provider registry: Romeu for its own numbers, *)
(* then GoComet for every number.  The lookups are coroutines of one       *)
(* process; both providers do their blocking work in the threads of its    *)
(* default executor.  GoComet's work is behind a semaphore and a timeout,  *)
(* Romeu's is behind neither.  A coroutine that gives up on its work takes *)
(* it back if no thread has begun it; otherwise the thread goes on alone,  *)
(* for as long as it likes.                                                *)
(*                                                                         *)
(* The process starts with its warm-ups: they hold every permit until each *)
(* has built a tracker in some thread.                                     *)
(***************************************************************************)
EXTENDS Integers, Sequences, FiniteSets

CONSTANTS
    Lookups,        \* calls of ProviderRegistry.track
    Romu,           \* those of a number that starts with ROMU
    Threads,        \* the threads of the executor
    MaxConcurrent,  \* permits of GoComet's semaphore
    MaxRetries,     \* requests of one call to Romeu
    Trackers        \* bound: trackers that exist at one time

Warmups == 1..MaxConcurrent

ASSUME ChainAssumption ==
    /\ Romu \subseteq Lookups /\ Lookups \cap Warmups = {}
    /\ {MaxConcurrent, MaxRetries} \subseteq Nat \ {0}
    /\ Trackers \subseteq Nat \ {0}
    \* Enough trackers: a thread keeps one at the most.
    /\ IsFiniteSet(Threads) /\ IsFiniteSet(Trackers)
    /\ Cardinality(Threads) <= Cardinality(Trackers)

VARIABLES
    lookup,     \* where a lookup is, and what its awaited work has returned
    line,       \* the coroutines that wait for a permit, in their order
    permits,    \* the permits that are free
    work,       \* the queue of the executor
    thread,     \* what a thread does: its work, its tracker, its failed requests
    local,      \* the tracker in threading.local() of a thread
    raised      \* trackers in whose calls an exception was raised

vars == <<lookup, line, permits, work, thread, local, raised>>

NoTracker == 0
None      == "none"
Work      == [kind : {"romeu", "gocomet"}, of : Lookups] \cup [kind : {"warm"}, of : Warmups]
NoWork    == [kind |-> "none", of |-> None]
Idle      == [work |-> NoWork, tracker |-> NoTracker, failed |-> 0]
Romeu(l)   == [kind |-> "romeu", of |-> l]
GoComet(l) == [kind |-> "gocomet", of |-> l]

TypeOK ==
    /\ lookup \in [Lookups -> [pc : {"idle", "romeu", "line", "gocomet", "done", "cancelled"},
                               outcome : {None, "hit", "miss"}]]
    /\ line \in Seq(Lookups)
    /\ permits \in 0..MaxConcurrent
    /\ work \in Seq(Work)
    /\ thread \in [Threads -> [work : Work \cup {NoWork}, tracker : Trackers \cup {NoTracker},
                               failed : 0..MaxRetries]]
    /\ local \in [Threads -> Trackers \cup {NoTracker}]
    /\ raised \subseteq Trackers

Init ==
    /\ lookup = [l \in Lookups |-> [pc |-> "idle", outcome |-> None]]
    /\ line = <<>> /\ permits = 0
    /\ work = [w \in Warmups |-> [kind |-> "warm", of |-> w]]
    /\ thread = [t \in Threads |-> Idle]
    /\ local = [t \in Threads |-> NoTracker]
    /\ raised = {}

At(l, pc) == lookup[l].pc = pc
Go(l, pc) == lookup' = [lookup EXCEPT ![l] = [pc |-> pc, outcome |-> None]]

-----------------------------------------------------------------------------
(* The event loop: ProviderRegistry.track and the two adapters. *)

Begin(l) ==
    /\ At(l, "idle")
    /\ IF l \in Romu THEN Go(l, "romeu") /\ work' = Append(work, Romeu(l)) /\ UNCHANGED line
                     ELSE Go(l, "line") /\ line' = Append(line, l) /\ UNCHANGED work
    /\ UNCHANGED <<permits, thread, local, raised>>

\* The first hit wins; after a miss, or an exception, GoComet is asked.
RomeuAnswers(l) ==
    /\ At(l, "romeu") /\ lookup[l].outcome # None
    /\ IF lookup[l].outcome = "hit" THEN Go(l, "done") /\ UNCHANGED line
                                    ELSE Go(l, "line") /\ line' = Append(line, l)
    /\ UNCHANGED <<permits, work, thread, local, raised>>

Enter(l) ==
    /\ line # <<>> /\ l = Head(line) /\ permits > 0
    /\ line' = Tail(line)
    /\ permits' = permits - 1
    /\ Go(l, "gocomet")
    /\ work' = Append(work, GoComet(l))
    /\ UNCHANGED <<thread, local, raised>>

Release == permits' = permits + 1

GoCometAnswers(l) ==
    /\ At(l, "gocomet") /\ lookup[l].outcome # None
    /\ Go(l, "done")
    /\ Release
    /\ UNCHANGED <<line, work, thread, local, raised>>

\* Sequence s without the one of xs that stands in it.
Without(s, xs) ==
    IF \E i \in 1..Len(s) : s[i] \in xs
    THEN LET at == CHOOSE i \in 1..Len(s) : s[i] \in xs
         IN SubSeq(s, 1, at - 1) \o SubSeq(s, at + 1, Len(s))
    ELSE s

\* Mutant: work that nobody waits for stays in the queue.
WithdrawNothing(l) == UNCHANGED work

\* wait_for and the caller cancel the work if it is still in the queue.
Withdraw(l) == work' = Without(work, {Romeu(l), GoComet(l)})

\* Mutant: the permit is held until the thread has ended.
TimeOutHolding(l) ==
    /\ At(l, "gocomet") /\ lookup[l].outcome = None
    /\ \A t \in Threads : thread[t].work # GoComet(l)
    /\ Go(l, "done")
    /\ Withdraw(l)
    /\ Release
    /\ UNCHANGED <<line, thread, local, raised>>

\* _ATTEMPT_TIMEOUT_S has passed: a miss.
TimeOut(l) ==
    /\ At(l, "gocomet") /\ lookup[l].outcome = None
    /\ Go(l, "done")
    /\ Withdraw(l)
    /\ Release
    /\ UNCHANGED <<line, thread, local, raised>>

\* The job timeout of the scrape ends its lookup wherever it is.
Cancel(l) ==
    /\ lookup[l].pc \in {"romeu", "line", "gocomet"}
    /\ Go(l, "cancelled")
    /\ Withdraw(l)
    /\ line' = Without(line, {l})
    /\ IF At(l, "gocomet") THEN Release ELSE UNCHANGED permits
    /\ UNCHANGED <<thread, local, raised>>

-----------------------------------------------------------------------------
(* The threads. *)

\* A tracker that nobody has any more is as good as new.
Some(trackers) == CHOOSE k \in trackers : TRUE
Unused == Trackers \ ({local[t] : t \in Threads} \cup {thread[t].tracker : t \in Threads})

\* Mutant: looked up in the event loop, which is one thread like any other.
GetSharedTracker(t) ==
    LET loop == Some(Threads) IN IF local[loop] # NoTracker THEN local[loop] ELSE Some(Unused)

\* _get_tracker: this thread's own.
GetTracker(t) == IF local[t] # NoTracker THEN local[t] ELSE Some(Unused)

\* The thread takes the oldest work; for GoComet and the warm-ups it gets its
\* tracker, for Romeu one is built for this call alone.
Start(t) ==
    /\ thread[t] = Idle /\ work # <<>>
    /\ work' = Tail(work)
    /\ LET tracker == IF Head(work).kind = "romeu" THEN NoTracker ELSE GetTracker(t) IN
       /\ thread' = [thread EXCEPT ![t] = [work |-> Head(work), tracker |-> tracker, failed |-> 0]]
       /\ local' = [local EXCEPT ![t] = IF tracker = NoTracker THEN @ ELSE tracker]
       /\ raised' = IF tracker \in Unused THEN raised \ {tracker} ELSE raised
    /\ UNCHANGED <<lookup, line, permits>>

Doing(t, kind) == thread[t].work.kind = kind

\* The lookup hears of it if it still waits for this work.
Return(t, outcome) ==
    /\ thread' = [thread EXCEPT ![t] = Idle]
    /\ LET w == thread[t].work IN
       lookup' = IF At(w.of, w.kind) THEN [lookup EXCEPT ![w.of].outcome = outcome] ELSE lookup

\* Mutant: the retries are counted and not compared with their limit.
RomeuRetriesForever(t) ==
    /\ Doing(t, "romeu")
    /\ \/ \E outcome \in {"hit", "miss"} : Return(t, outcome)
       \/ /\ thread' = [thread EXCEPT ![t].failed = (@ + 1) % MaxRetries]
          /\ UNCHANGED lookup
    /\ UNCHANGED <<line, permits, work, local, raised>>

\* One request to Romeu has come back, or failed.
RomeuRequest(t) ==
    /\ Doing(t, "romeu")
    /\ \/ \E outcome \in {"hit", "miss"} : Return(t, outcome)
       \/ IF thread[t].failed + 1 < MaxRetries
          THEN /\ thread' = [thread EXCEPT ![t].failed = @ + 1]
               /\ UNCHANGED lookup
          ELSE Return(t, "miss")
    /\ UNCHANGED <<line, permits, work, local, raised>>

\* GoCometTracker.track returns, or raises and costs the thread its tracker.
GoCometCall(t) ==
    /\ Doing(t, "gocomet")
    /\ \/ /\ \E outcome \in {"hit", "miss"} : Return(t, outcome)
          /\ UNCHANGED <<local, raised>>
       \/ /\ Return(t, "miss")
          /\ local' = [local EXCEPT ![t] = NoTracker]
          /\ raised' = raised \cup {thread[t].tracker}
    /\ UNCHANGED <<line, permits, work>>

\* The tracker is built; the warm-up gives its permit back.
Warm(t) ==
    /\ Doing(t, "warm")
    /\ thread' = [thread EXCEPT ![t] = Idle]
    /\ Release
    /\ UNCHANGED <<lookup, line, work, local, raised>>

-----------------------------------------------------------------------------
LoopStep(l) == Begin(l) \/ RomeuAnswers(l) \/ Enter(l) \/ GoCometAnswers(l) \/ TimeOut(l)

Next ==
    \/ \E l \in Lookups : LoopStep(l) \/ Cancel(l)
    \/ \E t \in Threads : Start(t) \/ RomeuRequest(t) \/ GoCometCall(t) \/ Warm(t)

Spec == Init /\ [][Next]_vars

\* The event loop runs what is ready and its timeout fires; a thread that is free
\* takes work, a request to Romeu has a timeout of its own and a tracker is built
\* without waiting for anybody.  No call to GoComet need ever end.
FairSpec ==
    /\ Spec
    /\ \A l \in Lookups : WF_vars(LoopStep(l))
    /\ \A t \in Threads : WF_vars(Start(t)) /\ WF_vars(RomeuRequest(t)) /\ WF_vars(Warm(t))

-----------------------------------------------------------------------------
(* Properties. *)

\* No two threads ever work with one tracker ("never touched by another
\* thread"), and one whose call has raised is not used for the next number.
TrackersFit ==
    /\ \A t, u \in Threads :
          t # u /\ thread[t].tracker # NoTracker => thread[t].tracker # thread[u].tracker
    /\ \A t \in Threads : thread[t].tracker \notin raised

\* No thread begins work that its lookup has stopped waiting for: neither a
\* record of GoComet is paid for nor a request to Romeu made for nobody.
OnlyAwaitedWorkStarts ==
    [][\A t \in Threads :
          thread[t] = Idle /\ thread'[t] # Idle /\ thread'[t].work.of \in Lookups
          => At(thread'[t].work.of, thread'[t].work.kind)]_vars

Called(l)   == lookup[l].pc \notin {"idle", "done", "cancelled"}
Answered(l) == lookup[l].pc \in {"done", "cancelled"}

\* A lookup that only GoComet serves is answered, though every call to GoComet
\* may hang and the executor be full of them: a permit always comes back.
GoCometAlwaysAnswers == \A l \in Lookups \ Romu : Called(l) ~> Answered(l)

\* A lookup that Romeu serves has no timeout: it is answered if the calls to
\* GoComet that nobody waits for leave a thread to it time and again.
RomuAnswered ==
    (\E t \in Threads : []<>(~Doing(t, "gocomet"))) =>
        \A l \in Romu : Called(l) ~> Answered(l)
=============================================================================

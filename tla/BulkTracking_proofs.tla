--------------------------- MODULE BulkTracking_proofs ---------------------------
(***************************************************************************)
(* Theorems about BulkTracking, for every batch, every set of single       *)
(* lookups, and every number of workers and trackers.                      *)
(***************************************************************************)
EXTENDS BulkTracking, FiniteSetTheorems, TLAPS

-----------------------------------------------------------------------------
(* The inductive invariant. *)

\* Who has a tracker, and what a worker remembers of its item.
ActorOK(a) ==
    /\ actor[a].pc \in {"next", "wait"} <=> actor[a].tracker # NoTracker
    /\ At(a, "wait") => actor[a].item \in Lookups
    /\ a \in Singles /\ At(a, "acquire") => actor[a].item = a
    /\ a \in Singles /\ At(a, "wait") => actor[a].item = a
    /\ a \in Workers => actor[a].item \in Items \cup {0}
    /\ a \in Workers /\ At(a, "wait") => actor[a].item \in Items
    /\ a \in Workers /\ actor[a].item \in Items =>
          actor[a].result \in {None, Number(actor[a].item)}

Waits(a, l) == At(a, "wait") /\ actor[a].item = l

\* A thread's tracker is at nobody else's disposal.
ThreadOK(l) ==
    /\ thread[l].pc \in Running <=> thread[l].tracker # NoTracker
    /\ thread[l].tracker \notin idle
    /\ thread[l].tracker # NoTracker =>
          \A a \in Actors : actor[a].tracker = thread[l].tracker => Waits(a, l)

Distinct ==
    /\ \A a, b \in Actors :
          a # b /\ actor[a].tracker # NoTracker => actor[a].tracker # actor[b].tracker
    /\ \A a \in Actors : actor[a].tracker \notin idle
    /\ \A k, l \in Lookups :
          k # l /\ thread[k].tracker # NoTracker => thread[k].tracker # thread[l].tracker

\* A thread that will insert a row, or has failed to, found none.
LostOK(l) ==
    /\ thread[l].pc = "live" /\ cache[Number(l)] = "none" => thread[l].new
    /\ thread[l].pc = "insert" => thread[l].new
    /\ thread[l].pc \in Running => thread[l].outcome # "lost"
    /\ thread[l].outcome = "lost" => thread[l].new /\ cache[Number(l)] # "none"

\* No failure makes the pool smaller.
PoolOK ==
    /\ IsFiniteSet(idle)
    /\ opened => Cardinality(idle) + Cardinality(Held) + building >= TargetSize

Blocked == blocked # NoOne => At(blocked, "acquire")

Inv ==
    /\ TypeOK /\ AnswersMatch /\ Blocked
    /\ \A a \in Actors : ActorOK(a)
    /\ \A l \in Lookups : ThreadOK(l)
    /\ Distinct /\ PoolOK
    /\ \A l \in Lookups : LostOK(l)

-----------------------------------------------------------------------------
(* Lemmas. *)

LEMMA Constants ==
    /\ Items = 1..Len(Batch) /\ NoTracker \notin Trackers
    /\ \A l \in Lookups : Number(l) \in Numbers
    /\ \A i \in Items : i \notin Singles
    /\ Workers \cap Singles = {} /\ NoOne \notin Actors
    /\ NoThread \in Thread
  BY BulkAssumption
     DEF Items, NoTracker, Lookups, Singles, Number, Thread, NoThread, Running

OnlyActor(a) ==
    /\ actor' \in [Actors -> Actor]
    /\ \A b \in Actors \ {a} : actor'[b] = actor[b]

OnlyThread(l) ==
    /\ thread' \in [Lookups -> Thread]
    /\ \A k \in Lookups \ {l} : thread'[k] = thread[k]

LEMMA DispatchStep ==
    ASSUME TypeOK, NEW l \in Lookups, NEW k \in Trackers, Dispatch(l, k)
    PROVE  /\ OnlyThread(l) /\ thread'[l].pc = "cache" /\ thread'[l].tracker = k
           /\ thread'[l].outcome = None
<1> DEFINE r == [NoThread EXCEPT !.pc = "cache", !.tracker = k]
<1>1. /\ r \in Thread /\ r.pc = "cache" /\ r.tracker = k /\ r.outcome = None
  BY Constants DEF Thread, NoThread, Running
<1>2. thread' = [thread EXCEPT ![l] = r]
  BY DEF Dispatch
<1> HIDE DEF r
<1> QED
  BY <1>1, <1>2 DEF TypeOK, OnlyThread

LEMMA ForgetStep ==
    ASSUME TypeOK, NEW a \in Actors, actor[a].item \in Lookups, Forget(a)
    PROVE  /\ OnlyThread(actor[a].item)
           /\ IF Ended(a) THEN thread'[actor[a].item] = NoThread ELSE thread' = thread
  BY Constants DEF TypeOK, Forget, OnlyThread

LEMMA EndThreadStep ==
    ASSUME TypeOK, NEW l \in Lookups,
           NEW outcome \in {"returned", "raised", "unresolved", "lost"}, EndThread(l, outcome)
    PROVE  /\ OnlyThread(l) /\ thread'[l].pc \in {"none", "ended"}
           /\ thread'[l].tracker = NoTracker
           /\ thread'[l].outcome = "lost" => outcome = "lost" /\ thread'[l].new = thread[l].new
<1> DEFINE r == IF Awaited(l)
                THEN [pc |-> "ended", tracker |-> NoTracker, outcome |-> outcome,
                      new |-> thread[l].new /\ outcome = "lost"]
                ELSE NoThread
<1>1. thread' = [thread EXCEPT ![l] = r]
  BY DEF EndThread
<1>2. /\ r \in Thread /\ r.pc \in {"none", "ended"} /\ r.tracker = NoTracker
      /\ r.outcome = "lost" => outcome = "lost" /\ r.new = thread[l].new
  <2>1. thread[l].new \in BOOLEAN
    BY DEF TypeOK, Thread
  <2> QED
    BY <2>1, Constants DEF Thread, NoThread, Running, None
<1> HIDE DEF r
<1> QED
  BY <1>1, <1>2 DEF TypeOK, OnlyThread

LEMMA InitInv == Init => Inv
<1> SUFFICES ASSUME Init PROVE Inv
  OBVIOUS
<1>1. TypeOK
  <2>1. todo \in Seq(Items)
    <3>1. Len(Batch) \in Nat
      BY BulkAssumption
    <3> QED
      BY <3>1, Constants DEF Init
  <2>2. actor \in [Actors -> Actor]
    BY DEF Init, Actor
  <2>3. thread \in [Lookups -> Thread]
    BY Constants DEF Init
  <2>4. answer \in [Lookups -> Numbers \cup {None, "error"}]
    BY DEF Init
  <2> QED
    BY <2>1, <2>2, <2>3, <2>4 DEF Init, TypeOK
<1>2. AnswersMatch
  BY DEF Init, AnswersMatch
<1>3. \A a \in Actors : ActorOK(a)
  BY Constants DEF Init, ActorOK, At
<1>4. \A l \in Lookups : ThreadOK(l) /\ LostOK(l)
  BY DEF Init, ThreadOK, LostOK, NoThread, Running, None
<1>5. Distinct
  BY DEF Init, Distinct, NoThread
<1>6. Blocked
  BY DEF Init, Blocked
<1>7. PoolOK
  BY FS_EmptySet DEF Init, PoolOK
<1> QED
  BY <1>1, <1>2, <1>3, <1>4, <1>5, <1>6, <1>7 DEF Inv

-----------------------------------------------------------------------------
(* Every step keeps the invariant. *)

\* The parts about the actors and the threads that a step leaves alone.
LEMMA OtherActors ==
    ASSUME Inv, NEW a \in Actors, OnlyActor(a), NEW b \in Actors, b # a
    PROVE  ActorOK(b)'
  BY DEF Inv, ActorOK, OnlyActor, At

LEMMA Cached ==
    ASSUME Inv, cache' \in [Numbers -> {"none", "fresh", "other"}],
           \A n \in Numbers : cache[n] # "none" => cache'[n] # "none",
           NEW l \in Lookups, thread'[l] = thread[l]
    PROVE  LostOK(l)'
  BY Constants DEF Inv, LostOK

\* The pool while nothing is taken or given, and when something is.
LEMMA HeldFinite == ASSUME TypeOK PROVE IsFiniteSet(Held) /\ Cardinality(Held) \in Nat
<1>1. IsFiniteSet(Actors)
  <2>1. MaxWorkers \in Int /\ 1 \in Int
    BY BulkAssumption
  <2>2. IsFiniteSet(Workers)
    BY <2>1, FS_Interval DEF Workers
  <2>3. IsFiniteSet(Singles)
    BY BulkAssumption
  <2> QED
    BY <2>2, <2>3, FS_Union DEF Actors
<1>2. Held \subseteq Actors
  BY DEF Held
<1> QED
  BY <1>1, <1>2, FS_Subset, FS_CardinalityType

LEMMA PoolSame ==
    ASSUME Inv, UNCHANGED <<opened, idle, building>>,
           \A a \in Actors : actor'[a].tracker # NoTracker <=> actor[a].tracker # NoTracker
    PROVE  PoolOK'
<1>1. Held' = Held
  BY DEF Held
<1> QED
  BY <1>1 DEF Inv, PoolOK

LEMMA PoolTakes ==
    ASSUME Inv, NEW a \in Actors, OnlyActor(a), actor[a].tracker = NoTracker,
           actor'[a].tracker # NoTracker, UNCHANGED <<opened, building>>,
           idle' = idle \/ \E k \in idle : idle' = idle \ {k}
    PROVE  PoolOK'
<1>1. Held' = Held \cup {a} /\ a \notin Held
  BY DEF Held, OnlyActor
<1>2. IsFiniteSet(Held) /\ Cardinality(Held) \in Nat
  BY HeldFinite DEF Inv
<1>3. Cardinality(Held') = Cardinality(Held) + 1
  BY <1>1, <1>2, FS_AddElement
<1>4. IsFiniteSet(idle) /\ Cardinality(idle) \in Nat
  BY FS_CardinalityType DEF Inv, PoolOK
<1>5. IsFiniteSet(idle') /\ Cardinality(idle') \in Nat
      /\ Cardinality(idle') >= Cardinality(idle) - 1
  <2>1. CASE idle' = idle
    BY <1>4, <2>1
  <2>2. ASSUME NEW k \in idle, idle' = idle \ {k}
        PROVE  /\ IsFiniteSet(idle') /\ Cardinality(idle') \in Nat
               /\ Cardinality(idle') = Cardinality(idle) - 1
    <3>1. /\ IsFiniteSet(idle \ {k})
          /\ Cardinality(idle \ {k}) = Cardinality(idle) - 1
      BY <1>4, FS_RemoveElement
    <3>2. Cardinality(idle \ {k}) \in Nat
      BY <3>1, FS_CardinalityType
    <3> QED
      BY <2>2, <3>1, <3>2
  <2> QED
    BY <1>4, <2>1, <2>2
<1>6. building \in Nat /\ TargetSize \in Nat
  BY BulkAssumption DEF Inv, TypeOK
<1> QED
  BY <1>2, <1>3, <1>4, <1>5, <1>6 DEF Inv, PoolOK

LEMMA PoolGives ==
    ASSUME Inv, NEW a \in Actors, OnlyActor(a), actor[a].tracker # NoTracker,
           actor'[a].tracker = NoTracker, UNCHANGED opened,
           \/ idle' = idle \cup {actor[a].tracker} /\ UNCHANGED building
           \/ UNCHANGED idle /\ building' = building + 1
    PROVE  PoolOK'
<1>1. Held' = Held \ {a} /\ a \in Held
  BY DEF Held, OnlyActor
<1>2. IsFiniteSet(Held) /\ Cardinality(Held) \in Nat
  BY HeldFinite DEF Inv
<1>3. Cardinality(Held') = Cardinality(Held) - 1
  BY <1>1, <1>2, FS_RemoveElement
<1>4. IsFiniteSet(idle) /\ Cardinality(idle) \in Nat
  BY FS_CardinalityType DEF Inv, PoolOK
<1>5. building \in Nat /\ TargetSize \in Nat
  BY BulkAssumption DEF Inv, TypeOK
<1>6. CASE idle' = idle \cup {actor[a].tracker} /\ UNCHANGED building
  <2>1. actor[a].tracker \notin idle
    BY DEF Inv, Distinct
  <2>2. IsFiniteSet(idle') /\ Cardinality(idle') = Cardinality(idle) + 1
    BY <1>4, <1>6, <2>1, FS_AddElement
  <2> QED
    BY <1>2, <1>3, <1>4, <1>5, <1>6, <2>2 DEF Inv, PoolOK
<1>7. CASE UNCHANGED idle /\ building' = building + 1
  BY <1>2, <1>3, <1>4, <1>5, <1>7 DEF Inv, PoolOK
<1> QED
  BY <1>6, <1>7

\* The trackers when one actor takes one that nobody has, perhaps for a thread.
LEMMA Taken ==
    ASSUME Inv, NEW a \in Actors, OnlyActor(a),
           actor[a].tracker = NoTracker,
           actor'[a].tracker \in Trackers, actor'[a].tracker \notin idle',
           idle' \subseteq idle,
           \A b \in Actors : actor'[a].tracker # actor[b].tracker,
           \A l \in Lookups : actor'[a].tracker # thread[l].tracker,
           \/ UNCHANGED thread
           \/ \E l \in Lookups :
                 /\ OnlyThread(l) /\ thread'[l].pc = "cache"
                 /\ thread'[l].tracker = actor'[a].tracker /\ Waits(a, l)'
    PROVE  Distinct' /\ \A l \in Lookups : ThreadOK(l)'
<1>1. actor'[a].tracker # NoTracker
  BY Constants
<1>2. CASE UNCHANGED thread
  <2>1. Distinct'
    BY <1>2 DEF Inv, Distinct, OnlyActor
  <2>2. \A l \in Lookups : ThreadOK(l)'
    BY <1>2 DEF Inv, ThreadOK, OnlyActor, Waits, At
  <2> QED
    BY <2>1, <2>2
<1>3. ASSUME NEW l \in Lookups, OnlyThread(l), thread'[l].pc = "cache",
             thread'[l].tracker = actor'[a].tracker, Waits(a, l)'
      PROVE  Distinct' /\ \A k \in Lookups : ThreadOK(k)'
  <2>1. Distinct'
    BY <1>3 DEF Inv, Distinct, OnlyActor, OnlyThread
  <2>2. \A k \in Lookups \ {l} : ThreadOK(k)'
    BY <1>3 DEF Inv, ThreadOK, OnlyActor, OnlyThread, Waits, At
  <2>3. ThreadOK(l)'
    BY <1>1, <1>3 DEF Inv, ThreadOK, OnlyActor, Waits, At, Running
  <2> QED
    BY <2>1, <2>2, <2>3
<1> QED
  BY <1>2, <1>3

\* An actor goes on with the tracker it has; it may give it to a thread.
LEMMA KeptOn ==
    ASSUME Inv, NEW a \in Actors, OnlyActor(a), UNCHANGED idle,
           actor[a].tracker # NoTracker, actor'[a].tracker = actor[a].tracker,
           \A k \in Lookups : Waits(a, k) => thread'[k].tracker = NoTracker,
           \/ \A k \in Lookups : thread'[k] \in {thread[k], NoThread}
           \/ \E l \in Lookups :
                 /\ OnlyThread(l) /\ thread'[l].pc = "cache"
                 /\ thread'[l].tracker = actor[a].tracker /\ Waits(a, l)'
    PROVE  Distinct' /\ \A k \in Lookups : ThreadOK(k)'
<1>1. \A b \in Actors : actor'[b].tracker = actor[b].tracker
  BY DEF OnlyActor
<1>2. CASE \A k \in Lookups : thread'[k] \in {thread[k], NoThread}
  <2>1. \A l \in Lookups :
           /\ thread'[l].pc \in Running <=> thread'[l].tracker # NoTracker
           /\ thread'[l].tracker # NoTracker => thread'[l] = thread[l]
    BY <1>2 DEF Inv, ThreadOK, NoThread, Running
  <2>2. Distinct'
    BY <1>1, <2>1 DEF Inv, Distinct
  <2>3. \A k \in Lookups : ThreadOK(k)'
    BY <1>1, <2>1, Constants DEF Inv, TypeOK, ThreadOK, OnlyActor, Waits, At
  <2> QED
    BY <2>2, <2>3
<1>3. ASSUME NEW l \in Lookups, OnlyThread(l), thread'[l].pc = "cache",
             thread'[l].tracker = actor[a].tracker, Waits(a, l)'
      PROVE  Distinct' /\ \A k \in Lookups : ThreadOK(k)'
  <2>1. \A k \in Lookups \ {l} : thread'[k].tracker # actor[a].tracker
    BY <1>3 DEF Inv, ThreadOK, OnlyThread
  <2>2. Distinct'
    BY <1>1, <1>3, <2>1 DEF Inv, Distinct, OnlyThread
  <2>3. \A k \in Lookups \ {l} : ThreadOK(k)'
    BY <1>1, <1>3, <2>1 DEF Inv, ThreadOK, OnlyActor, OnlyThread, Waits, At
  <2>4. ThreadOK(l)'
    BY <1>1, <1>3 DEF Inv, Distinct, ThreadOK, Running
  <2> QED
    BY <2>2, <2>3, <2>4
<1> QED
  BY <1>2, <1>3

\* A thread goes on with its tracker, or has come to its end.
LEMMA ThreadMoves ==
    ASSUME Inv, NEW l \in Lookups, OnlyThread(l), UNCHANGED <<actor, idle>>,
           thread'[l].pc \in Running <=> thread'[l].tracker # NoTracker,
           thread'[l].tracker \in {thread[l].tracker, NoTracker}
    PROVE  Distinct' /\ \A k \in Lookups : ThreadOK(k)'
<1>1. Distinct'
  BY DEF Inv, Distinct, OnlyThread
<1>2. \A k \in Lookups : ThreadOK(k)'
  BY Constants DEF Inv, TypeOK, ThreadOK, OnlyThread, Waits, At
<1> QED
  BY <1>1, <1>2

LEMMA GivenBack ==
    ASSUME Inv, NEW a \in Actors, OnlyActor(a), actor[a].tracker # NoTracker,
           actor'[a].tracker = NoTracker,
           \A l \in Lookups : thread'[l] \in {thread[l], NoThread},
           \/ idle' = idle
           \/ /\ idle' = idle \cup {actor[a].tracker}
              /\ \A l \in Lookups : Waits(a, l) => thread'[l].tracker = NoTracker
    PROVE  Distinct' /\ \A l \in Lookups : ThreadOK(l)'
<1>1. \A l \in Lookups :
         /\ thread'[l].pc \in Running <=> thread'[l].tracker # NoTracker
         /\ thread'[l].tracker # NoTracker => thread'[l] = thread[l]
  BY DEF Inv, ThreadOK, NoThread, Running
<1>2. NoTracker \notin idle'
  BY Constants DEF Inv, TypeOK
<1>3. Distinct'
  BY <1>1, <1>2 DEF Inv, Distinct, OnlyActor
<1>4. \A l \in Lookups : ThreadOK(l)'
  BY <1>1, <1>2 DEF Inv, ThreadOK, OnlyActor, Waits, At
<1> QED
  BY <1>3, <1>4

\* The parts that a step of the pool or the actors does not touch.
LEMMA SameThreads ==
    ASSUME Inv, UNCHANGED <<thread, cache>>, NEW l \in Lookups
    PROVE  LostOK(l)'
  BY Cached DEF Inv, TypeOK

LEMMA OpenPoolInv ==
    ASSUME Inv, OpenPool, NEW started \in SUBSET Actors,
           \A a \in started : At(a, "idle") /\ At(a, "acquire")',
           actor' \in [Actors -> Actor], \A a \in Actors \ started : actor'[a] = actor[a],
           \A a \in started : /\ actor'[a].tracker = actor[a].tracker
                              /\ actor'[a].result = actor[a].result
                              /\ a \in Singles => actor'[a].item = a
                              /\ a \in Workers => actor'[a].item = actor[a].item,
           UNCHANGED <<idle, blocked, todo, answer, thread, cache>>
    PROVE  Inv'
<1>1. TypeOK'
  <2>1. opened' \in BOOLEAN /\ building' \in Nat
    BY BulkAssumption DEF Inv, TypeOK, OpenPool
  <2> QED
    BY <2>1 DEF Inv, TypeOK
<1>2. AnswersMatch'
  BY DEF Inv, AnswersMatch
<1>3. ASSUME NEW a \in Actors PROVE ActorOK(a)'
  BY Constants DEF Inv, ActorOK, At, Actors
<1>4. \A a \in Actors : actor'[a].tracker = actor[a].tracker
  OBVIOUS
<1>5. \A a \in started : actor[a].tracker = NoTracker
  BY DEF Inv, ActorOK, At
<1>6. Distinct'
  BY <1>4 DEF Inv, Distinct
<1>7. \A l \in Lookups : ThreadOK(l)'
  BY <1>4, <1>5 DEF Inv, ThreadOK, Waits, At
<1>8. Blocked'
  BY DEF Inv, TypeOK, Blocked, At
<1>9. PoolOK'
  <2>1. Held' = Held
    BY <1>4 DEF Held
  <2>2. Cardinality(Held) \in Nat /\ Cardinality(idle) \in Nat
    BY HeldFinite, FS_CardinalityType DEF Inv, PoolOK
  <2>3. TargetSize \in Nat /\ opened \in BOOLEAN
    BY BulkAssumption DEF Inv, TypeOK
  <2> QED
    BY <2>1, <2>2, <2>3 DEF Inv, PoolOK, OpenPool
<1> QED
  BY <1>1, <1>2, <1>3, <1>6, <1>7, <1>8, <1>9, SameThreads DEF Inv

LEMMA StartBatchInv == ASSUME Inv, StartBatch PROVE Inv'
<1>1. PICK count \in 1..MaxWorkers :
         actor' = [a \in Actors |-> IF a \in 1..count THEN [actor[a] EXCEPT !.pc = "acquire"]
                                    ELSE actor[a]]
  BY DEF StartBatch
<1> DEFINE started == 1..count
<1>2. started \subseteq Workers /\ Workers \subseteq Actors
  BY BulkAssumption DEF Workers, Actors
<1>3. \A a \in started : At(a, "idle")
  BY <1>2 DEF StartBatch, Started
<1> HIDE DEF started
<1>4. actor' = [a \in Actors |-> IF a \in started THEN [actor[a] EXCEPT !.pc = "acquire"]
                                 ELSE actor[a]]
  BY <1>1 DEF started
<1>5. \A a \in started : /\ actor'[a].pc = "acquire"
                         /\ actor'[a].tracker = actor[a].tracker
                         /\ actor'[a].item = actor[a].item
                         /\ actor'[a].result = actor[a].result
                         /\ actor'[a] \in Actor
  BY <1>2, <1>4, ZenonT(40) DEF Inv, TypeOK, Actor
<1>6. actor' \in [Actors -> Actor] /\ \A a \in Actors \ started : actor'[a] = actor[a]
  BY <1>4, <1>5 DEF Inv, TypeOK
<1>7. \A a \in started : a \notin Singles /\ a \in Actors
  BY <1>2, Constants
<1>8. UNCHANGED <<idle, blocked, todo, answer, thread, cache>> /\ OpenPool
  BY DEF StartBatch
<1> QED
  BY <1>3, <1>5, <1>6, <1>7, <1>8, OpenPoolInv DEF At

LEMMA StartSingleInv == ASSUME Inv, NEW s \in Singles, StartSingle(s) PROVE Inv'
<1>1. /\ OpenPool /\ At(s, "idle") /\ UNCHANGED <<idle, blocked, todo, answer, thread, cache>>
      /\ actor' = [actor EXCEPT ![s].pc = "acquire", ![s].item = s]
  BY DEF StartSingle
<1>2. s \in Actors /\ s \in Lookups /\ s \notin Workers
  BY Constants DEF Actors, Lookups
<1>3. /\ OnlyActor(s) /\ actor'[s].pc = "acquire" /\ actor'[s].item = s
      /\ actor'[s].tracker = actor[s].tracker /\ actor'[s].result = actor[s].result
  BY <1>1, <1>2 DEF Inv, TypeOK, OnlyActor, Actor
<1> DEFINE started == {s}
<1>4. /\ started \in SUBSET Actors
      /\ \A a \in started : /\ At(a, "idle") /\ At(a, "acquire")'
                            /\ actor'[a].tracker = actor[a].tracker
                            /\ actor'[a].result = actor[a].result
                            /\ a \in Singles => actor'[a].item = a
                            /\ a \in Workers => actor'[a].item = actor[a].item
      /\ \A a \in Actors \ started : actor'[a] = actor[a]
      /\ actor' \in [Actors -> Actor]
  BY <1>1, <1>2, <1>3 DEF OnlyActor, At
<1> HIDE DEF started
<1> QED
  BY <1>1, <1>4, OpenPoolInv

LEMMA SomeFree == ASSUME NEW S, S # {} PROVE Some(S) \in S
  BY DEF Some

LEMMA BuildOneInv == ASSUME Inv, BuildOne PROVE Inv'
<1> DEFINE k == Some(Free)
<1>1. k \in Free
  BY SomeFree DEF BuildOne
<1> HIDE DEF k
<1>2. /\ idle' = idle \cup {k} /\ building > 0 /\ building' = building - 1
      /\ UNCHANGED <<opened, blocked, todo, actor, answer, thread, cache>>
  BY DEF BuildOne, k
<1>3. /\ k \in Trackers /\ k # NoTracker
      /\ \A a \in Actors : actor[a].tracker # k
      /\ \A l \in Lookups : thread[l].tracker # k
  BY <1>1, Constants DEF Free, InUse
<1>4. TypeOK'
  BY <1>2, <1>3 DEF Inv, TypeOK
<1>5. AnswersMatch' /\ \A a \in Actors : ActorOK(a)'
  BY <1>2 DEF Inv, AnswersMatch, ActorOK, At
<1>7. Blocked'
  BY <1>2 DEF Inv, Blocked, At
<1>6. Distinct' /\ \A l \in Lookups : ThreadOK(l)'
  BY <1>2, <1>3 DEF Inv, Distinct, ThreadOK, Waits, At
<1>8. PoolOK'
  <2>1. Held' = Held /\ Cardinality(Held) \in Nat
    BY <1>2, HeldFinite DEF Inv, Held
  <2>2. IsFiniteSet(idle) /\ Cardinality(idle) \in Nat /\ k \notin idle
    BY <1>1, FS_CardinalityType DEF Inv, PoolOK, Free, InUse
  <2>3. IsFiniteSet(idle') /\ Cardinality(idle') = Cardinality(idle) + 1
    BY <1>2, <2>2, FS_AddElement
  <2>4. TargetSize \in Nat /\ building \in Nat
    BY BulkAssumption DEF Inv, TypeOK
  <2> QED
    BY <1>2, <2>1, <2>2, <2>3, <2>4 DEF Inv, PoolOK
<1> QED
  BY <1>2, <1>4, <1>5, <1>6, <1>7, <1>8, SameThreads DEF Inv

\* What acquire() gives to a single lookup or a worker.
LEMMA TakeStep ==
    ASSUME Inv, NEW a \in Actors, At(a, "acquire"), NEW k \in Trackers, Take(a, k),
           UNCHANGED cache
    PROVE  /\ OnlyActor(a) /\ actor'[a].tracker = k /\ ActorOK(a)'
           /\ \/ UNCHANGED thread
              \/ \E l \in Lookups :
                    /\ OnlyThread(l) /\ thread'[l].pc = "cache"
                    /\ thread'[l].tracker = k /\ Waits(a, l)'
           /\ \A l \in Lookups : LostOK(l)'
           /\ AnswersMatch' /\ answer' \in [Lookups -> Numbers \cup {None, "error"}]
           /\ thread' \in [Lookups -> Thread]
<1>1. TypeOK /\ ActorOK(a) /\ k # NoTracker
  BY Constants DEF Inv
<1>2. CASE a \in Singles
  <2>1. /\ Dispatch(a, k) /\ UNCHANGED answer
        /\ actor' = [actor EXCEPT ![a].pc = "wait", ![a].tracker = k]
    BY <1>2 DEF Take
  <2>2. a \in Lookups /\ a \notin Workers /\ actor[a].item = a
    BY <1>1, <1>2, Constants DEF Lookups, ActorOK
  <2>3. /\ OnlyThread(a) /\ thread'[a].pc = "cache" /\ thread'[a].tracker = k
        /\ thread'[a].outcome = None
    BY <1>1, <2>1, <2>2, DispatchStep
  <2>4. /\ OnlyActor(a) /\ actor'[a].pc = "wait" /\ actor'[a].tracker = k
        /\ actor'[a].item = a
    BY <1>1, <2>1, <2>2, ZenonT(40) DEF TypeOK, OnlyActor, Actor
  <2>5. ActorOK(a)'
    BY <1>1, <2>2, <2>4 DEF ActorOK, At
  <2>6. \A l \in Lookups : LostOK(l)'
    BY <2>3 DEF Inv, LostOK, OnlyThread, None, Running
  <2>7. AnswersMatch' /\ answer' \in [Lookups -> Numbers \cup {None, "error"}]
    BY <2>1 DEF Inv, TypeOK, AnswersMatch
  <2> QED
    BY <2>2, <2>3, <2>4, <2>5, <2>6, <2>7 DEF Waits, At, OnlyThread
<1>3. CASE a \notin Singles
  <2> DEFINE said == IF actor[a].result = None THEN "error" ELSE actor[a].result
  <2>1. /\ actor' = [actor EXCEPT ![a].pc = "next", ![a].tracker = k] /\ UNCHANGED thread
        /\ answer' = IF actor[a].item = 0 THEN answer
                     ELSE [answer EXCEPT ![actor[a].item] = said]
    BY <1>3 DEF Take
  <2>2. a \in Workers /\ actor[a].item \in Items \cup {0}
    BY <1>1, <1>3 DEF Actors, ActorOK
  <2>3. /\ OnlyActor(a) /\ actor'[a].pc = "next" /\ actor'[a].tracker = k
        /\ actor'[a].item = actor[a].item /\ actor'[a].result = actor[a].result
    BY <1>1, <2>1 DEF TypeOK, OnlyActor, Actor
  <2>4. ActorOK(a)'
    BY <1>1, <1>3, <2>2, <2>3 DEF ActorOK, At
  <2>5. actor[a].item \in Items =>
           said \in {"error", Number(actor[a].item)} /\ said \in Numbers \cup {"error"}
    BY <1>1, <2>2, Constants DEF ActorOK, Lookups
  <2> HIDE DEF said
  <2>6. AnswersMatch' /\ answer' \in [Lookups -> Numbers \cup {None, "error"}]
    BY <2>1, <2>2, <2>5 DEF Inv, TypeOK, AnswersMatch, Lookups
  <2>7. \A l \in Lookups : LostOK(l)'
    BY <2>1, SameThreads
  <2> QED
    BY <1>1, <2>1, <2>3, <2>4, <2>6, <2>7 DEF TypeOK
<1> QED
  BY <1>2, <1>3

LEMMA ClaimInv == ASSUME Inv, NEW a \in Actors, Claim(a) PROVE Inv'
<1> DEFINE k == Some(idle)
<1>1. k \in idle
  BY SomeFree DEF Claim
<1> HIDE DEF k
<1>2. /\ At(a, "acquire") /\ Take(a, k) /\ idle' = idle \ {k} /\ blocked' = NoOne
      /\ UNCHANGED <<opened, building, todo, cache>>
  BY DEF Claim, k
<1>3. /\ k \in Trackers /\ actor[a].tracker = NoTracker
      /\ \A b \in Actors : actor[b].tracker # k
      /\ \A l \in Lookups : thread[l].tracker # k
  BY <1>1, <1>2 DEF Inv, TypeOK, ActorOK, At, Distinct, ThreadOK
<1>4. /\ OnlyActor(a) /\ actor'[a].tracker = k /\ ActorOK(a)'
      /\ \/ UNCHANGED thread
         \/ \E l \in Lookups :
               /\ OnlyThread(l) /\ thread'[l].pc = "cache"
               /\ thread'[l].tracker = k /\ Waits(a, l)'
      /\ \A l \in Lookups : LostOK(l)'
      /\ AnswersMatch' /\ answer' \in [Lookups -> Numbers \cup {None, "error"}]
      /\ thread' \in [Lookups -> Thread]
  BY <1>2, <1>3, TakeStep
<1>5. TypeOK'
  BY <1>2, <1>4 DEF Inv, TypeOK, OnlyActor
<1>6. Distinct' /\ \A l \in Lookups : ThreadOK(l)'
  BY <1>2, <1>3, <1>4, Taken
<1>7. PoolOK'
  BY <1>1, <1>2, <1>3, <1>4, Constants, PoolTakes
<1> QED
  BY <1>2, <1>4, <1>5, <1>6, <1>7, OtherActors DEF Inv, Blocked

LEMMA BuildNowInv == ASSUME Inv, NEW a \in Actors, BuildNow(a) PROVE Inv'
<1> DEFINE k == Some(Free)
<1>1. k \in Free
  BY SomeFree DEF BuildNow
<1> HIDE DEF k
<1>2. /\ At(a, "acquire") /\ Take(a, k) /\ blocked' = NoOne
      /\ UNCHANGED <<opened, idle, building, todo, cache>>
  BY Constants DEF Inv, Blocked, BuildNow, k
<1>3. /\ k \in Trackers /\ k \notin idle /\ actor[a].tracker = NoTracker
      /\ \A b \in Actors : actor[b].tracker # k
      /\ \A l \in Lookups : thread[l].tracker # k
  BY <1>1, <1>2 DEF Inv, ActorOK, At, Free, InUse
<1>4. /\ OnlyActor(a) /\ actor'[a].tracker = k /\ ActorOK(a)'
      /\ \/ UNCHANGED thread
         \/ \E l \in Lookups :
               /\ OnlyThread(l) /\ thread'[l].pc = "cache"
               /\ thread'[l].tracker = k /\ Waits(a, l)'
      /\ \A l \in Lookups : LostOK(l)'
      /\ AnswersMatch' /\ answer' \in [Lookups -> Numbers \cup {None, "error"}]
      /\ thread' \in [Lookups -> Thread]
  BY <1>2, <1>3, TakeStep
<1>5. TypeOK'
  BY <1>2, <1>4 DEF Inv, TypeOK, OnlyActor
<1>6. Distinct' /\ \A l \in Lookups : ThreadOK(l)'
  BY <1>2, <1>3, <1>4, Taken
<1>7. PoolOK'
  BY <1>2, <1>3, <1>4, Constants, PoolTakes
<1> QED
  BY <1>2, <1>4, <1>5, <1>6, <1>7, OtherActors DEF Inv, Blocked

LEMMA BlockInv == ASSUME Inv, NEW a \in Actors, Block(a) PROVE Inv'
<1>1. /\ At(a, "acquire") /\ blocked' = a
      /\ UNCHANGED <<opened, idle, building, todo, actor, answer, thread, cache>>
  BY DEF Block
<1>2. TypeOK' /\ AnswersMatch' /\ Blocked'
  BY <1>1 DEF Inv, TypeOK, AnswersMatch, Blocked, At
<1>3. \A b \in Actors : ActorOK(b)'
  BY <1>1 DEF Inv, ActorOK, At
<1>4. Distinct' /\ \A l \in Lookups : ThreadOK(l)'
  BY <1>1 DEF Inv, Distinct, ThreadOK, Waits, At
<1>5. PoolOK'
  BY <1>1, PoolSame
<1> QED
  BY <1>1, <1>2, <1>3, <1>4, <1>5, SameThreads DEF Inv

LEMMA NextItemInv == ASSUME Inv, NEW w \in Workers, NextItem(w) PROVE Inv'
<1> DEFINE k == actor[w].tracker
<1>1. w \in Actors /\ w \notin Singles /\ TypeOK
  BY Constants DEF Actors, Inv
<1>0. Tail(todo) \in Seq(Items) /\ Head(todo) \in Items
  BY <1>1 DEF TypeOK, NextItem
<1>2. PICK i \in Items : i = Head(todo)
  BY <1>0
<1>3. /\ At(w, "next") /\ todo' = Tail(todo) /\ Dispatch(i, k) /\ blocked = NoOne
      /\ actor' = [actor EXCEPT ![w].pc = "wait", ![w].item = i, ![w].result = None]
      /\ UNCHANGED <<opened, idle, building, blocked, answer, cache>>
  BY <1>2 DEF NextItem, pool
<1>4. i \in Lookups /\ k \in Trackers
  <2>1. k # NoTracker
    BY <1>1, <1>3 DEF Inv, ActorOK, At
  <2> QED
    BY <1>1, <1>2, <2>1 DEF TypeOK, Actor, Lookups
<1>5. /\ OnlyThread(i) /\ thread'[i].pc = "cache" /\ thread'[i].tracker = k
      /\ thread'[i].outcome = None
  BY <1>1, <1>3, <1>4, DispatchStep
<1>6. /\ OnlyActor(w) /\ actor'[w].pc = "wait" /\ actor'[w].tracker = k
      /\ actor'[w].item = i /\ actor'[w].result = None
  BY <1>1, <1>3, <1>4 DEF TypeOK, OnlyActor, Actor
<1>7. TypeOK'
  BY <1>0, <1>3, <1>5, <1>6 DEF Inv, TypeOK, OnlyActor, OnlyThread
<1>8. AnswersMatch' /\ Blocked'
  BY <1>3 DEF Inv, AnswersMatch, Blocked
<1>9. ActorOK(w)'
  BY <1>1, <1>2, <1>3, <1>4, <1>6, Constants DEF ActorOK, At
<1>10. Distinct' /\ \A l \in Lookups : ThreadOK(l)'
  <2>1. \A l \in Lookups : ~Waits(w, l)
    BY <1>3 DEF Waits, At
  <2>2. Waits(w, i)'
    BY <1>6 DEF Waits, At
  <2>3. k # NoTracker
    BY <1>4, Constants
  <2> QED
    BY <1>1, <1>3, <1>4, <1>5, <1>6, <2>1, <2>2, <2>3, KeptOn
<1>11. \A l \in Lookups : LostOK(l)'
  BY <1>3, <1>5 DEF Inv, LostOK, OnlyThread, None, Running
<1>12. PoolOK'
  BY <1>3, <1>6, PoolSame DEF OnlyActor
<1> QED
  BY <1>1, <1>6, <1>7, <1>8, <1>9, <1>10, <1>11, <1>12, OtherActors DEF Inv

LEMMA FinishInv == ASSUME Inv, NEW w \in Workers, Finish(w) PROVE Inv'
<1>1. w \in Actors /\ w \notin Singles /\ TypeOK
  BY Constants DEF Actors, Inv
<1>2. /\ At(w, "next") /\ blocked = NoOne /\ idle' = idle \cup {actor[w].tracker}
      /\ actor' = [actor EXCEPT ![w].pc = "done", ![w].tracker = NoTracker, ![w].item = 0,
                                ![w].result = None]
      /\ UNCHANGED <<building, opened, blocked, todo, answer, thread, cache>>
  BY DEF Finish, Release
<1>3. actor[w].tracker # NoTracker /\ actor[w].tracker \in Trackers
  BY <1>1, <1>2 DEF Inv, TypeOK, ActorOK, At, Actor
<1>4. /\ OnlyActor(w) /\ actor'[w].pc = "done" /\ actor'[w].tracker = NoTracker
      /\ actor'[w].item = 0
  <2> DEFINE r == [actor[w] EXCEPT !.pc = "done", !.tracker = NoTracker, !.item = 0,
                                   !.result = None]
  <2>1. actor' = [actor EXCEPT ![w] = r]
    BY <1>2
  <2>2. r \in Actor /\ r.pc = "done" /\ r.tracker = NoTracker /\ r.item = 0
    BY <1>1 DEF TypeOK, Actor
  <2> HIDE DEF r
  <2> QED
    BY <1>1, <2>1, <2>2 DEF TypeOK, OnlyActor
<1>5. TypeOK'
  BY <1>2, <1>3, <1>4 DEF Inv, TypeOK, OnlyActor
<1>6. AnswersMatch' /\ Blocked'
  BY <1>2 DEF Inv, AnswersMatch, Blocked
<1>7. ActorOK(w)'
  <2>1. 0 \notin Items
    BY Constants
  <2> QED
    BY <1>1, <1>4, <2>1 DEF ActorOK, At
<1>8. Distinct' /\ \A l \in Lookups : ThreadOK(l)'
  BY <1>1, <1>2, <1>3, <1>4, GivenBack DEF Waits, At
<1>9. PoolOK'
  BY <1>1, <1>2, <1>3, <1>4, PoolGives
<1> QED
  BY <1>1, <1>2, <1>4, <1>5, <1>6, <1>7, <1>8, <1>9, SameThreads, OtherActors DEF Inv

\* What forgetting a thread that has ended does to the threads.
LEMMA Forgotten ==
    ASSUME Inv, NEW a \in Actors, At(a, "wait"), Forget(a), UNCHANGED cache
    PROVE  /\ thread' \in [Lookups -> Thread]
           /\ \A l \in Lookups : thread'[l] \in {thread[l], NoThread}
           /\ Ended(a) => \A l \in Lookups : Waits(a, l) => thread'[l] = NoThread
           /\ \A l \in Lookups : LostOK(l)'
<1>1. actor[a].item \in Lookups /\ TypeOK
  BY DEF Inv, ActorOK
<1>2. /\ OnlyThread(actor[a].item)
      /\ IF Ended(a) THEN thread'[actor[a].item] = NoThread ELSE thread' = thread
  BY <1>1, ForgetStep
<1>3. \A l \in Lookups : thread'[l] \in {thread[l], NoThread}
  BY <1>2 DEF OnlyThread
<1>4. \A l \in Lookups : LostOK(l)'
  BY <1>3 DEF Inv, LostOK, NoThread, None, Running
<1> QED
  BY <1>1, <1>2, <1>3, <1>4 DEF TypeOK, OnlyThread, Waits

LEMMA ReceiveItemInv == ASSUME Inv, NEW w \in Actors, ReceiveItem(w) PROVE Inv'
<1> DEFINE i == actor[w].item
<1>1. /\ w \in Workers /\ w \notin Singles /\ TypeOK
      /\ i \in Items /\ i \in Lookups /\ Number(i) \in Numbers
  BY Constants DEF Inv, ReceiveItem, ActorOK, Lookups
<1>2. /\ At(w, "wait") /\ Ended(w) /\ Forget(w) /\ blocked = NoOne
      /\ answer' = [answer EXCEPT ![i] = Number(i)]
      /\ actor' = [actor EXCEPT ![w].pc = "next", ![w].result = Number(i)]
      /\ UNCHANGED <<opened, idle, building, blocked, todo, cache>>
  BY DEF ReceiveItem, Returned, pool
<1>3. /\ thread' \in [Lookups -> Thread]
      /\ \A l \in Lookups : thread'[l] \in {thread[l], NoThread}
      /\ \A l \in Lookups : Waits(w, l) => thread'[l] = NoThread
      /\ \A l \in Lookups : LostOK(l)'
  BY <1>2, Forgotten
<1>4. /\ OnlyActor(w) /\ actor'[w].pc = "next" /\ actor'[w].tracker = actor[w].tracker
      /\ actor'[w].item = i /\ actor'[w].result = Number(i)
  BY <1>1, <1>2 DEF TypeOK, OnlyActor, Actor
<1>5. TypeOK'
  BY <1>1, <1>2, <1>3, <1>4 DEF TypeOK, OnlyActor
<1>6. AnswersMatch'
  BY <1>1, <1>2 DEF Inv, TypeOK, AnswersMatch
<1>7. ActorOK(w)'
  BY <1>1, <1>2, <1>4 DEF Inv, ActorOK, At
<1>8. Distinct' /\ \A l \in Lookups : ThreadOK(l)'
  <2>1. actor[w].tracker # NoTracker
    BY <1>2 DEF Inv, ActorOK, At
  <2>2. \A l \in Lookups : Waits(w, l) => thread'[l].tracker = NoTracker
    BY <1>3 DEF NoThread
  <2> QED
    BY <1>2, <1>3, <1>4, <2>1, <2>2, KeptOn
<1>9. Blocked'
  BY <1>2 DEF Blocked
<1>10. PoolOK'
  BY <1>2, <1>4, PoolSame DEF OnlyActor
<1> QED
  BY <1>3, <1>4, <1>5, <1>6, <1>7, <1>8, <1>9, <1>10, OtherActors DEF Inv

LEMMA FailItemInv == ASSUME Inv, NEW w \in Actors, FailItem(w) PROVE Inv'
<1>1. w \in Workers /\ w \notin Singles /\ TypeOK
  BY Constants DEF Inv, FailItem
<1>2. /\ At(w, "wait") /\ Forget(w) /\ blocked = NoOne
      /\ building' = building + 1
      /\ actor' = [actor EXCEPT ![w].pc = "acquire", ![w].tracker = NoTracker]
      /\ UNCHANGED <<opened, idle, blocked, todo, answer, cache>>
  BY DEF FailItem, Discard
<1>3. /\ thread' \in [Lookups -> Thread]
      /\ \A l \in Lookups : thread'[l] \in {thread[l], NoThread}
      /\ \A l \in Lookups : LostOK(l)'
  BY <1>2, Forgotten
<1>4. /\ OnlyActor(w) /\ actor'[w].pc = "acquire" /\ actor'[w].tracker = NoTracker
      /\ actor'[w].item = actor[w].item /\ actor'[w].result = actor[w].result
  BY <1>1, <1>2 DEF TypeOK, OnlyActor, Actor
<1>5. TypeOK'
  BY <1>1, <1>2, <1>3, <1>4 DEF TypeOK, OnlyActor
<1>6. AnswersMatch' /\ Blocked'
  BY <1>2 DEF Inv, AnswersMatch, Blocked
<1>7. ActorOK(w)'
  BY <1>1, <1>2, <1>4 DEF Inv, ActorOK, At
<1>8. Distinct' /\ \A l \in Lookups : ThreadOK(l)'
  <2>1. actor[w].tracker # NoTracker
    BY <1>2 DEF Inv, ActorOK, At
  <2> QED
    BY <1>2, <1>3, <1>4, <2>1, GivenBack
<1>9. PoolOK'
  <2>1. actor[w].tracker # NoTracker
    BY <1>2 DEF Inv, ActorOK, At
  <2> QED
    BY <1>2, <1>4, <2>1, PoolGives
<1> QED
  BY <1>3, <1>4, <1>5, <1>6, <1>7, <1>8, <1>9, OtherActors DEF Inv

LEMMA EndSingleInv == ASSUME Inv, NEW s \in Actors, EndSingle(s) PROVE Inv'
<1>1. /\ s \in Singles /\ s \in Lookups /\ s \notin Workers /\ TypeOK
      /\ Number(s) \in Numbers
  BY Constants DEF Inv, EndSingle, Lookups
<1>2. /\ At(s, "wait") /\ Forget(s) /\ blocked = NoOne
      /\ (Ended(s) /\ Release(s)) \/ Discard(s)
      /\ answer' = [answer EXCEPT ![s] = IF Returned(s) THEN Number(s) ELSE "error"]
      /\ actor' = [actor EXCEPT ![s].pc = "done", ![s].tracker = NoTracker]
      /\ UNCHANGED <<opened, blocked, todo, cache>>
  BY DEF EndSingle, Returned
<1>3. /\ thread' \in [Lookups -> Thread]
      /\ \A l \in Lookups : thread'[l] \in {thread[l], NoThread}
      /\ Ended(s) => \A l \in Lookups : Waits(s, l) => thread'[l] = NoThread
      /\ \A l \in Lookups : LostOK(l)'
  BY <1>2, Forgotten
<1>4. /\ OnlyActor(s) /\ actor'[s].pc = "done" /\ actor'[s].tracker = NoTracker
      /\ actor'[s].item = actor[s].item
  BY <1>1, <1>2, ZenonT(40) DEF TypeOK, OnlyActor, Actor
<1>5. actor[s].tracker # NoTracker /\ actor[s].tracker \in Trackers
  BY <1>1, <1>2 DEF Inv, TypeOK, ActorOK, At, Actor
<1>6. TypeOK'
  <2>1. idle' \subseteq Trackers /\ building' \in Nat
    BY <1>1, <1>2, <1>5 DEF TypeOK, Release, Discard
  <2> QED
    BY <1>1, <1>2, <1>3, <1>4, <2>1 DEF TypeOK, OnlyActor
<1>7. AnswersMatch' /\ Blocked'
  BY <1>1, <1>2 DEF Inv, TypeOK, AnswersMatch, Blocked
<1>8. ActorOK(s)'
  BY <1>1, <1>2, <1>4 DEF Inv, ActorOK, At
<1>9. Distinct' /\ \A l \in Lookups : ThreadOK(l)'
  <2>1. Ended(s) => \A l \in Lookups : Waits(s, l) => thread'[l].tracker = NoTracker
    BY <1>3 DEF NoThread
  <2> QED
    BY <1>2, <1>3, <1>4, <1>5, <2>1, GivenBack DEF Release, Discard
<1>10. PoolOK'
  BY <1>2, <1>4, <1>5, PoolGives DEF Release, Discard
<1> QED
  BY <1>3, <1>4, <1>6, <1>7, <1>8, <1>9, <1>10, OtherActors DEF Inv

\* A thread, which has nothing to do with the actors.
LEMMA ThreadStepInv ==
    ASSUME Inv, NEW l \in Lookups, OnlyThread(l), UNCHANGED <<pool, todo, actor, answer>>,
           cache' \in [Numbers -> {"none", "fresh", "other"}],
           \A n \in Numbers : cache[n] # "none" => cache'[n] # "none",
           thread'[l].pc \in Running <=> thread'[l].tracker # NoTracker,
           thread'[l].tracker \in {thread[l].tracker, NoTracker}, LostOK(l)'
    PROVE  Inv'
<1>1. TypeOK' /\ AnswersMatch' /\ Blocked'
  BY DEF Inv, TypeOK, AnswersMatch, Blocked, At, OnlyThread, pool
<1>2. \A a \in Actors : ActorOK(a)'
  BY DEF Inv, ActorOK, At
<1>3. Distinct' /\ \A k \in Lookups : ThreadOK(k)'
  BY ThreadMoves DEF pool
<1>4. \A k \in Lookups : LostOK(k)'
  BY Cached DEF OnlyThread
<1>5. PoolOK'
  BY PoolSame DEF pool
<1> QED
  BY <1>1, <1>2, <1>3, <1>4, <1>5 DEF Inv

LEMMA EndThreadInv ==
    ASSUME Inv, NEW l \in Lookups,
           NEW outcome \in {"returned", "raised", "unresolved", "lost"}, EndThread(l, outcome),
           UNCHANGED <<pool, todo, actor, answer>>,
           cache' \in [Numbers -> {"none", "fresh", "other"}],
           \A n \in Numbers : cache[n] # "none" => cache'[n] # "none",
           outcome = "lost" => thread[l].new /\ cache[Number(l)] # "none"
    PROVE  Inv'
<1>1. /\ OnlyThread(l) /\ thread'[l].pc \in {"none", "ended"}
      /\ thread'[l].tracker = NoTracker
      /\ thread'[l].outcome = "lost" => outcome = "lost" /\ thread'[l].new = thread[l].new
  BY EndThreadStep DEF Inv
<1>2. LostOK(l)'
  BY <1>1, Constants DEF LostOK, Running
<1> QED
  BY <1>1, <1>2, ThreadStepInv DEF Running

LEMMA ThreadInv == ASSUME Inv, NEW l \in Lookups, ThreadStep(l) PROVE Inv'
<1>1. TypeOK /\ ThreadOK(l) /\ LostOK(l) /\ Number(l) \in Numbers
  BY Constants DEF Inv
<1>2. ASSUME UNCHANGED cache
      PROVE  /\ cache' \in [Numbers -> {"none", "fresh", "other"}]
             /\ \A n \in Numbers : cache[n] # "none" => cache'[n] # "none"
  BY <1>1, <1>2 DEF TypeOK
<1>3. CASE ReadCache(l)
  <2>1. UNCHANGED <<pool, todo, actor, answer, cache>> /\ thread[l].pc = "cache"
    BY <1>3 DEF ReadCache
  <2>2. CASE EndThread(l, "returned")
    BY <1>2, <2>1, <2>2, EndThreadInv
  <2>3. CASE thread' = [thread EXCEPT ![l].pc = "live", ![l].new = cache[Number(l)] = "none"]
    <3>1. /\ OnlyThread(l) /\ thread'[l].pc = "live"
          /\ thread'[l].tracker = thread[l].tracker /\ thread'[l].outcome = thread[l].outcome
          /\ thread'[l].new = (cache[Number(l)] = "none")
      BY <1>1, <2>3 DEF TypeOK, OnlyThread, Thread, Running
    <3>2. LostOK(l)'
      BY <1>1, <2>1, <3>1 DEF LostOK, Running
    <3> QED
      BY <1>1, <1>2, <2>1, <3>1, <3>2, ThreadStepInv DEF ThreadOK, Running
  <2> QED
    BY <1>3, <2>2, <2>3 DEF ReadCache
<1>4. CASE TrackLive(l)
  <2>1. UNCHANGED <<pool, todo, actor, answer, cache>> /\ thread[l].pc = "live"
    BY <1>4 DEF TrackLive
  <2>2. CASE EndThread(l, "raised") \/ EndThread(l, "unresolved")
    BY <1>2, <2>1, <2>2, EndThreadInv
  <2>3. CASE thread' = [thread EXCEPT ![l].pc = FindRow(Number(l))]
    <3>1. /\ OnlyThread(l) /\ thread'[l].pc = FindRow(Number(l))
          /\ thread'[l].tracker = thread[l].tracker /\ thread'[l].outcome = thread[l].outcome
          /\ thread'[l].new = thread[l].new
      BY <1>1, <2>3 DEF TypeOK, OnlyThread, Thread, Running, FindRow
    <3>2. LostOK(l)'
      BY <1>1, <2>1, <3>1 DEF LostOK, FindRow, Running
    <3> QED
      BY <1>1, <1>2, <2>1, <3>1, <3>2, ThreadStepInv DEF ThreadOK, Running, FindRow
  <2> QED
    BY <1>4, <2>2, <2>3 DEF TrackLive
<1>5. CASE StoreRow(l)
  <2>1. UNCHANGED <<pool, todo, actor, answer>>
    BY <1>5 DEF StoreRow
  <2>2. CASE /\ thread[l].pc = "insert" /\ cache[Number(l)] # "none"
             /\ EndThread(l, "lost") /\ UNCHANGED cache
    BY <1>1, <1>2, <2>1, <2>2, EndThreadInv DEF LostOK
  <2>3. CASE EndThread(l, "returned") /\ cache' = [cache EXCEPT ![Number(l)] = "fresh"]
    <3>1. /\ cache' \in [Numbers -> {"none", "fresh", "other"}]
          /\ \A n \in Numbers : cache[n] # "none" => cache'[n] # "none"
      BY <1>1, <2>3 DEF TypeOK
    <3> QED
      BY <2>1, <2>3, <3>1, EndThreadInv
  <2> QED
    BY <1>5, <2>2, <2>3 DEF StoreRow
<1> QED
  BY <1>3, <1>4, <1>5 DEF ThreadStep

LEMMA CacheInv ==
    ASSUME Inv, cache' \in [Numbers -> {"none", "fresh", "other"}],
           \A n \in Numbers : cache[n] # "none" => cache'[n] # "none",
           UNCHANGED <<pool, todo, actor, answer, thread>>
    PROVE  Inv'
<1>1. TypeOK' /\ AnswersMatch' /\ Blocked'
  BY DEF Inv, TypeOK, AnswersMatch, Blocked, At, pool
<1>2. \A a \in Actors : ActorOK(a)'
  BY DEF Inv, ActorOK, At
<1>3. Distinct' /\ \A k \in Lookups : ThreadOK(k)'
  BY DEF Inv, Distinct, ThreadOK, Waits, At, pool
<1>4. \A k \in Lookups : LostOK(k)'
  BY Cached
<1>5. PoolOK'
  BY PoolSame DEF pool
<1> QED
  BY <1>1, <1>2, <1>3, <1>4, <1>5 DEF Inv

LEMMA NextInv == Inv /\ [Next]_vars => Inv'
<1> SUFFICES ASSUME Inv, [Next]_vars PROVE Inv'
  OBVIOUS
<1>1. ASSUME NEW s \in Singles, StartSingle(s) PROVE Inv'
  BY <1>1, StartSingleInv
<1>2. ASSUME NEW a \in Actors, ActorStep(a) PROVE Inv'
  BY <1>2, ClaimInv, BlockInv, BuildNowInv, ReceiveItemInv, FailItemInv, EndSingleInv,
     NextItemInv, FinishInv DEF ActorStep, Acquire
<1>3. ASSUME NEW l \in Lookups, ThreadStep(l) PROVE Inv'
  BY <1>3, ThreadInv
<1>4. ASSUME NEW n \in Numbers, CacheExpires(n) PROVE Inv'
  <2>1. /\ cache' \in [Numbers -> {"none", "fresh", "other"}]
        /\ \A m \in Numbers : cache[m] # "none" => cache'[m] # "none"
    BY <1>4 DEF Inv, TypeOK, CacheExpires
  <2> QED
    BY <1>4, <2>1, CacheInv DEF CacheExpires
<1>5. CASE UNCHANGED vars
  BY <1>5, CacheInv DEF Inv, TypeOK, vars, pool
<1> QED
  BY <1>1, <1>2, <1>3, <1>4, <1>5, StartBatchInv, BuildOneInv DEF Next

LEMMA Invariance == Spec => []Inv
<1> QED
  BY InitInv, NextInv, PTL DEF Spec

-----------------------------------------------------------------------------
(* The theorems. *)

\* Every variable keeps its type: the pool's queue holds trackers only, and an
\* index of the batch is never out of range.
THEOREM Types == Spec => []TypeOK
<1>1. Inv => TypeOK
  BY DEF Inv
<1> QED
  BY <1>1, Invariance, PTL

\* No number is answered with the result of another one: _worker resets what it
\* remembers before every item.
THEOREM AnswersMatchHolds == Spec => []AnswersMatch
<1>1. Inv => AnswersMatch
  BY DEF Inv
<1> QED
  BY <1>1, Invariance, PTL

\* upsert's IntegrityError loses a result only to the lookup that has stored
\* the first row of the same number.
THEOREM LostOnlyToTwinHolds == Spec => []LostOnlyToTwin
<1>1. Inv => LostOnlyToTwin
  BY DEF Inv, LostOK, LostOnlyToTwin
<1> QED
  BY <1>1, Invariance, PTL

\* GoCometSessionPool: two threads never use one tracker and none that is in
\* use is ready for the next; what is ready, held or being built again is never
\* less than target_size.
THEOREM TrackersAccountedForHolds == Spec => []TrackersAccountedFor
<1>1. Inv => TrackersAccountedFor
  BY DEF Inv, Distinct, ThreadOK, PoolOK, TrackersAccountedFor
<1> QED
  BY <1>1, Invariance, PTL
=============================================================================

-------------------------- MODULE ProviderChain_proofs --------------------------
(***************************************************************************)
(* Theorems about ProviderChain, for every number of lookups, threads,     *)
(* permits and retries.                                                    *)
(***************************************************************************)
EXTENDS ProviderChain, FiniteSetTheorems, SequenceTheorems, TLAPS

-----------------------------------------------------------------------------
(* The inductive invariant. *)

\* The fields of a thread, whatever work it took from the queue.
IsThread(r) == r \in [work : {r.work}, tracker : {r.tracker}, failed : {r.failed}]

Shape ==
    /\ thread = [t \in Threads |-> thread[t]]
    /\ \A t \in Threads : IsThread(thread[t])
    /\ local \in [Threads -> Trackers \cup {NoTracker}]
    /\ NoTracker \notin raised

\* A thread works with the tracker it keeps, or with none of GoComet's.
OwnTracker(t) ==
    /\ thread[t].tracker \in {NoTracker, local[t]}
    /\ Doing(t, "gocomet") => thread[t].tracker # NoTracker

\* A tracker is kept by one thread, and not after an exception in its calls.
Kept ==
    /\ \A t, u \in Threads : t # u /\ local[t] # NoTracker => local[t] # local[u]
    /\ \A t \in Threads : local[t] \notin raised

Inv == Shape /\ Kept /\ \A t \in Threads : OwnTracker(t)

-----------------------------------------------------------------------------
LEMMA NoTrackerIsNone == NoTracker \notin Trackers
  BY ChainAssumption DEF NoTracker

\* A thread without a tracker finds one that nobody has.
LEMMA SomeUnused ==
    ASSUME Inv, NEW t \in Threads, local[t] = NoTracker
    PROVE  Some(Unused) \in Unused
<1> DEFINE Others == Threads \ {t}
           Taken  == {local[u] : u \in Others}
<1>1. Cardinality(Taken) <= Cardinality(Threads) - 1 /\ IsFiniteSet(Taken)
  <2> DEFINE f == [u \in Others |-> local[u]]
  <2>1. f \in Surjection(Others, Taken)
    BY DEF Surjection
  <2>2. IsFiniteSet(Others) /\ Cardinality(Others) = Cardinality(Threads) - 1
    BY ChainAssumption, FS_RemoveElement
  <2> HIDE DEF f, Others, Taken
  <2>3. IsFiniteSet(Taken) /\ Cardinality(Taken) <= Cardinality(Others)
    BY <2>1, <2>2, FS_Surjection
  <2> QED
    BY <2>2, <2>3
<1>2. Unused # {}
  <2> SUFFICES ASSUME Unused = {} PROVE FALSE
    OBVIOUS
  <2>1. Trackers \subseteq Taken
    BY NoTrackerIsNone DEF Unused, Inv, OwnTracker
  <2> HIDE DEF Taken
  <2>2. Cardinality(Trackers) <= Cardinality(Taken)
    BY <1>1, <2>1, FS_Subset
  <2>3. /\ Cardinality(Trackers) \in Nat /\ Cardinality(Threads) \in Nat
        /\ Cardinality(Taken) \in Nat
    BY <1>1, ChainAssumption, FS_CardinalityType
  <2> QED
    BY <1>1, <2>2, <2>3, ChainAssumption
<1> QED
  BY <1>2 DEF Some

LEMMA InitInv == Init => Inv
  BY DEF Init, Inv, Shape, IsThread, Kept, OwnTracker, Doing, Idle, NoWork, None, NoTracker

LEMMA StartInv == ASSUME Inv, NEW t \in Threads, Start(t) PROVE Inv'
<1> DEFINE tracker == IF Head(work).kind = "romeu" THEN NoTracker ELSE GetTracker(t)
<1>1. /\ thread[t] = Idle
      /\ thread' = [thread EXCEPT ![t] = [work |-> Head(work), tracker |-> tracker,
                                          failed |-> 0]]
      /\ local' = [local EXCEPT ![t] = IF tracker = NoTracker THEN @ ELSE tracker]
      /\ raised' = IF tracker \in Unused THEN raised \ {tracker} ELSE raised
  BY DEF Start
<1>2. \/ tracker = NoTracker /\ Head(work).kind = "romeu"
      \/ tracker \in Trackers /\ tracker = local[t]
      \/ tracker \in Unused /\ tracker \in Trackers
  BY SomeUnused DEF GetTracker, Unused, Inv, Shape
<1> HIDE DEF tracker
<1>3. thread'[t] = [work |-> Head(work), tracker |-> tracker, failed |-> 0]
  BY <1>1 DEF Inv, Shape
<1>4. /\ thread' = [u \in Threads |-> thread'[u]]
      /\ \A u \in Threads \ {t} : thread'[u] = thread[u]
  BY <1>1 DEF Inv, Shape
<1>5. /\ local' \in [Threads -> Trackers \cup {NoTracker}]
      /\ local'[t] = IF tracker = NoTracker THEN local[t] ELSE tracker
      /\ \A u \in Threads \ {t} : local'[u] = local[u]
  BY <1>1, <1>2 DEF Inv, Shape
<1>6. Shape'
  BY <1>1, <1>3, <1>4, <1>5 DEF Inv, Shape, IsThread
<1>7. Kept'
  BY <1>1, <1>2, <1>5, NoTrackerIsNone DEF Inv, Shape, Kept, Unused
<1>8. \A u \in Threads : OwnTracker(u)'
  BY <1>2, <1>3, <1>4, <1>5, NoTrackerIsNone DEF Inv, OwnTracker, Doing
<1> QED
  BY <1>6, <1>7, <1>8 DEF Inv

\* A thread goes on with the same work or comes to its end, and may lose its
\* tracker when it ends.
LEMMA ThreadInv ==
    ASSUME Inv, NEW t \in Threads, NEW r,
           thread' = [thread EXCEPT ![t] = r], IsThread(r),
           \/ r.tracker = thread[t].tracker /\ r.work = thread[t].work
           \/ r = Idle,
           \/ UNCHANGED <<local, raised>>
           \/ /\ r = Idle /\ Doing(t, "gocomet")
              /\ local' = [local EXCEPT ![t] = NoTracker]
              /\ raised' = raised \cup {thread[t].tracker}
    PROVE  Inv'
<1>1. /\ thread' = [u \in Threads |-> thread'[u]] /\ thread'[t] = r
      /\ \A u \in Threads \ {t} : thread'[u] = thread[u]
  BY DEF Inv, Shape
<1>2. /\ local' \in [Threads -> Trackers \cup {NoTracker}]
      /\ local'[t] \in {local[t], NoTracker}
      /\ \A u \in Threads \ {t} : local'[u] = local[u]
      /\ NoTracker \notin raised'
  BY DEF Inv, Shape, OwnTracker
<1>3. Shape'
  BY <1>1, <1>2 DEF Inv, Shape
<1>4. Kept'
  BY <1>2 DEF Inv, Shape, Kept, OwnTracker
<1>5. \A u \in Threads : OwnTracker(u)'
  BY <1>1, <1>2 DEF Inv, OwnTracker, Doing, Idle, NoWork, None
<1> QED
  BY <1>3, <1>4, <1>5 DEF Inv

LEMMA NextInv == Inv /\ [Next]_vars => Inv'
<1> SUFFICES ASSUME Inv, [Next]_vars PROVE Inv'
  OBVIOUS
<1>1. IsThread(Idle)
  BY DEF IsThread, Idle
<1>2. CASE UNCHANGED <<thread, local, raised>>
  BY <1>2 DEF Inv, Shape, IsThread, Kept, OwnTracker, Doing
<1>3. ASSUME NEW l \in Lookups, LoopStep(l) \/ Cancel(l) PROVE Inv'
  BY <1>2, <1>3 DEF LoopStep, Begin, RomeuAnswers, Enter, GoCometAnswers, TimeOut, Cancel
<1>4. ASSUME NEW t \in Threads, RomeuRequest(t) PROVE Inv'
  <2>1. CASE thread' = [thread EXCEPT ![t] = Idle]
    BY <1>1, <1>4, <2>1, ThreadInv DEF RomeuRequest
  <2>2. CASE thread' = [thread EXCEPT ![t].failed = @ + 1]
    <3> DEFINE r == [thread[t] EXCEPT !.failed = thread[t].failed + 1]
    <3>1. IsThread(thread[t])
      BY DEF Inv, Shape
    <3>2. thread' = [thread EXCEPT ![t] = r]
      BY <2>2
    <3>3. IsThread(r) /\ r.tracker = thread[t].tracker /\ r.work = thread[t].work
      BY <3>1 DEF IsThread
    <3> HIDE DEF r
    <3> QED
      BY <1>4, <3>2, <3>3, ThreadInv DEF RomeuRequest
  <2> QED
    BY <1>4, <2>1, <2>2 DEF RomeuRequest, Return
<1>5. ASSUME NEW t \in Threads, GoCometCall(t) PROVE Inv'
  BY <1>1, <1>5, ThreadInv DEF GoCometCall, Return
<1>6. ASSUME NEW t \in Threads, Warm(t) PROVE Inv'
  BY <1>1, <1>6, ThreadInv DEF Warm
<1>7. CASE UNCHANGED vars
  BY <1>2, <1>7 DEF vars
<1> QED
  BY <1>3, <1>4, <1>5, <1>6, <1>7, StartInv DEF Next

-----------------------------------------------------------------------------
(* The theorem. *)

\* GoCometHttpProvider._get_tracker keeps the promise of its docstring: no two
\* threads ever work with one tracker, and none with one that has raised.
THEOREM TrackersFitHolds == Spec => []TrackersFit
<1>1. Inv => TrackersFit
  BY DEF Inv, Shape, Kept, OwnTracker, TrackersFit
<1> QED
  BY <1>1, InitInv, NextInv, PTL DEF Spec

-----------------------------------------------------------------------------
(* Work that nobody waits for.  The queue of the executor and the line of  *)
(* the semaphore hold each lookup once, where its pc says that it is; the  *)
(* work that a thread has taken is not in the queue any more.              *)

LookupWork(w) == w.kind \in {"romeu", "gocomet"}
Waits(w)      == At(w.of, w.kind) /\ lookup[w.of].outcome = None

IsLookup == [pc : {"idle", "romeu", "line", "gocomet", "done", "cancelled"},
             outcome : {None, "hit", "miss"}]

Types ==
    /\ lookup \in [Lookups -> IsLookup]
    /\ line \in Seq(Lookups) /\ work \in Seq(Work)
    /\ \A t \in Threads : thread[t].work \in Work \cup {NoWork}

InLine ==
    /\ \A i \in 1..Len(line) : At(line[i], "line")
    /\ \A i, j \in 1..Len(line) : i # j => line[i] # line[j]

InQueue ==
    /\ \A i \in 1..Len(work) : LookupWork(work[i]) => Waits(work[i])
    /\ \A i, j \in 1..Len(work) : i # j /\ LookupWork(work[i]) => work[i] # work[j]

Begun ==
    \A t \in Threads :
        /\ Doing(t, "romeu") => ~At(thread[t].work.of, "idle")
        /\ Doing(t, "gocomet") =>
              lookup[thread[t].work.of].pc \in {"gocomet", "done", "cancelled"}
        /\ \A i \in 1..Len(work) : LookupWork(work[i]) => work[i] # thread[t].work

QueueInv == Inv /\ Types /\ InLine /\ InQueue /\ Begun

\* Sequence w is s without some of its elements.
Drops(w, s) ==
    /\ \A i \in 1..Len(w) : \E k \in 1..Len(s) : w[i] = s[k]
    /\ \A i, j \in 1..Len(w) : i # j =>
          \E k, m \in 1..Len(s) : k # m /\ w[i] = s[k] /\ w[j] = s[m]

LEMMA DropsTail ==
    ASSUME NEW S, NEW s \in Seq(S), s # <<>>
    PROVE  /\ Head(s) = s[1] /\ Len(s) \in Nat \ {0} /\ Tail(s) \in Seq(S)
           /\ \A i \in 1..Len(Tail(s)) : Tail(s)[i] = s[i + 1] /\ i + 1 \in 2..Len(s)
           /\ Drops(Tail(s), s)
<1>1. /\ Tail(s) \in Seq(S) /\ Len(Tail(s)) = Len(s) - 1
      /\ \A i \in 1..Len(Tail(s)) : Tail(s)[i] = s[i + 1]
  BY HeadTailProperties
<1>2. Len(s) \in Nat \ {0} /\ Head(s) = s[1]
  BY EmptySeq
<1>3. \A i \in 1..Len(Tail(s)) : i + 1 \in 2..Len(s) /\ i + 1 \in 1..Len(s)
  BY <1>1, <1>2
<1> QED
  BY <1>1, <1>2, <1>3 DEF Drops

LEMMA DropsWithout ==
    ASSUME NEW S, NEW s \in Seq(S), NEW xs
    PROVE  /\ Without(s, xs) \in Seq(S) /\ Drops(Without(s, xs), s)
           /\ (\A i, j \in 1..Len(s) : s[i] \in xs /\ s[j] \in xs => i = j)
              => \A i \in 1..Len(Without(s, xs)) : Without(s, xs)[i] \notin xs
<1> DEFINE w == Without(s, xs)
<1>1. CASE ~\E i \in 1..Len(s) : s[i] \in xs
  <2>1. w = s
    BY <1>1 DEF Without
  <2> QED
    BY <1>1, <2>1 DEF Drops
<1>2. CASE \E i \in 1..Len(s) : s[i] \in xs
  <2> DEFINE at == CHOOSE i \in 1..Len(s) : s[i] \in xs
             a  == SubSeq(s, 1, at - 1)
             b  == SubSeq(s, at + 1, Len(s))
  <2>1. at \in 1..Len(s) /\ s[at] \in xs
    BY <1>2
  <2>2. w = a \o b
    BY <1>2 DEF Without
  <2>3. Len(s) \in Nat /\ \A i \in 1..Len(s) : s[i] \in S
    BY LenProperties, ElementOfSeq
  <2> HIDE DEF at
  <2>4. /\ a \in Seq(S) /\ Len(a) = at - 1
        /\ \A i \in 1..(at - 1) : a[i] = s[i]
    <3>1. 1 \in Int /\ at - 1 \in Int /\ \A i \in 1..(at - 1) : s[i] \in S
      BY <2>1, <2>3
    <3>2. /\ a \in Seq(S) /\ Len(a) = IF 1 <= at - 1 THEN at - 1 - 1 + 1 ELSE 0
          /\ \A i \in 1..(at - 1 - 1 + 1) : a[i] = s[1 + i - 1]
      BY <3>1, SubSeqProperties
    <3> QED
      BY <2>1, <2>3, <3>2
  <2>5. /\ b \in Seq(S) /\ Len(b) = Len(s) - at
        /\ \A i \in 1..(Len(s) - at) : b[i] = s[at + i]
    <3>1. at + 1 \in Int /\ Len(s) \in Int /\ \A i \in (at + 1)..Len(s) : s[i] \in S
      BY <2>1, <2>3
    <3>2. /\ b \in Seq(S)
          /\ Len(b) = IF at + 1 <= Len(s) THEN Len(s) - (at + 1) + 1 ELSE 0
          /\ \A i \in 1..(Len(s) - (at + 1) + 1) : b[i] = s[at + 1 + i - 1]
      BY <3>1, SubSeqProperties
    <3> QED
      BY <2>1, <2>3, <3>2
  <2> HIDE DEF a, b, w
  <2>6. /\ w \in Seq(S) /\ Len(w) = Len(s) - 1
        /\ \A i \in 1..Len(w) : w[i] = IF i < at THEN s[i] ELSE s[i + 1]
    <3>1. /\ w \in Seq(S) /\ Len(w) = Len(a) + Len(b)
          /\ \A i \in 1..(Len(a) + Len(b)) : w[i] = IF i <= Len(a) THEN a[i] ELSE b[i - Len(a)]
      BY <2>2, <2>4, <2>5, ConcatProperties
    <3>2. Len(w) = Len(s) - 1
      BY <2>1, <2>3, <2>4, <2>5, <3>1
    <3>3. ASSUME NEW i \in 1..Len(w) PROVE w[i] = IF i < at THEN s[i] ELSE s[i + 1]
      <4>1. w[i] = IF i <= at - 1 THEN a[i] ELSE b[i - (at - 1)]
        BY <2>4, <3>1, <3>3
      <4>2. CASE i < at
        BY <2>1, <2>3, <2>4, <3>2, <4>1, <4>2
      <4>3. CASE ~(i < at)
        <5>1. i - (at - 1) \in 1..(Len(s) - at) /\ at + (i - (at - 1)) = i + 1
          BY <2>1, <2>3, <3>2, <4>3
        <5> QED
          BY <2>1, <2>3, <2>5, <4>1, <4>3, <5>1
      <4> QED
        BY <4>2, <4>3
    <3> QED
      BY <3>1, <3>2, <3>3
  <2> DEFINE old(i) == IF i < at THEN i ELSE i + 1
  <2>7. ASSUME NEW i \in 1..Len(w)
        PROVE  old(i) \in 1..Len(s) /\ old(i) # at /\ w[i] = s[old(i)]
    BY <2>1, <2>3, <2>6
  <2>8. \A i, j \in 1..Len(w) : i # j => old(i) # old(j)
    BY <2>1, <2>3, <2>6
  <2> HIDE DEF old
  <2>9. Drops(w, s)
    <3>1. ASSUME NEW i \in 1..Len(w), NEW j \in 1..Len(w), i # j
          PROVE  \E k, m \in 1..Len(s) : k # m /\ w[i] = s[k] /\ w[j] = s[m]
      BY <2>7, <2>8, <3>1
    <3>2. \A i \in 1..Len(w) : \E k \in 1..Len(s) : w[i] = s[k]
      BY <2>7
    <3> QED
      BY <3>1, <3>2 DEF Drops
  <2>10. (\A i, j \in 1..Len(s) : s[i] \in xs /\ s[j] \in xs => i = j)
         => \A i \in 1..Len(w) : w[i] \notin xs
    BY <2>1, <2>7
  <2> QED
    BY <2>6, <2>9, <2>10 DEF w
<1> QED
  BY <1>1, <1>2

LEMMA AppendFacts ==
    ASSUME NEW S, NEW s \in Seq(S), NEW e \in S
    PROVE  /\ Append(s, e) \in Seq(S) /\ Len(s) \in Nat /\ Len(Append(s, e)) = Len(s) + 1
           /\ \A i \in 1..Len(s) : Append(s, e)[i] = s[i]
           /\ Append(s, e)[Len(s) + 1] = e
  BY AppendProperties, LenProperties

LEMMA WorkIs ==
    ASSUME NEW w \in Work, LookupWork(w)
    PROVE  w.of \in Lookups /\ w \in {Romeu(w.of), GoComet(w.of)}
  BY DEF Work, LookupWork, Romeu, GoComet

LEMMA WorkOfLookups ==
    ASSUME NEW l \in Lookups
    PROVE  /\ Romeu(l) \in Work /\ GoComet(l) \in Work /\ Romeu(l) # GoComet(l)
           /\ Romeu(l).kind = "romeu" /\ GoComet(l).kind = "gocomet"
           /\ Romeu(l).of = l /\ GoComet(l).of = l
           /\ LookupWork(Romeu(l)) /\ LookupWork(GoComet(l))
  BY DEF Work, LookupWork, Romeu, GoComet

LEMMA GoFacts ==
    ASSUME Types, NEW l \in Lookups,
           NEW pc \in {"romeu", "line", "gocomet", "done", "cancelled"}, Go(l, pc)
    PROVE  /\ lookup' \in [Lookups -> IsLookup]
           /\ lookup'[l].pc = pc /\ lookup'[l].outcome = None
           /\ \A m \in Lookups \ {l} : lookup'[m] = lookup[m]
<1> DEFINE r == [pc |-> pc, outcome |-> None]
<1>1. r \in IsLookup /\ r.pc = pc /\ r.outcome = None
  BY DEF IsLookup
<1>2. lookup' = [lookup EXCEPT ![l] = r]
  BY DEF Go
<1> HIDE DEF r
<1> QED
  BY <1>1, <1>2 DEF Types

\* Lookup l leaves the line, or joins it.
LEMMA LineLeft ==
    ASSUME Types, InLine, NEW l \in Lookups, \A m \in Lookups \ {l} : lookup'[m] = lookup[m],
           line' \in Seq(Lookups), Drops(line', line), \A i \in 1..Len(line') : line'[i] # l
    PROVE  InLine'
<1>1. \A i \in 1..Len(line') : line'[i] \in Lookups
  BY ElementOfSeq
<1>2. \A i \in 1..Len(line') : lookup'[line'[i]] = lookup[line'[i]]
  BY <1>1
<1>3. ASSUME NEW i \in 1..Len(line') PROVE lookup[line'[i]].pc = "line"
  <2>1. PICK k \in 1..Len(line) : line'[i] = line[k]
    BY DEF Drops
  <2>2. lookup[line[k]].pc = "line"
    BY DEF InLine, At
  <2> QED
    BY <2>1, <2>2
<1>4. \A i, j \in 1..Len(line') : i # j => line'[i] # line'[j]
  BY DEF InLine, Drops
<1> QED
  BY <1>2, <1>3, <1>4 DEF InLine, At

LEMMA LineJoined ==
    ASSUME Types, InLine, NEW l \in Lookups, \A m \in Lookups \ {l} : lookup'[m] = lookup[m],
           ~At(l, "line"), lookup'[l].pc = "line", line' = Append(line, l)
    PROVE  InLine' /\ line' \in Seq(Lookups)
<1>1. /\ line' \in Seq(Lookups) /\ Len(line) \in Nat /\ Len(line') = Len(line) + 1
      /\ \A i \in 1..Len(line) : line'[i] = line[i]
      /\ line'[Len(line) + 1] = l
  BY AppendFacts DEF Types
<1>2. \A i \in 1..Len(line) : line[i] \in Lookups /\ line[i] # l
  BY ElementOfSeq DEF Types, InLine
<1>3. \A i \in 1..Len(line') : i \in 1..Len(line) \/ i = Len(line) + 1
  BY <1>1
<1>4. \A i \in 1..Len(line') : lookup'[line'[i]].pc = "line"
  BY <1>1, <1>2, <1>3 DEF InLine, At
<1>5. \A i, j \in 1..Len(line') : i # j => line'[i] # line'[j]
  BY <1>1, <1>2, <1>3 DEF InLine
<1> QED
  BY <1>1, <1>4, <1>5 DEF InLine, At

\* A lookup that has not asked a provider, or has got its answer, has nothing
\* in the queue.
LEMMA NothingQueued ==
    ASSUME Types, InQueue, NEW l \in Lookups,
           lookup[l].outcome # None \/ (~At(l, "romeu") /\ ~At(l, "gocomet"))
    PROVE  \A i \in 1..Len(work) : work[i] \notin {Romeu(l), GoComet(l)}
  BY WorkOfLookups DEF InQueue, Waits

\* Lookup l has nothing in the queue any more.
LEMMA QueueLeft ==
    ASSUME QueueInv, NEW l \in Lookups, \A m \in Lookups \ {l} : lookup'[m] = lookup[m],
           work' \in Seq(Work), Drops(work', work),
           \A i \in 1..Len(work') : work'[i] \notin {Romeu(l), GoComet(l)},
           thread' = thread,
           lookup'[l].pc # "idle",
           lookup[l].pc \in {"gocomet", "done", "cancelled"}
              => lookup'[l].pc \in {"gocomet", "done", "cancelled"}
    PROVE  InQueue' /\ Begun'
<1>1. \A i \in 1..Len(work') : LookupWork(work'[i]) => work'[i].of \in Lookups \ {l}
  BY ElementOfSeq, WorkIs
<1>2. InQueue'
  <2>1. \A i \in 1..Len(work') : LookupWork(work'[i]) =>
           /\ lookup[work'[i].of].pc = work'[i].kind
           /\ lookup[work'[i].of].outcome = None
    <3> TAKE i \in 1..Len(work')
    <3>1. PICK k \in 1..Len(work) : work'[i] = work[k]
      BY DEF Drops
    <3>2. LookupWork(work[k]) => Waits(work[k])
      BY <3>1 DEF QueueInv, InQueue
    <3> QED
      BY <3>1, <3>2 DEF Waits, At
  <2>2. \A i \in 1..Len(work') : LookupWork(work'[i]) => Waits(work[i])'
    BY <1>1, <2>1 DEF Waits, At
  <2>3. \A i, j \in 1..Len(work') : i # j /\ LookupWork(work'[i]) => work'[i] # work'[j]
    BY DEF QueueInv, InQueue, Drops
  <2> QED
    BY <2>2, <2>3 DEF InQueue
<1>3. \A t \in Threads, i \in 1..Len(work') :
         LookupWork(work'[i]) => work'[i] # thread'[t].work
  BY DEF QueueInv, Begun, Drops
<1>4. ASSUME NEW t \in Threads
      PROVE  /\ Doing(t, "romeu") => lookup'[thread[t].work.of].pc # "idle"
             /\ Doing(t, "gocomet") =>
                   lookup'[thread[t].work.of].pc \in {"gocomet", "done", "cancelled"}
  <2>1. Doing(t, "romeu") \/ Doing(t, "gocomet") => thread[t].work.of \in Lookups
    BY WorkIs DEF QueueInv, Types, Doing, NoWork, LookupWork
  <2> QED
    BY <2>1 DEF QueueInv, Begun, At
<1> QED
  BY <1>2, <1>3, <1>4 DEF Begun, Doing, At

\* Lookup l puts work w into the queue and waits for it.
LEMMA QueueJoined ==
    ASSUME QueueInv, NEW l \in Lookups, \A m \in Lookups \ {l} : lookup'[m] = lookup[m],
           NEW w \in {Romeu(l), GoComet(l)}, work' = Append(work, w), thread' = thread,
           lookup'[l].pc = w.kind, lookup'[l].outcome = None,
           IF w = Romeu(l) THEN At(l, "idle") ELSE At(l, "line")
    PROVE  InQueue' /\ Begun' /\ work' \in Seq(Work)
<1>1. /\ w \in Work /\ LookupWork(w) /\ w.of = l /\ w.kind \in {"romeu", "gocomet"}
      /\ w = Romeu(l) <=> w.kind = "romeu"
  BY WorkOfLookups
<1>2. /\ work' \in Seq(Work) /\ Len(work) \in Nat /\ Len(work') = Len(work) + 1
      /\ \A i \in 1..Len(work) : work'[i] = work[i]
      /\ work'[Len(work) + 1] = w
  BY <1>1, AppendFacts DEF QueueInv, Types
<1>3. \A i \in 1..Len(work') : i \in 1..Len(work) \/ i = Len(work) + 1
  BY <1>2
<1>4. ~At(l, "romeu") /\ ~At(l, "gocomet")
  BY DEF At
<1>5. \A i \in 1..Len(work) : work[i] \notin {Romeu(l), GoComet(l)}
  BY <1>4, NothingQueued DEF QueueInv
<1>6. \A i \in 1..Len(work) : LookupWork(work[i]) => work[i].of \in Lookups \ {l}
  BY <1>5, ElementOfSeq, WorkIs DEF QueueInv, Types
<1>7. \A i \in 1..Len(work') : LookupWork(work'[i]) => Waits(work[i])'
  <2>1. \A i \in 1..Len(work) : LookupWork(work[i]) =>
           /\ lookup'[work[i].of] = lookup[work[i].of]
           /\ lookup[work[i].of].pc = work[i].kind
           /\ lookup[work[i].of].outcome = None
    BY <1>6 DEF QueueInv, InQueue, Waits, At
  <2>2. \A i \in 1..Len(work') : LookupWork(work'[i]) =>
           /\ lookup'[work'[i].of].pc = work'[i].kind
           /\ lookup'[work'[i].of].outcome = None
    BY <1>1, <1>2, <1>3, <2>1
  <2> QED
    BY <2>2 DEF Waits, At
<1>8. \A i, j \in 1..Len(work') : i # j /\ LookupWork(work'[i]) => work'[i] # work'[j]
  BY <1>1, <1>2, <1>3, <1>5 DEF QueueInv, InQueue
<1>9. ASSUME NEW t \in Threads
      PROVE  /\ Doing(t, "romeu") => lookup'[thread[t].work.of].pc # "idle"
             /\ Doing(t, "gocomet") =>
                   lookup'[thread[t].work.of].pc \in {"gocomet", "done", "cancelled"}
             /\ thread[t].work # w
  <2>1. Doing(t, "romeu") \/ Doing(t, "gocomet") => thread[t].work.of \in Lookups
    BY WorkIs DEF QueueInv, Types, Doing, NoWork, LookupWork
  <2>2. thread[t].work # w
    BY <1>1 DEF QueueInv, Begun, Doing, At
  <2> QED
    BY <1>1, <2>1, <2>2 DEF QueueInv, Begun, At
<1>10. \A t \in Threads, i \in 1..Len(work') :
          LookupWork(work'[i]) => work'[i] # thread'[t].work
  BY <1>2, <1>3, <1>9 DEF QueueInv, Begun
<1>11. InQueue'
  BY <1>7, <1>8 DEF InQueue
<1> QED
  BY <1>2, <1>9, <1>10, <1>11 DEF Begun, Doing, At

LEMMA Withdrawn ==
    ASSUME QueueInv, NEW l \in Lookups, Withdraw(l)
    PROVE  /\ work' \in Seq(Work) /\ Drops(work', work)
           /\ \A i \in 1..Len(work') : work'[i] \notin {Romeu(l), GoComet(l)}
<1>1. ASSUME NEW i \in 1..Len(work), NEW j \in 1..Len(work),
             work[i] \in {Romeu(l), GoComet(l)}, work[j] \in {Romeu(l), GoComet(l)}
      PROVE  i = j
  <2>1. /\ LookupWork(work[i]) /\ lookup[l].pc = work[i].kind
        /\ LookupWork(work[j]) /\ lookup[l].pc = work[j].kind
    BY <1>1, WorkOfLookups DEF QueueInv, InQueue, Waits, At
  <2>2. work[i] = work[j]
    BY <1>1, <2>1, WorkOfLookups, ZenonT(40)
  <2> QED
    BY <2>1, <2>2 DEF QueueInv, InQueue
<1>2. work \in Seq(Work) /\ work' = Without(work, {Romeu(l), GoComet(l)})
  BY DEF QueueInv, Types, Withdraw
<1> QED
  BY <1>1, <1>2, DropsWithout

LEMMA LeavesLine ==
    ASSUME QueueInv, NEW l \in Lookups, line' = Without(line, {l})
    PROVE  /\ line' \in Seq(Lookups) /\ Drops(line', line)
           /\ \A i \in 1..Len(line') : line'[i] # l
<1>1. line \in Seq(Lookups)
      /\ \A i, j \in 1..Len(line) : line[i] \in {l} /\ line[j] \in {l} => i = j
  BY DEF QueueInv, Types, InLine
<1> QED
  BY <1>1, DropsWithout

LEMMA QueueLoop ==
    ASSUME QueueInv, NEW l \in Lookups, LoopStep(l) \/ Cancel(l)
    PROVE  Types' /\ InLine' /\ InQueue' /\ Begun'
<1>t. Types /\ InLine /\ InQueue
  BY DEF QueueInv
<1>1. thread' = thread
  BY DEF LoopStep, Begin, RomeuAnswers, Enter, GoCometAnswers, TimeOut, Cancel
<1>2. ASSUME NEW pc \in {"romeu", "line", "gocomet", "done", "cancelled"}, Go(l, pc),
             line' \in Seq(Lookups), work' \in Seq(Work)
      PROVE  Types'
  BY <1>t, <1>1, <1>2, GoFacts DEF Types
<1>3. line \in Seq(Lookups) /\ work \in Seq(Work) /\ Drops(line, line) /\ Drops(work, work)
  BY <1>t DEF Types, Drops
<1>4. ASSUME NEW pc \in {"romeu", "line", "gocomet", "done", "cancelled"}, Go(l, pc),
             ~At(l, "line"), UNCHANGED line
      PROVE  InLine'
  <2>1. \A i \in 1..Len(line) : line[i] # l
    BY <1>t, <1>4 DEF InLine
  <2> QED
    BY <1>t, <1>3, <1>4, <2>1, GoFacts, LineLeft
<1>5. ASSUME Go(l, "line"), ~At(l, "line"), line' = Append(line, l)
      PROVE  InLine' /\ line' \in Seq(Lookups)
  BY <1>t, <1>5, GoFacts, LineJoined
<1>6. ASSUME NEW pc \in {"romeu", "line", "gocomet", "done", "cancelled"}, Go(l, pc),
             work' \in Seq(Work), Drops(work', work),
             \A i \in 1..Len(work') : work'[i] \notin {Romeu(l), GoComet(l)},
             pc \in {"done", "cancelled"} \/ lookup[l].pc \in {"idle", "romeu"}
      PROVE  InQueue' /\ Begun'
  BY <1>t, <1>1, <1>6, GoFacts, QueueLeft
<1>7. CASE Begin(l)
  <2>1. At(l, "idle") /\ ~At(l, "line") /\ ~At(l, "romeu") /\ ~At(l, "gocomet")
    BY <1>7 DEF Begin, At
  <2>2. CASE l \in Romu
    <3>1. Go(l, "romeu") /\ work' = Append(work, Romeu(l)) /\ UNCHANGED line
      BY <1>7, <2>2 DEF Begin
    <3>2. InQueue' /\ Begun' /\ work' \in Seq(Work)
      BY <1>t, <1>1, <2>1, <3>1, GoFacts, QueueJoined, WorkOfLookups
    <3> QED
      BY <1>2, <1>3, <1>4, <2>1, <3>1, <3>2
  <2>3. CASE l \notin Romu
    <3>1. Go(l, "line") /\ line' = Append(line, l) /\ UNCHANGED work
      BY <1>7, <2>3 DEF Begin
    <3>2. \A i \in 1..Len(work) : work[i] \notin {Romeu(l), GoComet(l)}
      BY <1>t, <2>1, NothingQueued
    <3>3. InQueue' /\ Begun'
      BY <1>3, <1>6, <2>1, <3>1, <3>2 DEF At
    <3> QED
      BY <1>2, <1>3, <1>5, <2>1, <3>1, <3>3
  <2> QED
    BY <2>2, <2>3
<1>8. CASE RomeuAnswers(l)
  <2>1. /\ At(l, "romeu") /\ ~At(l, "line") /\ lookup[l].outcome # None /\ UNCHANGED work
        /\ \/ Go(l, "done") /\ UNCHANGED line
           \/ Go(l, "line") /\ line' = Append(line, l)
    BY <1>8 DEF RomeuAnswers, At
  <2>2. \A i \in 1..Len(work) : work[i] \notin {Romeu(l), GoComet(l)}
    BY <1>t, <2>1, NothingQueued
  <2>3. CASE Go(l, "done") /\ UNCHANGED line
    <3>1. InQueue' /\ Begun'
      BY <1>3, <1>6, <2>1, <2>2, <2>3
    <3> QED
      BY <1>2, <1>3, <1>4, <2>1, <2>3, <3>1
  <2>4. CASE Go(l, "line") /\ line' = Append(line, l)
    <3>1. InQueue' /\ Begun'
      BY <1>3, <1>6, <2>1, <2>2, <2>4 DEF At
    <3> QED
      BY <1>2, <1>3, <1>5, <2>1, <2>4, <3>1
  <2> QED
    BY <2>1, <2>3, <2>4
<1>9. CASE Enter(l)
  <2>1. /\ line # <<>> /\ l = Head(line) /\ line' = Tail(line)
        /\ Go(l, "gocomet") /\ work' = Append(work, GoComet(l))
    BY <1>9 DEF Enter
  <2>2. /\ line' \in Seq(Lookups) /\ Drops(line', line) /\ l = line[1] /\ 1 \in 1..Len(line)
        /\ \A i \in 1..Len(line') : line'[i] = line[i + 1] /\ i + 1 \in 2..Len(line)
    BY <1>3, <2>1, DropsTail
  <2>3. At(l, "line") /\ \A i \in 1..Len(line') : line'[i] # l
    BY <1>t, <2>2 DEF InLine
  <2>4. InLine'
    BY <1>t, <2>1, <2>2, <2>3, GoFacts, LineLeft
  <2>5. InQueue' /\ Begun' /\ work' \in Seq(Work)
    BY <1>t, <1>1, <2>1, <2>3, GoFacts, QueueJoined, WorkOfLookups
  <2> QED
    BY <1>2, <2>1, <2>2, <2>4, <2>5
<1>10. CASE GoCometAnswers(l)
  <2>1. /\ At(l, "gocomet") /\ ~At(l, "line") /\ lookup[l].outcome # None
        /\ Go(l, "done") /\ UNCHANGED <<line, work>>
    BY <1>10 DEF GoCometAnswers, At
  <2>2. \A i \in 1..Len(work) : work[i] \notin {Romeu(l), GoComet(l)}
    BY <1>t, <2>1, NothingQueued
  <2>3. InQueue' /\ Begun'
    BY <1>3, <1>6, <2>1, <2>2
  <2> QED
    BY <1>2, <1>3, <1>4, <2>1, <2>3
<1>11. CASE TimeOut(l)
  <2>1. ~At(l, "line") /\ Go(l, "done") /\ Withdraw(l) /\ UNCHANGED line
    BY <1>11 DEF TimeOut, At
  <2>2. InQueue' /\ Begun' /\ work' \in Seq(Work)
    BY <1>6, <2>1, Withdrawn
  <2> QED
    BY <1>2, <1>3, <1>4, <2>1, <2>2
<1>12. CASE Cancel(l)
  <2>1. Go(l, "cancelled") /\ Withdraw(l) /\ line' = Without(line, {l})
    BY <1>12 DEF Cancel
  <2>2. InQueue' /\ Begun' /\ work' \in Seq(Work)
    BY <1>6, <2>1, Withdrawn
  <2>3. line' \in Seq(Lookups) /\ InLine'
    BY <1>t, <2>1, GoFacts, LeavesLine, LineLeft
  <2> QED
    BY <1>2, <2>1, <2>2, <2>3
<1> QED
  BY <1>7, <1>8, <1>9, <1>10, <1>11, <1>12 DEF LoopStep

\* A free thread takes the oldest work.
LEMMA QueueStarts ==
    ASSUME QueueInv, NEW t \in Threads, Start(t)
    PROVE  Types' /\ InLine' /\ InQueue' /\ Begun'
<1>t. Types /\ InLine /\ InQueue /\ Begun /\ Shape
  BY DEF QueueInv, Inv
<1>1. work # <<>> /\ work' = Tail(work) /\ UNCHANGED <<lookup, line>>
  BY DEF Start
<1>2. /\ work' \in Seq(Work) /\ Drops(work', work)
      /\ Head(work) = work[1] /\ 1 \in 1..Len(work)
      /\ \A i \in 1..Len(work') : work'[i] = work[i + 1] /\ i + 1 \in 2..Len(work)
  BY <1>1, <1>t, DropsTail DEF Types
<1>3. work[1] \in Work /\ (LookupWork(work[1]) => Waits(work[1]))
  BY <1>t, <1>2, ElementOfSeq DEF Types, InQueue
<1>4. /\ thread'[t].work = work[1]
      /\ \A u \in Threads \ {t} : thread'[u] = thread[u]
  BY <1>t, <1>2 DEF Start, Shape
<1>5. Types'
  BY <1>t, <1>1, <1>2, <1>4, ElementOfSeq DEF Types
<1>6. InLine' /\ InQueue'
  BY <1>t, <1>1, <1>2, SMTT(30) DEF InLine, InQueue, Drops, Waits, At
<1>7. \A u \in Threads, i \in 1..Len(work') :
         LookupWork(work'[i]) => work'[i] # thread'[u].work
  <2>1. \A i \in 1..Len(work') : LookupWork(work'[i]) => work'[i] # work[1]
    BY <1>t, <1>2 DEF InQueue
  <2>2. \A u \in Threads, i \in 1..Len(work') :
           LookupWork(work'[i]) => work'[i] # thread[u].work
    BY <1>t, <1>2 DEF Begun, Drops
  <2> QED
    BY <1>4, <2>1, <2>2
<1>8. ASSUME NEW u \in Threads
      PROVE  /\ thread'[u].work.kind = "romeu" => lookup[thread'[u].work.of].pc # "idle"
             /\ thread'[u].work.kind = "gocomet" =>
                   lookup[thread'[u].work.of].pc \in {"gocomet", "done", "cancelled"}
  <2>1. CASE u = t
    BY <1>3, <1>4, <2>1 DEF LookupWork, Waits, At
  <2>2. CASE u # t
    BY <1>t, <1>4, <2>2 DEF Begun, Doing, At
  <2> QED
    BY <2>1, <2>2
<1> QED
  BY <1>1, <1>5, <1>6, <1>7, <1>8 DEF Begun, Doing, At

\* A thread goes on or ends, and its lookup may hear of the outcome.
LEMMA QueueThread ==
    ASSUME QueueInv, NEW t \in Threads, RomeuRequest(t) \/ GoCometCall(t) \/ Warm(t)
    PROVE  Types' /\ InLine' /\ InQueue' /\ Begun'
<1>t. Types /\ InLine /\ InQueue /\ Begun /\ Shape
  BY DEF QueueInv, Inv
<1>1. UNCHANGED <<line, work>>
  BY DEF RomeuRequest, GoCometCall, Warm
<1>2. /\ \/ thread' = [thread EXCEPT ![t] = Idle]
         \/ thread' = [thread EXCEPT ![t] = [thread[t] EXCEPT !.failed = @ + 1]]
      /\ \/ lookup' = lookup
         \/ \E outcome \in {"hit", "miss"} :
               /\ Doing(t, "romeu") \/ Doing(t, "gocomet")
               /\ At(thread[t].work.of, thread[t].work.kind)
               /\ lookup' = [lookup EXCEPT ![thread[t].work.of].outcome = outcome]
  BY DEF RomeuRequest, GoCometCall, Warm, Return
<1>3. \A u \in Threads : thread'[u].work \in {thread[u].work, NoWork}
  <2>1. IsThread(thread[t])
    BY <1>t DEF Shape
  <2>2. [thread[t] EXCEPT !.failed = @ + 1].work = thread[t].work
    BY <2>1 DEF IsThread
  <2>3. CASE thread' = [thread EXCEPT ![t] = Idle]
    BY <1>t, <2>3 DEF Shape, Idle
  <2>4. CASE thread' = [thread EXCEPT ![t] = [thread[t] EXCEPT !.failed = @ + 1]]
    <3> DEFINE r == [thread[t] EXCEPT !.failed = @ + 1]
    <3>1. thread' = [thread EXCEPT ![t] = r] /\ r.work = thread[t].work
      BY <2>2, <2>4
    <3> HIDE DEF r
    <3> QED
      BY <1>t, <3>1 DEF Shape
  <2> QED
    BY <1>2, <2>3, <2>4
<1>4. /\ lookup' \in [Lookups -> IsLookup]
      /\ \A l \in Lookups : lookup'[l].pc = lookup[l].pc
      /\ \A l \in Lookups : lookup'[l] # lookup[l] =>
            l = thread[t].work.of /\ LookupWork(thread[t].work) /\ At(l, thread[t].work.kind)
  <2>1. CASE lookup' = lookup
    BY <1>t, <2>1 DEF Types
  <2>2. ASSUME NEW outcome \in {"hit", "miss"}, Doing(t, "romeu") \/ Doing(t, "gocomet"),
               At(thread[t].work.of, thread[t].work.kind),
               lookup' = [lookup EXCEPT ![thread[t].work.of].outcome = outcome]
        PROVE  <1>4
    <3> DEFINE l == thread[t].work.of
               r == [lookup[l] EXCEPT !.outcome = outcome]
    <3>1. l \in Lookups /\ LookupWork(thread[t].work)
      BY <1>t, <2>2, WorkIs DEF Types, Doing, LookupWork, NoWork
    <3>2. lookup[l] \in IsLookup
      BY <1>t, <3>1 DEF Types
    <3>3. r \in IsLookup /\ r.pc = lookup[l].pc
      BY <3>2 DEF IsLookup
    <3>4. lookup' = [lookup EXCEPT ![l] = r] /\ At(l, thread[t].work.kind)
      BY <2>2
    <3> HIDE DEF r
    <3>5. /\ lookup' \in [Lookups -> IsLookup]
          /\ lookup'[l] = r /\ \A m \in Lookups \ {l} : lookup'[m] = lookup[m]
      BY <1>t, <3>1, <3>3, <3>4 DEF Types
    <3> QED
      BY <3>1, <3>3, <3>4, <3>5
  <2> QED
    BY <1>2, <2>1, <2>2
<1>5. Types'
  BY <1>t, <1>1, <1>3, <1>4 DEF Types
<1>6. InLine'
  BY <1>t, <1>1, <1>4, ElementOfSeq DEF InLine, At, Types
<1>7. InQueue'
  <2>1. ASSUME NEW i \in 1..Len(work), LookupWork(work[i]) PROVE Waits(work[i])'
    <3>1. work[i].of \in Lookups /\ Waits(work[i]) /\ work[i] # thread[t].work
      BY <1>t, <2>1, ElementOfSeq, WorkIs DEF Types, InQueue, Begun
    <3>2. lookup'[work[i].of] = lookup[work[i].of]
      <4> SUFFICES ASSUME lookup'[work[i].of] # lookup[work[i].of] PROVE FALSE
        OBVIOUS
      <4>1. /\ work[i].of = thread[t].work.of /\ LookupWork(thread[t].work)
            /\ work[i].kind = thread[t].work.kind
        BY <1>4, <3>1 DEF Waits, At
      <4>2. thread[t].work \in Work /\ work[i] \in Work
        BY <1>t, <4>1, ElementOfSeq DEF Types, LookupWork, NoWork
      <4>3. thread[t].work = work[i]
        BY <2>1, <4>1, <4>2, WorkIs, WorkOfLookups
      <4> QED
        BY <3>1, <4>3
    <3> QED
      BY <1>1, <3>1, <3>2 DEF Waits, At
  <2> QED
    BY <1>t, <1>1, <2>1 DEF InQueue
<1>8. ASSUME NEW u \in Threads
      PROVE  /\ thread'[u].work.kind = "romeu" => lookup'[thread'[u].work.of].pc # "idle"
             /\ thread'[u].work.kind = "gocomet" =>
                   lookup'[thread'[u].work.of].pc \in {"gocomet", "done", "cancelled"}
             /\ \A i \in 1..Len(work) : LookupWork(work[i]) => work[i] # thread'[u].work
  <2>1. CASE thread'[u].work = NoWork
    BY <2>1 DEF NoWork, LookupWork
  <2>2. CASE thread'[u].work = thread[u].work
    <3>1. thread[u].work.kind \in {"romeu", "gocomet"} => thread[u].work.of \in Lookups
      BY <1>t, WorkIs DEF Types, NoWork, LookupWork
    <3> QED
      BY <1>t, <1>4, <2>2, <3>1 DEF Begun, Doing, At
  <2> QED
    BY <1>3, <2>1, <2>2
<1> QED
  BY <1>1, <1>5, <1>6, <1>7, <1>8 DEF Begun, Doing, At

LEMMA QueueInit == Init => QueueInv
<1> SUFFICES ASSUME Init PROVE QueueInv
  OBVIOUS
<1>1. /\ line = <<>> /\ thread = [t \in Threads |-> Idle]
      /\ work = [w \in Warmups |-> [kind |-> "warm", of |-> w]]
      /\ lookup = [l \in Lookups |-> [pc |-> "idle", outcome |-> None]]
  BY DEF Init
<1>2. work \in [1..MaxConcurrent -> Work] /\ MaxConcurrent \in Nat
  BY <1>1, ChainAssumption DEF Warmups, Work
<1>3. work \in Seq(Work)
  BY <1>2, SeqDef
<1>4. \A i \in 1..Len(work) : ~LookupWork(work[i])
  BY <1>1, <1>2, <1>3, LenProperties DEF Warmups, LookupWork
<1>5. Types
  BY <1>1, <1>3 DEF Types, IsLookup, Idle
<1>6. InLine /\ InQueue
  <2>1. Len(line) = 0
    BY <1>1
  <2> QED
    BY <1>4, <2>1 DEF InLine, InQueue
<1>7. Begun
  BY <1>1, <1>4 DEF Begun, Doing, Idle, NoWork
<1> QED
  BY <1>5, <1>6, <1>7, InitInv DEF QueueInv

LEMMA QueueNext == QueueInv /\ [Next]_vars => QueueInv'
<1> SUFFICES ASSUME QueueInv, [Next]_vars PROVE QueueInv'
  OBVIOUS
<1>1. Inv'
  BY NextInv DEF QueueInv
<1>2. CASE UNCHANGED vars
  BY <1>1, <1>2 DEF vars, QueueInv, Types, InLine, InQueue, Begun, Waits, At, Doing
<1> QED
  BY <1>1, <1>2, QueueLoop, QueueStarts, QueueThread DEF Next, QueueInv

\* GoCometHttpProvider.track and wait_for: a thread begins no work that its
\* lookup has stopped waiting for, so that nothing is paid for or asked for
\* on behalf of nobody; whatever times out or is cancelled, the queue holds
\* each lookup's work once and only while the lookup waits for it.
THEOREM OnlyAwaitedWorkStartsHolds == Spec => OnlyAwaitedWorkStarts
<1>1. ASSUME QueueInv, [Next]_vars, NEW t \in Threads,
             thread[t] = Idle, thread'[t] # Idle, thread'[t].work.of \in Lookups
      PROVE  At(thread'[t].work.of, thread'[t].work.kind)
  <2>t. Shape /\ Types /\ InQueue
    BY <1>1 DEF QueueInv, Inv
  <2>1. ~Doing(t, "romeu") /\ ~Doing(t, "gocomet") /\ ~Doing(t, "warm")
    BY <1>1 DEF Doing, Idle, NoWork
  <2>2. ASSUME NEW u \in Threads, RomeuRequest(u) \/ GoCometCall(u) \/ Warm(u)
        PROVE  FALSE
    <3>1. u # t
      BY <2>1, <2>2 DEF RomeuRequest, GoCometCall, Warm
    <3>2. thread'[t] = thread[t]
      BY <2>t, <2>2, <3>1 DEF RomeuRequest, GoCometCall, Warm, Return, Shape
    <3> QED
      BY <1>1, <3>2
  <2>3. ASSUME NEW l \in Lookups, LoopStep(l) \/ Cancel(l) PROVE FALSE
    BY <1>1, <2>3 DEF LoopStep, Begin, RomeuAnswers, Enter, GoCometAnswers, TimeOut, Cancel
  <2>4. PICK u \in Threads : Start(u)
    BY <1>1, <2>2, <2>3 DEF Next, vars
  <2>5. u = t /\ thread'[t].work = Head(work) /\ work # <<>>
    BY <1>1, <2>t, <2>4 DEF Start, Shape
  <2>6. Head(work) = work[1] /\ 1 \in 1..Len(work) /\ work[1] \in Work
    BY <2>t, <2>5, DropsTail, ElementOfSeq DEF Types
  <2>7. LookupWork(work[1])
    BY <1>1, <2>5, <2>6, ChainAssumption DEF Work, LookupWork
  <2> QED
    BY <2>t, <2>5, <2>6, <2>7 DEF InQueue, Waits
<1>2. QueueInv /\ [Next]_vars =>
        [\A t \in Threads :
            thread[t] = Idle /\ thread'[t] # Idle /\ thread'[t].work.of \in Lookups
            => At(thread'[t].work.of, thread'[t].work.kind)]_vars
  BY <1>1
<1> QED
  BY <1>2, QueueInit, QueueNext, PTL DEF Spec, OnlyAwaitedWorkStarts
=============================================================================

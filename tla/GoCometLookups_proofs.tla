-------------------------- MODULE GoCometLookups_proofs --------------------------
(***************************************************************************)
(* Theorems about GoCometLookups, for every number of lookups, rotations,  *)
(* records and crashes.                                                    *)
(***************************************************************************)
EXTENDS GoCometLookups, FiniteSetTheorems, TLAPS

-----------------------------------------------------------------------------
(* The inductive invariant. *)

Creating == {"announce", "report"}

\* What the thread of a lookup holds was handed in or announced, unless it is
\* just about to be announced.
HoldsTold(l) ==
    /\ call[l] = "idle" => thread[l].pc = "none"
    /\ thread[l].pc = "none" => told[l] = {}
    /\ thread[l].pc \in Working => call[l] \in {"waiting", "answered"}
    /\ thread[l].pc = "resume" => thread[l].resume \in told[l]
    /\ thread[l].pc = "poll" => thread[l].id \in told[l]
    /\ thread[l].pc \in Creating => thread[l].id \in Records /\ record[thread[l].id] # "free"
    /\ thread[l].result.id \in told[l] \cup {NoRecord}
    /\ \A i \in told[l] : record[i] # "free"

\* Which of the records that a lookup announced may be alive.
OneAlive(l) ==
    /\ thread[l].pc = "resume" => told[l] \subseteq {thread[l].resume}
    /\ thread[l].pc \in {"create"} \cup Creating =>
          \A i \in told[l] \ {thread[l].resume} : ~Live(i)
    /\ thread[l].pc = "poll" =>
          \A i \in told[l] \ {thread[l].resume} : Live(i) => i = thread[l].id
    /\ \A i, j \in told[l] \ {thread[l].resume} : Live(i) /\ Live(j) => i = j

\* A record that is about to be announced is nobody else's.
Unclaimed ==
    \A l \in Lookups : thread[l].pc \in Creating =>
        \A m \in Lookups :
            /\ thread[l].id \notin told[m]
            /\ m # l /\ thread[m].pc \in Creating => thread[m].id # thread[l].id

RowTold == row # NoRecord => \E m \in Lookups : row \in told[m]

Inv ==
    /\ TypeOK /\ RowTold /\ Unclaimed
    /\ \A l \in Lookups : HoldsTold(l) /\ OneAlive(l)

-----------------------------------------------------------------------------
(* Lemmas. *)

LEMMA RecordFacts ==
    /\ NoRecord \notin Records /\ Records \subseteq Nat
    /\ NoAnswer \in Result /\ NoThread \in Thread
  BY GoCometAssumption DEF NoRecord, Records, NoAnswer, Result, NoThread, Thread, Pcs

\* A thread when track has returned or raised.
Ended(t, result) ==
    [t EXCEPT !.pc = "ended", !.id = NoRecord, !.rotations = 0, !.result = result]

LEMMA EndedFacts ==
    ASSUME NEW t \in Thread, NEW result \in Result
    PROVE  /\ Ended(t, result) \in Thread
           /\ Ended(t, result).pc = "ended"
           /\ Ended(t, result).result = result
           /\ Ended(t, result).resume = t.resume
           /\ Ended(t, result).limited = t.limited
<1>1. "ended" \in Pcs /\ 0 \in 0..MaxRotations
  BY GoCometAssumption DEF Pcs
<1> QED
  BY <1>1 DEF Ended, Thread

LEMMA InitInv == Init => Inv
<1> SUFFICES ASSUME Init PROVE Inv
  OBVIOUS
<1>1. TypeOK
  BY RecordFacts, GoCometAssumption DEF Init, TypeOK
<1>2. RowTold /\ Unclaimed
  BY DEF Init, RowTold, Unclaimed, NoThread, Creating
<1>3. \A l \in Lookups : HoldsTold(l) /\ OneAlive(l)
  BY DEF Init, HoldsTold, OneAlive, NoThread, NoAnswer, Working, Creating
<1> QED
  BY <1>1, <1>2, <1>3 DEF Inv

\* What a record that exists may become.
Aging ==
    /\ record' \in [Records -> {"free", "pending", "gone", "final"}]
    /\ \A i \in Records : record[i] # "free" =>
          /\ record'[i] # "free" /\ (Live(i)' => Live(i))
          /\ record[i] = "gone" => record'[i] = "gone"

LEMMA SameRecords == ASSUME TypeOK, UNCHANGED record PROVE Aging
  BY DEF TypeOK, Aging, Live

\* A new record is in nobody's hands.
LEMMA NewRecord ==
    ASSUME Inv, NEW i \in Records, record[i] = "free", NEW status \in {"pending", "final"},
           record' = [record EXCEPT ![i] = status]
    PROVE  /\ Aging /\ record'[i] # "free"
           /\ \A l \in Lookups : i \notin told[l]
           /\ \A l \in Lookups : thread[l].pc \in Creating => thread[l].id # i
  BY DEF Inv, TypeOK, HoldsTold, Aging, Live

\* The other lookups do not notice a step of one of them.
Only(l) ==
    /\ thread' \in [Lookups -> Thread]
    /\ \A m \in Lookups \ {l} : thread'[m] = thread[m]

LEMMA Others ==
    ASSUME Inv, NEW l \in Lookups, Only(l), Aging, NEW m \in Lookups, m # l,
           call'[m] = call[m], told'[m] = told[m]
    PROVE  HoldsTold(m)' /\ OneAlive(m)'
<1>1. HoldsTold(m)'
  BY DEF Inv, TypeOK, Only, HoldsTold, Aging
<1>2. OneAlive(m)'
  BY DEF Inv, TypeOK, Only, HoldsTold, OneAlive, Aging
<1> QED
  BY <1>1, <1>2

\* A step of one thread that neither announces nor is about to.
LEMMA OneThread ==
    ASSUME Inv, NEW l \in Lookups, Only(l), thread'[l].pc \notin Creating,
           Aging, UNCHANGED <<row, call, answer, told, crashes>>,
           HoldsTold(l)', OneAlive(l)'
    PROVE  Inv'
<1>1. TypeOK'
  BY DEF Inv, TypeOK, Aging, Only
<1>2. RowTold'
  BY DEF Inv, RowTold
<1>3. Unclaimed'
  BY DEF Inv, Unclaimed, Only
<1>4. \A m \in Lookups : HoldsTold(m)' /\ OneAlive(m)'
  BY Others
<1> QED
  BY <1>1, <1>2, <1>3, <1>4 DEF Inv

\* The end of track.
LEMMA EndStep ==
    ASSUME TypeOK, NEW l \in Lookups, NEW ok \in BOOLEAN, NEW i \in Records \cup {NoRecord},
           End(l, [ok |-> ok, id |-> i])
    PROVE  /\ Only(l) /\ thread'[l].pc = "ended"
           /\ thread'[l].resume = thread[l].resume
           /\ thread'[l].limited = thread[l].limited
           /\ thread'[l].result.id \in {i, NoRecord}
<1> DEFINE result == IF call[l] = "waiting" THEN [ok |-> ok, id |-> i] ELSE NoAnswer
           r == Ended(thread[l], result)
<1>1. result \in Result /\ result.id \in {i, NoRecord}
  BY RecordFacts DEF Result, NoAnswer
<1>2. thread' = [thread EXCEPT ![l] = r]
  BY DEF End, Ended
<1> HIDE DEF result
<1>3. /\ r \in Thread /\ r.pc = "ended" /\ r.result = result
      /\ r.resume = thread[l].resume /\ r.limited = thread[l].limited
  BY <1>1, EndedFacts DEF TypeOK
<1>4. Only(l) /\ thread'[l] = r
  BY <1>2, <1>3 DEF TypeOK, Only
<1> QED
  BY <1>1, <1>3, <1>4

\* What it returns is the id of a record that was announced.
LEMMA EndInv ==
    ASSUME Inv, NEW l \in Lookups, NEW ok \in BOOLEAN, NEW i \in told[l] \cup {NoRecord},
           thread[l].pc \in Working, End(l, [ok |-> ok, id |-> i]),
           Aging, UNCHANGED <<row, call, answer, told, crashes>>
    PROVE  Inv'
<1>1. /\ Only(l) /\ thread'[l].pc = "ended"
      /\ thread'[l].resume = thread[l].resume
      /\ thread'[l].result.id \in {i, NoRecord}
  BY EndStep DEF Inv, TypeOK
<1>2. HoldsTold(l)'
  BY <1>1 DEF Inv, TypeOK, HoldsTold, Aging, Working, Creating
<1>3. OneAlive(l)'
  BY <1>1 DEF Inv, TypeOK, HoldsTold, OneAlive, Aging, Creating
<1> QED
  BY <1>1, <1>2, <1>3, OneThread DEF Creating

LEMMA RaiseInv ==
    ASSUME Inv, NEW l \in Lookups, thread[l].pc \in Working, Raise(l),
           Aging, UNCHANGED <<row, call, answer, told, crashes>>
    PROVE  Inv'
  BY EndInv DEF Raise, NoAnswer

\* Going on with another create or poll, perhaps after a rotation.
LEMMA GoOnInv ==
    ASSUME Inv, NEW l \in Lookups, thread[l].pc \in Working, Only(l),
           thread'[l].pc \in {"create", "poll"},
           thread'[l].id = thread[l].id, thread'[l].resume = thread[l].resume,
           thread'[l].result = thread[l].result,
           Aging, UNCHANGED <<row, call, answer, told, crashes>>,
           thread'[l].pc = "poll" => thread[l].pc = "poll",
           thread'[l].pc = "create" =>
              \A i \in told[l] \ {thread[l].resume} : ~Live(i)
    PROVE  Inv'
<1>1. HoldsTold(l)'
  BY DEF Inv, TypeOK, HoldsTold, Aging, Working, Creating
<1>2. OneAlive(l)'
  BY DEF Inv, TypeOK, HoldsTold, OneAlive, Aging, Creating
<1> QED
  BY <1>1, <1>2, OneThread DEF Creating

LEMMA RotateStep ==
    ASSUME TypeOK, NEW l \in Lookups, NEW pc \in {"create", "poll"}, RotateTo(l, pc)
    PROVE  \/ Raise(l)
           \/ /\ Only(l) /\ thread'[l].pc = pc
              /\ thread'[l].id = thread[l].id /\ thread'[l].resume = thread[l].resume
              /\ thread'[l].limited = thread[l].limited
              /\ thread'[l].result = thread[l].result
<1>1. CASE thread[l].rotations >= MaxRotations
  BY <1>1 DEF RotateTo
<1>2. CASE ~(thread[l].rotations >= MaxRotations)
  <2>1. thread[l] \in Thread
    BY DEF TypeOK
  <2>2. thread[l].rotations + 1 \in 0..MaxRotations
    BY <1>2, <2>1, GoCometAssumption DEF Thread
  <2>3. thread' = [thread EXCEPT ![l].rotations = thread[l].rotations + 1, ![l].pc = pc]
    BY <1>2 DEF RotateTo
  <2> QED
    BY <2>2, <2>3, ZenonT(40) DEF TypeOK, Only, Thread, Pcs, Working
<1> QED
  BY <1>1, <1>2

LEMMA RotateInv ==
    ASSUME Inv, NEW l \in Lookups, thread[l].pc \in Working,
           NEW pc \in {"create", "poll"}, RotateTo(l, pc),
           Aging, UNCHANGED <<row, call, answer, told, crashes>>,
           pc = "poll" => thread[l].pc = "poll",
           pc = "create" => \A i \in told[l] \ {thread[l].resume} : ~Live(i)
    PROVE  Inv'
  BY RotateStep, RaiseInv, GoOnInv DEF Inv

-----------------------------------------------------------------------------
(* Every step keeps the invariant. *)

LEMMA BeginInv == ASSUME Inv, NEW l \in Lookups, Begin(l) PROVE Inv'
<1>1. Aging
  BY SameRecords DEF Inv, Begin
<1>2. /\ Only(l)
      /\ thread'[l].pc = IF row = NoRecord THEN "create" ELSE "resume"
      /\ thread'[l].resume = row /\ thread'[l].result = NoAnswer
  BY RecordFacts DEF Inv, TypeOK, Begin, Only, Thread, Pcs, Working, NoThread
<1>3. /\ told'[l] = {row} \ {NoRecord}
      /\ \A m \in Lookups \ {l} : call'[m] = call[m] /\ told'[m] = told[m]
      /\ call'[l] = "waiting"
  BY DEF Inv, TypeOK, Begin
<1>4. TypeOK'
  BY <1>2 DEF Inv, TypeOK, Begin, Only
<1>5. thread[l].pc = "none" /\ told[l] = {}
  BY DEF Inv, HoldsTold, Begin
<1>6. RowTold'
  BY <1>3, <1>5 DEF Inv, RowTold, Begin
<1>7. Unclaimed'
  <2>1. \A k \in Lookups : thread[k].pc \in Creating => thread[k].id \notin told'[l]
    BY <1>3 DEF Inv, RowTold, Unclaimed
  <2> QED
    BY <1>2, <1>3, <2>1 DEF Inv, Unclaimed, Only, Creating, Begin
<1>8. HoldsTold(l)'
  BY <1>2, <1>3 DEF Inv, TypeOK, RowTold, HoldsTold, Begin, Working, Creating, NoAnswer
<1>9. OneAlive(l)'
  BY <1>2, <1>3 DEF Inv, OneAlive, Creating
<1> QED
  BY <1>1, <1>2, <1>3, <1>4, <1>6, <1>7, <1>8, <1>9, Others DEF Inv

LEMMA ReceiveInv == ASSUME Inv, NEW l \in Lookups, Receive(l) PROVE Inv'
<1>1. Aging
  BY SameRecords DEF Inv, Receive
<1>2. /\ Only(l) /\ thread'[l].pc = "ended" /\ thread'[l].resume = thread[l].resume
      /\ thread'[l].result = NoAnswer
  BY RecordFacts DEF Inv, TypeOK, Receive, Only, Thread
<1>3. /\ \A m \in Lookups \ {l} : call'[m] = call[m]
      /\ call'[l] = "answered" /\ told' = told
  BY DEF Inv, TypeOK, Receive
<1>4. row' = row \/ (row' \in told[l] /\ row' \in Records)
  BY DEF Inv, TypeOK, HoldsTold, Receive
<1>5. TypeOK'
  BY <1>2, <1>4 DEF Inv, TypeOK, Receive, Only, Thread
<1>6. RowTold'
  BY <1>3, <1>4 DEF Inv, RowTold
<1>7. Unclaimed'
  BY <1>2, <1>3 DEF Inv, Unclaimed, Only, Creating
<1>8. HoldsTold(l)'
  BY <1>2, <1>3 DEF Inv, HoldsTold, Receive, Working, Creating, NoAnswer
<1>9. OneAlive(l)'
  BY <1>2, <1>3 DEF Inv, OneAlive, Creating, Receive, Live
<1> QED
  BY <1>1, <1>2, <1>3, <1>5, <1>6, <1>7, <1>8, <1>9, Others DEF Inv

LEMMA TimeOutInv == ASSUME Inv, NEW l \in Lookups, TimeOut(l) PROVE Inv'
<1>1. /\ call' = [call EXCEPT ![l] = "answered"] /\ call[l] = "waiting"
      /\ UNCHANGED <<row, record, thread, told, crashes>>
  BY DEF TimeOut
<1>2. TypeOK'
  BY RecordFacts DEF Inv, TypeOK, TimeOut
<1>3. RowTold' /\ Unclaimed'
  BY <1>1 DEF Inv, RowTold, Unclaimed
<1>4. \A m \in Lookups : HoldsTold(m)' /\ OneAlive(m)'
  BY <1>1 DEF Inv, TypeOK, HoldsTold, OneAlive, Live
<1> QED
  BY <1>2, <1>3, <1>4 DEF Inv

\* A resumed poll that is limited goes on to the create.
Limited(l) ==
    /\ ~(thread[l].rotations >= MaxRotations)
    /\ thread' = [thread EXCEPT ![l].rotations = @ + 1, ![l].limited = TRUE,
                                ![l].pc = "create"]

LEMMA LimitedStep ==
    ASSUME TypeOK, NEW l \in Lookups, Limited(l)
    PROVE  /\ Only(l) /\ thread'[l].pc = "create" /\ thread'[l].limited
           /\ thread'[l].id = thread[l].id /\ thread'[l].resume = thread[l].resume
           /\ thread'[l].result = thread[l].result
<1> DEFINE n == thread[l].rotations + 1
           r == [thread[l] EXCEPT !.rotations = n, !.limited = TRUE, !.pc = "create"]
<1>1. thread[l] \in Thread
  BY DEF TypeOK
<1>2. n \in 0..MaxRotations
  BY <1>1, GoCometAssumption DEF Limited, Thread
<1>3. thread' = [thread EXCEPT ![l] = r]
  BY DEF Limited
<1> HIDE DEF n
<1>4. /\ r \in Thread /\ r.pc = "create" /\ r.limited /\ r.id = thread[l].id
      /\ r.resume = thread[l].resume /\ r.result = thread[l].result
  BY <1>1, <1>2 DEF Thread, Pcs, Working
<1> HIDE DEF r
<1>5. Only(l) /\ thread'[l] = r
  BY <1>3, <1>4 DEF TypeOK, Only
<1> QED
  BY <1>4, <1>5

LEMMA PollResumedInv == ASSUME Inv, NEW l \in Lookups, PollResumed(l) PROVE Inv'
<1> DEFINE i == thread[l].resume
<1>1. /\ thread[l].pc = "resume" /\ thread[l].pc \in Working
      /\ Aging /\ UNCHANGED <<row, call, answer, told, crashes>>
  BY SameRecords DEF Inv, PollResumed, At, Working
<1>2. i \in told[l] /\ told[l] \subseteq {i}
  BY <1>1 DEF Inv, HoldsTold, OneAlive
<1>3. CASE Resolve(l, i)
  BY <1>1, <1>2, <1>3, EndInv DEF Resolve
<1>4. CASE GiveUp(l, i)
  BY <1>1, <1>2, <1>4, EndInv DEF GiveUp
<1>5. CASE thread' = [thread EXCEPT ![l].pc = "create"]
  <2>1. /\ Only(l) /\ thread'[l].pc = "create"
        /\ thread'[l].id = thread[l].id /\ thread'[l].resume = thread[l].resume
        /\ thread'[l].result = thread[l].result
    BY <1>5, ZenonT(40) DEF Inv, TypeOK, Only, Thread, Pcs, Working
  <2> QED
    BY <1>1, <1>2, <2>1, GoOnInv
<1>6. CASE Limited(l)
  BY <1>1, <1>2, <1>6, LimitedStep, GoOnInv DEF Inv
<1>7. CASE Raise(l)
  BY <1>1, <1>7, RaiseInv
<1> QED
  BY <1>3, <1>4, <1>5, <1>6, <1>7 DEF PollResumed, Limited

LEMMA CreateNothingInv == ASSUME Inv, NEW l \in Lookups, CreateNothing(l) PROVE Inv'
<1>1. /\ thread[l].pc = "create" /\ thread[l].pc \in Working
      /\ Aging /\ UNCHANGED <<row, call, answer, told, crashes>>
  BY SameRecords DEF Inv, CreateNothing, At, Working
<1>2. \A i \in told[l] \ {thread[l].resume} : ~Live(i)
  BY <1>1 DEF Inv, OneAlive
<1>3. CASE RotateTo(l, "create")
  BY <1>1, <1>2, <1>3, RotateInv
<1>4. CASE Raise(l)
  BY <1>1, <1>4, RaiseInv
<1>5. CASE GiveUp(l, NoRecord)
  BY <1>1, <1>5, EndInv DEF GiveUp
<1> QED
  BY <1>3, <1>4, <1>5 DEF CreateNothing

LEMMA CreateUnheardInv ==
    ASSUME Inv, NEW l \in Lookups, NEW i \in Records, CreateUnheard(l, i) PROVE Inv'
<1>1. /\ thread[l].pc = "create" /\ thread[l].pc \in Working
      /\ Aging /\ UNCHANGED <<row, call, answer, told, crashes>>
  BY NewRecord DEF CreateUnheard, At, Working
<1>2. \A j \in told[l] \ {thread[l].resume} : ~Live(j)
  BY <1>1 DEF Inv, OneAlive
<1>3. CASE RotateTo(l, "create")
  BY <1>1, <1>2, <1>3, RotateInv
<1>4. CASE Raise(l)
  BY <1>1, <1>4, RaiseInv
<1> QED
  BY <1>3, <1>4 DEF CreateUnheard

LEMMA CreateStep ==
    ASSUME TypeOK, NEW l \in Lookups, NEW i \in Records, CreateRecord(l, i)
    PROVE  /\ Only(l) /\ thread'[l].pc \in Creating /\ thread'[l].id = i
           /\ thread'[l].resume = thread[l].resume
           /\ thread'[l].limited = thread[l].limited
           /\ thread'[l].result = thread[l].result
<1>1. PICK status \in {"pending", "final"} :
         thread' = [thread EXCEPT ![l].id = i,
                                  ![l].pc = IF status = "pending" THEN "announce"
                                            ELSE "report"]
  BY DEF CreateRecord
<1> DEFINE pc == IF status = "pending" THEN "announce" ELSE "report"
<1>2. pc \in Creating /\ pc \in Pcs
  BY DEF Creating, Pcs, Working
<1> HIDE DEF pc
<1>3. thread' = [thread EXCEPT ![l].id = i, ![l].pc = pc]
  BY <1>1 DEF pc
<1> QED
  BY <1>2, <1>3, ZenonT(40) DEF TypeOK, Only, Thread

LEMMA CreateRecordInv ==
    ASSUME Inv, NEW l \in Lookups, NEW i \in Records, CreateRecord(l, i) PROVE Inv'
<1>1. \E status \in {"pending", "final"} : record' = [record EXCEPT ![i] = status]
  BY DEF CreateRecord
<1>2. /\ record[i] = "free" /\ thread[l].pc = "create"
      /\ UNCHANGED <<row, call, answer, told, crashes>>
  BY DEF CreateRecord, At
<1>3. /\ Aging /\ record'[i] # "free"
      /\ \A m \in Lookups : i \notin told[m]
      /\ \A m \in Lookups : thread[m].pc \in Creating => thread[m].id # i
  BY <1>1, <1>2, NewRecord
<1>4. /\ Only(l) /\ thread'[l].pc \in Creating /\ thread'[l].id = i
      /\ thread'[l].resume = thread[l].resume /\ thread'[l].result = thread[l].result
  BY CreateStep DEF Inv
<1>5. TypeOK'
  BY <1>2, <1>3, <1>4 DEF Inv, TypeOK, Only, Aging
<1>6. RowTold'
  BY <1>2 DEF Inv, RowTold
<1>7. Unclaimed'
  BY <1>2, <1>3, <1>4 DEF Inv, Unclaimed, Only
<1>8. HoldsTold(l)'
  BY <1>2, <1>3, <1>4 DEF Inv, TypeOK, HoldsTold, Aging, Working, Creating
<1>9. OneAlive(l)'
  BY <1>2, <1>3, <1>4 DEF Inv, TypeOK, HoldsTold, OneAlive, Aging, Creating
<1> QED
  BY <1>2, <1>3, <1>4, <1>5, <1>6, <1>7, <1>8, <1>9, Others DEF Inv

LEMMA AnnounceInv == ASSUME Inv, NEW l \in Lookups, Announce(l) PROVE Inv'
<1> DEFINE i == thread[l].id
<1>1. /\ thread[l].pc \in Creating /\ row' = i
      /\ told' = [told EXCEPT ![l] = @ \cup {i}]
      /\ UNCHANGED <<record, call, answer, crashes>>
  BY DEF Announce, At, Creating
<1>2. Aging
  BY <1>1, SameRecords DEF Inv
<1>3. /\ i \in Records /\ record[i] # "free" /\ call[l] \in {"waiting", "answered"}
      /\ \A m \in Lookups : i \notin told[m]
      /\ \A m \in Lookups \ {l} : thread[m].pc \in Creating => thread[m].id # i
  BY <1>1 DEF Inv, HoldsTold, Unclaimed, Creating, Working
<1>4. /\ told'[l] = told[l] \cup {i}
      /\ \A m \in Lookups \ {l} : told'[m] = told[m]
  BY <1>1 DEF Inv, TypeOK
<1>5. /\ Only(l) /\ thread'[l].pc \in {"poll", "ended"}
      /\ thread'[l].resume = thread[l].resume
      /\ thread'[l].pc = "poll" => thread'[l].id = i
      /\ thread'[l].result.id \in told'[l] \cup {NoRecord}
  <2>1. CASE thread' = [thread EXCEPT ![l].pc = "poll"]
    BY <1>4, <2>1, SMTT(30) DEF Inv, TypeOK, HoldsTold, Only, Thread, Pcs, Working
  <2>2. CASE Resolve(l, i)
    BY <1>3, <1>4, <2>2, EndStep DEF Inv, Resolve
  <2> QED
    BY <2>1, <2>2 DEF Announce
<1>6. TypeOK'
  BY <1>1, <1>3, <1>5 DEF Inv, TypeOK, Only
<1>7. RowTold'
  BY <1>1, <1>4 DEF RowTold
<1>8. Unclaimed'
  BY <1>3, <1>4, <1>5 DEF Inv, Unclaimed, Only, Creating
<1>9. HoldsTold(l)'
  BY <1>1, <1>3, <1>4, <1>5 DEF Inv, HoldsTold, Working, Creating
<1>10. OneAlive(l)'
  BY <1>1, <1>3, <1>4, <1>5 DEF Inv, OneAlive, Creating, Live
<1> QED
  BY <1>1, <1>2, <1>4, <1>5, <1>6, <1>7, <1>8, <1>9, <1>10, Others DEF Inv

LEMMA AnnounceFailsInv == ASSUME Inv, NEW l \in Lookups, AnnounceFails(l) PROVE Inv'
<1>1. thread[l].pc \in Working /\ Raise(l) /\ Aging
  BY SameRecords DEF Inv, AnnounceFails, At, Working
<1> QED
  BY <1>1, RaiseInv DEF AnnounceFails

LEMMA PollCreatedInv == ASSUME Inv, NEW l \in Lookups, PollCreated(l) PROVE Inv'
<1> DEFINE i == thread[l].id
<1>1. /\ thread[l].pc = "poll" /\ thread[l].pc \in Working
      /\ Aging /\ UNCHANGED <<row, call, answer, told, crashes>>
  BY SameRecords DEF Inv, PollCreated, At, Working
<1>2. i \in told[l]
  BY <1>1 DEF Inv, HoldsTold
<1>3. CASE Resolve(l, i)
  BY <1>1, <1>2, <1>3, EndInv DEF Resolve
<1>4. CASE GiveUp(l, i)
  BY <1>1, <1>2, <1>4, EndInv DEF GiveUp
<1>5. CASE record[i] = "gone" /\ RotateTo(l, "create")
  <2>1. \A j \in told[l] \ {thread[l].resume} : ~Live(j)
    BY <1>1, <1>5 DEF Inv, OneAlive, Live
  <2> QED
    BY <1>1, <1>5, <2>1, RotateInv
<1>6. CASE RotateTo(l, "poll")
  BY <1>1, <1>6, RotateInv
<1>7. CASE Raise(l)
  BY <1>1, <1>7, RaiseInv
<1> QED
  BY <1>3, <1>4, <1>5, <1>6, <1>7 DEF PollCreated

\* The records age and nothing else happens.
LEMMA AgingInv == ASSUME Inv, Aging, UNCHANGED <<row, call, answer, thread, told, crashes>>
                  PROVE  Inv'
<1>1. TypeOK'
  BY DEF Inv, TypeOK, Aging
<1>2. RowTold' /\ Unclaimed'
  BY DEF Inv, RowTold, Unclaimed
<1>3. \A l \in Lookups : HoldsTold(l)'
  BY DEF Inv, TypeOK, HoldsTold, Aging
<1>4. \A l \in Lookups : OneAlive(l)'
  BY DEF Inv, TypeOK, HoldsTold, OneAlive, Aging
<1> QED
  BY <1>1, <1>2, <1>3, <1>4 DEF Inv

LEMMA CrashInv == ASSUME Inv, Crash PROVE Inv'
<1>1. \A l \in Lookups : thread[l].pc # "none" =>
         /\ thread'[l].pc = "ended" /\ thread'[l].resume = thread[l].resume
         /\ thread'[l].result = NoAnswer /\ thread'[l] \in Thread
  BY RecordFacts DEF Inv, TypeOK, Crash, NoThread, Thread, Pcs
<1>2. /\ thread' \in [Lookups -> Thread]
      /\ \A l \in Lookups : thread[l].pc = "none" => thread'[l] = thread[l]
  BY <1>1 DEF Inv, TypeOK, Crash
<1>3. /\ \A l \in Lookups : call[l] = "idle" <=> call'[l] = "idle"
      /\ UNCHANGED <<row, record, answer, told>>
  BY DEF Inv, TypeOK, Crash
<1>4. \A l \in Lookups : thread'[l].pc \notin Working
  BY <1>1, <1>2 DEF Working
<1>5. TypeOK'
  <2>1. crashes' \in 0..MaxCrashes
    <3>1. crashes \in 0..MaxCrashes
      BY DEF Inv, TypeOK
    <3>2. crashes < MaxCrashes /\ crashes' = crashes + 1
      BY DEF Crash
    <3> QED
      BY <3>1, <3>2, GoCometAssumption
  <2>2. call' \in [Lookups -> {"idle", "waiting", "answered", "died"}]
    BY DEF Inv, TypeOK, Crash
  <2> QED
    BY <1>2, <1>3, <2>1, <2>2 DEF Inv, TypeOK
<1>6. RowTold' /\ Unclaimed'
  BY <1>3, <1>4 DEF Inv, RowTold, Unclaimed, Creating, Working
<1>7. \A l \in Lookups : HoldsTold(l)'
  BY <1>1, <1>2, <1>3, <1>4 DEF Inv, HoldsTold, Working, Creating, NoAnswer
<1>8. \A l \in Lookups : OneAlive(l)'
  BY <1>1, <1>2, <1>3, <1>4 DEF Inv, OneAlive, Live, Working, Creating
<1> QED
  BY <1>5, <1>6, <1>7, <1>8 DEF Inv

LEMMA NextInv == Inv /\ [Next]_vars => Inv'
<1> SUFFICES ASSUME Inv, [Next]_vars PROVE Inv'
  OBVIOUS
<1>1. ASSUME NEW l \in Lookups, Begin(l) \/ CallStep(l) \/ ThreadStep(l) PROVE Inv'
  BY <1>1, BeginInv, ReceiveInv, TimeOutInv, PollResumedInv, CreateNothingInv, AnnounceInv,
     AnnounceFailsInv, PollCreatedInv, CreateRecordInv, CreateUnheardInv
     DEF CallStep, ThreadStep
<1>2. ASSUME NEW i \in Records, CarrierAnswers(i) \/ Expire(i) PROVE Inv'
  <2>1. Aging
    BY <1>2 DEF Inv, TypeOK, CarrierAnswers, Expire, Aging, Live
  <2> QED
    BY <1>2, <2>1, AgingInv DEF CarrierAnswers, Expire
<1>3. CASE UNCHANGED vars
  <2>1. Aging
    BY <1>3, SameRecords DEF Inv, vars
  <2> QED
    BY <1>3, <2>1, AgingInv DEF vars
<1> QED
  BY <1>1, <1>2, <1>3, CrashInv DEF Next

LEMMA Invariance == Spec => []Inv
<1> QED
  BY InitInv, NextInv, PTL DEF Spec

-----------------------------------------------------------------------------
(* What a lookup did with the record it was handed. *)

Past == {"create", "announce", "report", "poll"}

\* A lookup that was never limited leaves its resumed record only when that is
\* gone, whether it is still at work or has ended with another id.
Dropped(l) ==
    /\ thread[l].resume # NoRecord /\ ~thread[l].limited
    /\ thread[l].pc \in Past \/ thread[l].result.id \notin {NoRecord, thread[l].resume}
    => record[thread[l].resume] = "gone"

AllDropped == \A l \in Lookups : Dropped(l)

\* A step in which the lookup does not turn away from its resumed record.
LEMMA StaysDropped ==
    ASSUME TypeOK, Aging, NEW l \in Lookups, Dropped(l),
           thread'[l].resume = thread[l].resume, thread[l].limited => thread'[l].limited,
           thread'[l].pc \in Past => thread[l].pc \in Past,
           \/ thread[l].pc \in Past
           \/ thread'[l].result.id \in {NoRecord, thread[l].resume, thread[l].result.id}
    PROVE  Dropped(l)'
<1>1. thread[l].resume \in Records \cup {NoRecord}
  BY DEF TypeOK, Thread
<1>2. thread[l].resume # NoRecord /\ record[thread[l].resume] = "gone" =>
         record'[thread[l].resume] = "gone"
  BY <1>1 DEF Aging
<1> QED
  BY <1>2 DEF Dropped

LEMMA PollResumedDropped ==
    ASSUME Inv, AllDropped, NEW l \in Lookups, PollResumed(l) PROVE Only(l) /\ Dropped(l)'
<1> DEFINE i == thread[l].resume
<1>1. TypeOK /\ Aging /\ Dropped(l) /\ thread[l] \in Thread
  BY SameRecords DEF Inv, TypeOK, AllDropped, PollResumed
<1>2. i \in Records \cup {NoRecord}
  BY <1>1 DEF Thread
<1>3. CASE Resolve(l, i) \/ GiveUp(l, i) \/ Raise(l)
  <2>1. \E ok \in BOOLEAN, j \in {i, NoRecord} : End(l, [ok |-> ok, id |-> j])
    BY <1>3 DEF Resolve, GiveUp, Raise, NoAnswer
  <2>2. /\ Only(l) /\ thread'[l].pc = "ended"
        /\ thread'[l].resume = i /\ thread'[l].limited = thread[l].limited
        /\ thread'[l].result.id \in {i, NoRecord}
    BY <1>1, <1>2, <2>1, EndStep
  <2> QED
    BY <1>1, <2>2, StaysDropped DEF Past
<1>4. CASE record[i] = "gone" /\ thread' = [thread EXCEPT ![l].pc = "create"]
  <2>1. Only(l) /\ thread'[l].resume = i
    BY <1>1, <1>4 DEF TypeOK, Only, Thread, Pcs, Working
  <2> QED
    BY <1>4, <2>1 DEF Dropped, PollResumed
<1>5. CASE Limited(l)
  <2>1. Only(l) /\ thread'[l].limited
    BY <1>1, <1>5, LimitedStep
  <2> QED
    BY <2>1 DEF Dropped
<1> QED
  BY <1>3, <1>4, <1>5 DEF PollResumed, Limited

LEMMA OthersDropped ==
    ASSUME TypeOK, Aging, NEW l \in Lookups, Only(l), NEW m \in Lookups, m # l, Dropped(m)
    PROVE  Dropped(m)'
  BY StaysDropped DEF Only

\* The ways on from a create, a poll or a failed announcement.
LEMMA PastStep ==
    ASSUME TypeOK, Aging, NEW l \in Lookups, thread[l].pc \in Past, Dropped(l),
           NEW i \in Records \cup {NoRecord},
           \/ \E pc \in {"create", "poll"} : RotateTo(l, pc)
           \/ Raise(l) \/ Resolve(l, i) \/ GiveUp(l, i)
    PROVE  Only(l) /\ Dropped(l)'
<1>1. Only(l) /\ thread'[l].resume = thread[l].resume /\ thread'[l].limited = thread[l].limited
  <2>1. CASE \E pc \in {"create", "poll"} : RotateTo(l, pc) /\ ~Raise(l)
    BY <2>1, RotateStep
  <2>2. CASE Raise(l) \/ Resolve(l, i) \/ GiveUp(l, i)
    <3>1. \E ok \in BOOLEAN, j \in {i, NoRecord} : End(l, [ok |-> ok, id |-> j])
      BY <2>2 DEF Resolve, GiveUp, Raise, NoAnswer
    <3> QED
      BY <3>1, EndStep
  <2> QED
    BY <2>1, <2>2
<1> QED
  BY <1>1, StaysDropped

LEMMA ThreadStepDropped ==
    ASSUME Inv, AllDropped, NEW l \in Lookups, ThreadStep(l) PROVE AllDropped'
<1>1. TypeOK /\ Aging
  BY SameRecords, NewRecord
     DEF Inv, ThreadStep, PollResumed, CreateNothing, Announce, AnnounceFails, PollCreated,
         CreateRecord, CreateUnheard
<1>2. thread[l].id \in Records \cup {NoRecord} /\ NoRecord \in Records \cup {NoRecord}
  BY DEF Inv, TypeOK, Thread
<1>3. Only(l) /\ Dropped(l)'
  <2>1. CASE PollResumed(l)
    BY <2>1, PollResumedDropped
  <2>2. CASE CreateNothing(l)
    BY <1>1, <1>2, <2>2, PastStep DEF CreateNothing, At, Past, AllDropped
  <2>3. CASE \E i \in Records : CreateUnheard(l, i)
    BY <1>1, <1>2, <2>3, PastStep DEF CreateUnheard, At, Past, AllDropped
  <2>4. CASE AnnounceFails(l)
    BY <1>1, <1>2, <2>4, PastStep DEF AnnounceFails, At, Past, AllDropped
  <2>5. CASE PollCreated(l)
    BY <1>1, <1>2, <2>5, PastStep DEF PollCreated, At, Past, AllDropped
  <2>6. CASE Announce(l) /\ ~Resolve(l, thread[l].id)
    <3>1. thread[l].pc \in Past /\ thread' = [thread EXCEPT ![l].pc = "poll"]
      BY <2>6 DEF Announce, At, Past
    <3>2. /\ Only(l) /\ thread'[l].resume = thread[l].resume
          /\ thread'[l].limited = thread[l].limited
      BY <3>1, ZenonT(40) DEF Inv, TypeOK, Only, Thread, Pcs, Working
    <3> QED
      BY <1>1, <3>1, <3>2, StaysDropped DEF AllDropped
  <2>7. CASE Announce(l) /\ Resolve(l, thread[l].id)
    <3>1. thread[l].pc \in Past
      BY <2>7 DEF Announce, At, Past
    <3> QED
      BY <1>1, <1>2, <2>7, <3>1, PastStep DEF AllDropped
  <2>8. ASSUME NEW i \in Records, CreateRecord(l, i) PROVE Only(l) /\ Dropped(l)'
    BY <1>1, <2>8, CreateStep, StaysDropped DEF AllDropped, CreateRecord, At, Past
  <2> QED
    BY <2>1, <2>2, <2>3, <2>4, <2>5, <2>6, <2>7, <2>8 DEF ThreadStep
<1> QED
  BY <1>1, <1>3, OthersDropped DEF AllDropped

LEMMA NextDropped == ASSUME Inv, AllDropped, [Next]_vars PROVE AllDropped'
<1>1. ASSUME NEW l \in Lookups, Begin(l) PROVE AllDropped'
  <2>1. TypeOK /\ Aging
    BY <1>1, SameRecords DEF Inv, Begin
  <2>2. /\ Only(l) /\ thread'[l].resume = row /\ thread'[l].result = NoAnswer
        /\ thread'[l].pc = IF row = NoRecord THEN "create" ELSE "resume"
    BY <1>1, RecordFacts DEF Inv, TypeOK, Begin, Only, Thread, Pcs, Working, NoThread
  <2>3. Dropped(l)'
    BY <2>2 DEF Dropped, Past, NoAnswer
  <2> QED
    BY <2>1, <2>2, <2>3, OthersDropped DEF AllDropped
<1>2. ASSUME NEW l \in Lookups, Receive(l) PROVE AllDropped'
  <2>1. TypeOK /\ Aging
    BY <1>2, SameRecords DEF Inv, Receive
  <2>2. /\ Only(l) /\ thread'[l].resume = thread[l].resume
        /\ thread'[l].limited = thread[l].limited /\ thread'[l].pc = "ended"
        /\ thread'[l].result = NoAnswer
    BY <1>2, RecordFacts DEF Inv, TypeOK, Receive, Only, Thread
  <2>3. Dropped(l)'
    BY <2>1, <2>2, StaysDropped DEF AllDropped, Past, NoAnswer
  <2> QED
    BY <2>1, <2>2, <2>3, OthersDropped DEF AllDropped
<1>3. CASE UNCHANGED thread /\ Aging
  BY <1>3, StaysDropped DEF Inv, AllDropped
<1>4. ASSUME NEW l \in Lookups, TimeOut(l) PROVE AllDropped'
  BY <1>3, <1>4, SameRecords DEF Inv, TimeOut
<1>5. ASSUME NEW i \in Records, CarrierAnswers(i) \/ Expire(i) PROVE AllDropped'
  <2>1. Aging
    BY <1>5 DEF Inv, TypeOK, CarrierAnswers, Expire, Aging, Live
  <2> QED
    BY <1>3, <1>5, <2>1 DEF CarrierAnswers, Expire
<1>6. CASE Crash
  <2>1. \A l \in Lookups :
           \/ thread'[l] = thread[l]
           \/ thread'[l].pc = "ended" /\ thread'[l].result = NoAnswer
    BY <1>6 DEF Crash, NoThread
  <2>2. record' = record
    BY <1>6 DEF Crash
  <2> QED
    BY <2>1, <2>2 DEF AllDropped, Dropped, Past, NoAnswer
<1>7. CASE UNCHANGED vars
  BY <1>3, <1>7, SameRecords DEF Inv, vars
<1> QED
  BY <1>1, <1>2, <1>4, <1>5, <1>6, <1>7, ThreadStepDropped DEF Next, CallStep

-----------------------------------------------------------------------------
(* The theorems. *)

\* Every variable keeps its type: GoCometTracker's counters stay within
\* max_rotations, and every id in use is a record of GoComet's.
THEOREM Types == Spec => []TypeOK
<1>1. Inv => TypeOK
  BY DEF Inv
<1> QED
  BY <1>1, Invariance, PTL

\* A lookup never has two living records that it announced itself: every way
\* out of GoCometTracker.track's polling keeps the paid id or follows its 404.
THEOREM OneLiveRecordHolds == Spec => []OneLiveRecord
<1>1. Inv => OneLiveRecord
  <2> SUFFICES ASSUME Inv, NEW l \in Lookups
               PROVE  Cardinality({i \in told[l] \ {thread[l].resume} : Live(i)}) <= 1
    BY DEF OneLiveRecord
  <2> DEFINE S == {i \in told[l] \ {thread[l].resume} : Live(i)}
  <2>1. \A i, j \in S : i = j
    BY DEF Inv, OneAlive
  <2> HIDE DEF S
  <2>2. S = {} \/ \E i : S = {i}
    BY <2>1
  <2>3. Cardinality(S) <= 1
    <3>1. CASE S = {}
      <4>1. Cardinality(S) = 0
        BY <3>1, FS_EmptySet
      <4> QED
        BY <4>1
    <3>2. ASSUME NEW i, S = {i} PROVE Cardinality(S) <= 1
      <4>1. Cardinality(S) = 1
        BY <3>2, FS_Singleton
      <4> QED
        BY <4>1
    <3> QED
      BY <2>2, <3>1, <3>2
  <2> QED
    BY <2>3 DEF S
<1> QED
  BY <1>1, Invariance, PTL

\* Refinement: GoCometLookups implements the protocol of TrackingProvider.  A
\* lookup's begin is Ask, its answer or timeout Answer, on_created Announce and
\* the end of the process Die; every other step is invisible to the service.
THEOREM ProtocolKept == Spec => KeepsProtocol
<1> DEFINE basis == [l \in Lookups |-> answer[l].id]
<1>1. Init => Protocol!Init
  BY DEF Init, Protocol!Init, NoAnswer
<1>2. Inv /\ [Next]_vars => [Protocol!Next]_Protocol!vars
  <2> SUFFICES ASSUME Inv, [Next]_vars
               PROVE  Protocol!Next \/ UNCHANGED <<call, told, basis>>
    BY DEF Protocol!vars
  <2>1. ASSUME NEW l \in Lookups, Begin(l) PROVE Protocol!Ask(l, row)
    BY <2>1 DEF Begin, Protocol!Ask
  <2>2. ASSUME NEW l \in Lookups, Receive(l), NEW i, i = thread[l].result.id
        PROVE  Protocol!Answer(l, i)
    BY <2>2 DEF Inv, TypeOK, HoldsTold, Receive, Protocol!Answer
  <2>3. ASSUME NEW l \in Lookups, TimeOut(l) PROVE Protocol!Answer(l, NoRecord)
    BY <2>3 DEF Inv, TypeOK, TimeOut, Protocol!Answer, NoAnswer
  <2>4. ASSUME NEW l \in Lookups, Announce(l) PROVE Protocol!Announce(l, thread[l].id)
    <3>1. thread[l].pc \in Creating
      BY <2>4 DEF Announce, At, Creating
    <3>2. call[l] \in {"waiting", "answered"} /\ \A m \in Lookups : thread[l].id \notin told[m]
      BY <3>1 DEF Inv, HoldsTold, Unclaimed, Creating, Working
    <3> QED
      BY <2>4, <3>2 DEF Announce, Protocol!Announce
  <2>5. ASSUME NEW l \in Lookups,
               PollResumed(l) \/ CreateNothing(l) \/ AnnounceFails(l) \/ PollCreated(l)
        PROVE  UNCHANGED <<call, told, basis>>
    BY <2>5 DEF PollResumed, CreateNothing, AnnounceFails, PollCreated
  <2>6. ASSUME NEW l \in Lookups, NEW i \in Records,
               CreateRecord(l, i) \/ CreateUnheard(l, i)
        PROVE  UNCHANGED <<call, told, basis>>
    BY <2>6 DEF CreateRecord, CreateUnheard
  <2>7. ASSUME NEW i \in Records, CarrierAnswers(i) \/ Expire(i)
        PROVE  UNCHANGED <<call, told, basis>>
    BY <2>7 DEF CarrierAnswers, Expire
  <2>8. CASE Crash
    BY <2>8 DEF Crash, Protocol!Next, Protocol!Die
  <2>9. CASE UNCHANGED vars
    BY <2>9 DEF vars
  <2>10. ASSUME NEW l \in Lookups, Begin(l) \/ Receive(l) \/ TimeOut(l) \/ Announce(l)
         PROVE  Protocol!Next
    <3>1. row \in Records \cup {NoRecord} /\ thread[l].result.id \in Records \cup {NoRecord}
      BY DEF Inv, TypeOK, Thread, Result
    <3>2. Announce(l) => thread[l].id \in Records
      BY DEF Inv, HoldsTold, Announce, At, Creating
    <3>3. CASE Begin(l)
      BY <2>1, <3>1, <3>3 DEF Protocol!Next
    <3>4. CASE Receive(l)
      <4>1. PICK i \in Records \cup {NoRecord} : i = thread[l].result.id
        BY <3>1
      <4>2. Protocol!Answer(l, i)
        BY <2>2, <3>4, <4>1
      <4> QED
        BY <4>2 DEF Protocol!Next
    <3>5. CASE TimeOut(l)
      BY <2>3, <3>5 DEF Protocol!Next
    <3>6. CASE Announce(l)
      BY <2>4, <3>2, <3>6 DEF Protocol!Next
    <3> QED
      BY <2>10, <3>3, <3>4, <3>5, <3>6
  <2> QED
    BY <2>5, <2>6, <2>7, <2>8, <2>9, <2>10 DEF Next, CallStep, ThreadStep
<1> QED
  BY <1>1, <1>2, Invariance, PTL DEF Spec, KeepsProtocol, Protocol!Spec

\* The row leaves a paid record for another one only when that record is gone,
\* or for a lookup that was limited while resuming it or had begun without it:
\* the writes of _persist_tracking_id_early and of the service's refresh.
THEOREM SavedRecordKeptHolds == Spec => SavedRecordKept
<1> DEFINE Kept == row # NoRecord /\ row' # row =>
                      \/ record[row] = "gone"
                      \/ \E l \in Lookups :
                            /\ row' \in told'[l]
                            /\ thread[l].limited \/ thread[l].resume # row
<1>1. Init => AllDropped
  BY DEF Init, AllDropped, Dropped, NoThread, Past
<1>2. Inv /\ AllDropped /\ [Next]_vars => AllDropped'
  BY NextDropped
<1>3. Inv /\ AllDropped /\ [Next]_vars => [Kept]_vars
  <2> SUFFICES ASSUME Inv, AllDropped, [Next]_vars, row # NoRecord, row' # row
               PROVE  \/ record[row] = "gone"
                      \/ \E l \in Lookups :
                            /\ row' \in told'[l]
                            /\ thread[l].limited \/ thread[l].resume # row
    OBVIOUS
  <2>1. PICK l \in Lookups : Receive(l) \/ Announce(l)
    BY DEF Next, vars, Begin, CallStep, TimeOut, ThreadStep, PollResumed, CreateNothing,
           AnnounceFails, PollCreated, CreateRecord, CreateUnheard, CarrierAnswers, Expire, Crash
  <2>2. row' \in told'[l]
    BY <2>1 DEF Inv, TypeOK, HoldsTold, Receive, Announce
  <2>3. \/ thread[l].pc \in Past
        \/ thread[l].result.id \notin {NoRecord, thread[l].resume}
    BY <2>1 DEF Receive, Announce, At, Past
  <2>4. CASE thread[l].resume = row /\ ~thread[l].limited
    BY <2>3, <2>4 DEF AllDropped, Dropped
  <2> QED
    BY <2>2, <2>4
<1> QED
  BY <1>1, <1>2, <1>3, Invariance, PTL DEF Spec, SavedRecordKept
=============================================================================

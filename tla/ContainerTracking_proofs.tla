----------------------- MODULE ContainerTracking_proofs ------------------------
(***************************************************************************)
(* Theorems about ContainerTracking, for every number of container         *)
(* numbers, requests, API processes and worker slots, and every bound.     *)
(***************************************************************************)
EXTENDS ContainerTracking, FiniteSetTheorems, TLAPS

-----------------------------------------------------------------------------
(* Types. *)

\* What pc says of the number a request or a job works on.
PlaceOK ==
    /\ \A r \in Requests :
          pc[r] \notin {"idle", "next", "enqueue", "done", "dead"} => num[r] \in Numbers
    /\ \A s \in Slots :
          /\ pc[s] \in {"idle", "scrape", "notify"}
          /\ pc[s] # "idle" => num[s] \in Numbers /\ by[s] \in Requests

TypeInv == TypeOK /\ PlaceOK

\* A row that has just been written.
LEMMA AgeZero == 0 \in Age
  BY ConstantsAssumption DEF Age

LEMMA RowFields ==
    ASSUME NEW R \in Row
    PROVE  /\ R.here \in BOOLEAN /\ R.gen \in Nat /\ R.active \in BOOLEAN
           /\ R.status \in Status /\ R.msg \in Message
  BY DEF Row

LEMMA RowAge ==
    ASSUME NEW R \in Row, NEW a \in Age, NEW b \in BOOLEAN
    PROVE  /\ [R EXCEPT !.age = a] \in Row
           /\ [R EXCEPT !.fresh = b] \in Row
           /\ [R EXCEPT !.active = b, !.age = a] \in Row
  BY DEF Row

LEMMA RowWritten ==
    ASSUME NEW R \in Row, NEW status \in Status, NEW msg \in Message, NEW b \in BOOLEAN,
           NEW a \in Age
    PROVE  /\ [R EXCEPT !.status = status, !.msg = msg, !.age = a] \in Row
           /\ [R EXCEPT !.status = status, !.msg = msg, !.age = a, !.fresh = b] \in Row
  BY DEF Row

\* Every live token is a token.
LEMMA LiveTokensAreTokens ==
    ASSUME TypeInv, NEW n \in Numbers
    PROVE  LiveTokens(n) \in SUBSET Tokens
<1>1. \A j \in queue : j.num = n => JobToken(j) \in Tokens
  BY DEF TypeInv, TypeOK, Job, JobToken, Tokens
<1>2. \A s \in Slots : pc[s] = "scrape" => <<by[s], n>> \in Tokens
  BY DEF TypeInv, PlaceOK, Tokens
<1>3. \A r \in Requests : <<r, n>> \in Tokens
  BY DEF Tokens
<1> QED
  BY <1>1, <1>2, <1>3 DEF LiveTokens

LEMMA TypeInvInit == Init => TypeInv
<1> SUFFICES ASSUME Init PROVE TypeInv
  OBVIOUS
<1>1. TypeOK
  BY AgeZero, ConstantsAssumption
  DEF Init, TypeOK, NoRow, Row, NoSnap, Snap, Status, Message, PC, Procs, NoNumber, NoOne
<1>2. PlaceOK
  BY ConstantsAssumption DEF Init, PlaceOK, Procs
<1> QED
  BY <1>1, <1>2 DEF TypeInv

\* A request that is through with a number.
LEMMA LeaveType ==
    ASSUME TypeInv, NEW r \in Requests, Leave(r)
    PROVE  /\ num' \in [Procs -> Numbers \cup {NoNumber}]
           /\ gen' \in [Procs -> Nat]
           /\ snap' \in [Procs -> Snap]
  BY DEF Leave, TypeInv, TypeOK, Procs, NoSnap, Snap, Status, Message

\* The endpoints read the row and go on, or answer.
LEMMA SubmitType ==
    ASSUME TypeInv, NEW r \in Requests, NEW o \in AllOps, NEW n \in Numbers,
           NEW c \in {"create", "deduct", "done"}, Submit(r, o, n, c)
    PROVE  TypeInv'
<1>1. disowned' \in SUBSET Tokens
  BY LiveTokensAreTokens DEF Submit, TypeInv, TypeOK
<1>2. num' \in [Procs -> Numbers \cup {NoNumber}] /\ gen' \in [Procs -> Nat]
  BY RowFields, LeaveType, SMTT(30) DEF Submit, TypeInv, TypeOK, Procs
<1>3. pc' \in [Procs -> PC] /\ op' \in [Requests -> AllOps \cup {"none"}]
  BY DEF Submit, TypeInv, TypeOK, Procs, PC, Sync, Ended
<1>4. snap' \in [Procs -> Snap]
  BY LeaveType DEF Submit, TypeInv, TypeOK
<1>5. TypeOK'
  BY <1>1, <1>2, <1>3, <1>4 DEF Submit, TypeInv, TypeOK, credits, jobVars
<1>6. PlaceOK'
  BY ConstantsAssumption DEF Submit, Leave, TypeInv, TypeOK, PlaceOK, Procs, credits, jobVars
<1> QED
  BY <1>5, <1>6 DEF TypeInv

LEMMA QueueBulkType ==
    ASSUME TypeInv, NEW r \in Requests, NEW S \in SUBSET Numbers, QueueBulk(r, S)
    PROVE  TypeInv'
<1>1. pc' \in [Procs -> PC] /\ op' \in [Requests -> AllOps \cup {"none"}]
  BY DEF QueueBulk, TypeInv, TypeOK, Procs, PC, Sync, AllOps
<1>2. TypeOK'
  BY <1>1 DEF QueueBulk, TypeInv, TypeOK, credits, jobVars, envVars
<1>3. PlaceOK'
  BY ConstantsAssumption DEF QueueBulk, TypeInv, TypeOK, PlaceOK, Procs, jobVars
<1> QED
  BY <1>2, <1>3 DEF TypeInv

LEMMA StopTrackingType ==
    ASSUME TypeInv, NEW r \in Requests, NEW n \in Numbers, StopTracking(r, n)
    PROVE  TypeInv'
<1>1. pc' \in [Procs -> PC] /\ op' \in [Requests -> AllOps \cup {"none"}]
  BY DEF StopTracking, TypeInv, TypeOK, Procs, PC, Ended, AllOps
<1>2. row' \in [Numbers -> Row]
  <2>1. row[n] \in Row /\ [row[n] EXCEPT !.active = FALSE, !.age = 0] \in Row
    BY AgeZero, RowAge DEF TypeInv, TypeOK
  <2>2. row' = row \/ row' = [row EXCEPT ![n] = [row[n] EXCEPT !.active = FALSE, !.age = 0]]
    BY DEF StopTracking, TypeInv, TypeOK
  <2> QED
    BY <2>1, <2>2 DEF TypeInv, TypeOK
<1>3. TypeOK'
  BY <1>1, <1>2 DEF StopTracking, TypeInv, TypeOK, credits, jobVars, envVars
<1>4. PlaceOK'
  BY ConstantsAssumption DEF StopTracking, TypeInv, TypeOK, PlaceOK, Procs, jobVars
<1> QED
  BY <1>3, <1>4 DEF TypeInv

-----------------------------------------------------------------------------
(* The operators that several actions share. *)

LEMMA WriteType ==
    ASSUME TypeInv, NEW n \in Numbers, NEW status \in Status, NEW msg \in Message,
           Write(n, status, msg)
    PROVE  row' \in [Numbers -> Row]
<1>1. [row[n] EXCEPT !.status = status, !.msg = msg, !.age = 0] \in Row
  BY AgeZero, RowWritten DEF TypeInv, TypeOK
<1>2. row' = [row EXCEPT ![n] = [row[n] EXCEPT !.status = status, !.msg = msg, !.age = 0]]
  BY DEF Write, TypeInv, TypeOK
<1> QED
  BY <1>1, <1>2 DEF TypeInv, TypeOK

LEMMA NewRowType ==
    ASSUME NEW g \in Nat
    PROVE  NoRow(g) \in Row /\ NewRow(g) \in Row
  BY AgeZero DEF NoRow, NewRow, Row, Status, Message

LEMMA BeginScrapeType ==
    ASSUME TypeInv, NEW p \in Procs, NEW t \in Tokens, NEW n \in Numbers, NEW g \in Nat,
           NEW status \in Status, NEW msg \in Message,
           BeginScrape(p, t, n, g, status, msg)
    PROVE  /\ scraped' \in [Tokens -> Nat]
           /\ snap' \in [Procs -> Snap]
           /\ creating' \in SUBSET RowId
  BY DEF BeginScrape, TypeInv, TypeOK, Snap, RowId

LEMMA FinishType ==
    ASSUME TypeInv, NEW p \in Procs, Finish(p)
    PROVE  /\ pc' \in [Procs -> PC]
           /\ num' \in [Procs -> Numbers \cup {NoNumber}]
           /\ gen' \in [Procs -> Nat]
           /\ snap' \in [Procs -> Snap]
           /\ by' \in [Slots -> Requests \cup {NoOne}]
           /\ jobAge' \in [Slots -> 0..JobTimeout]
<1>1. pc' \in [Procs -> PC]
  BY DEF Finish, TypeInv, TypeOK, PC, Ended
<1>2. num' \in [Procs -> Numbers \cup {NoNumber}] /\ gen' \in [Procs -> Nat]
  BY DEF Finish, TypeInv, TypeOK
<1>3. snap' \in [Procs -> Snap]
  BY DEF Finish, TypeInv, TypeOK, NoSnap, Snap, Status, Message
<1>4. by' \in [Slots -> Requests \cup {NoOne}]
  BY DEF Finish, TypeInv, TypeOK
<1>5. jobAge' \in [Slots -> 0..JobTimeout]
  BY ConstantsAssumption DEF Finish, TypeInv, TypeOK
<1> QED
  BY <1>1, <1>2, <1>3, <1>4, <1>5

LEMMA FinishPlace ==
    ASSUME TypeInv, NEW p \in Procs, Finish(p)
    PROVE  PlaceOK'
  BY ConstantsAssumption DEF Finish, TypeInv, TypeOK, PlaceOK, Procs

LEMMA ApplyType ==
    ASSUME TypeInv, NEW p \in Procs, num[p] \in Numbers,
           NEW status \in Status, NEW msg \in Message, Apply(p, status, msg)
    PROVE  row' \in [Numbers -> Row]
<1> DEFINE R == row[num[p]]
           st == IF snap[p].status = status THEN R.status ELSE status
           m == IF snap[p].msg = msg THEN R.msg ELSE msg
<1>1. R \in Row /\ st \in Status /\ m \in Message
  BY RowFields DEF TypeInv, TypeOK
<1>2. [R EXCEPT !.status = st, !.msg = m, !.age = 0, !.fresh = TRUE] \in Row
  BY <1>1, AgeZero, RowWritten
<1>3. row' = [row EXCEPT ![num[p]] =
                [R EXCEPT !.status = st, !.msg = m, !.age = 0, !.fresh = TRUE]]
  BY DEF Apply
<1> QED
  BY <1>2, <1>3 DEF TypeInv, TypeOK

-----------------------------------------------------------------------------
(* One lemma per action: the type invariant survives it. *)

LEMMA CreateAndDeductType ==
    ASSUME TypeInv, NEW r \in Requests, CreateAndDeduct(r)
    PROVE  TypeInv'
<1> DEFINE n == num[r]
<1>1. n \in Numbers /\ r \in Procs /\ row[n].gen \in Nat
  BY RowFields DEF CreateAndDeduct, TypeInv, TypeOK, PlaceOK, Procs
<1>2. row' \in [Numbers -> Row]
  BY <1>1, NewRowType DEF CreateAndDeduct, TypeInv, TypeOK
<1>3. num' \in [Procs -> Numbers \cup {NoNumber}]
  BY LeaveType DEF CreateAndDeduct, TypeInv, TypeOK
<1>4. gen' \in [Procs -> Nat]
  BY <1>1, LeaveType DEF CreateAndDeduct, TypeInv, TypeOK
<1>5. snap' \in [Procs -> Snap]
  BY LeaveType DEF CreateAndDeduct, TypeInv, TypeOK
<1>6. pc' \in [Procs -> PC]
  BY DEF CreateAndDeduct, DeductCredit, QuotaExceeded, TypeInv, TypeOK, PC, Sync, Ended
<1>7. balance' \in Nat /\ paid' \in SUBSET Tokens
  BY <1>1 DEF CreateAndDeduct, DeductCredit, QuotaExceeded, TypeInv, TypeOK, Token, Tokens
<1>8. TypeOK'
  BY <1>2, <1>3, <1>4, <1>5, <1>6, <1>7
  DEF CreateAndDeduct, TypeInv, TypeOK, jobVars, envVars, reqVars
<1>9. PlaceOK'
  BY ConstantsAssumption, <1>1 DEF CreateAndDeduct, DeductCredit, QuotaExceeded, Leave,
    TypeInv, TypeOK, PlaceOK, Procs, jobVars
<1> QED
  BY <1>8, <1>9 DEF TypeInv

LEMMA DeductType ==
    ASSUME TypeInv, NEW r \in Requests, Deduct(r)
    PROVE  TypeInv'
<1>1. num[r] \in Numbers /\ r \in Procs
  BY DEF Deduct, TypeInv, PlaceOK, Procs
<1>2. /\ num' \in [Procs -> Numbers \cup {NoNumber}]
      /\ gen' \in [Procs -> Nat] /\ snap' \in [Procs -> Snap]
  BY LeaveType DEF Deduct, TypeInv, TypeOK
<1>3. pc' \in [Procs -> PC]
  BY DEF Deduct, DeductCredit, QuotaExceeded, TypeInv, TypeOK, PC, Sync, Ended
<1>4. balance' \in Nat /\ paid' \in SUBSET Tokens
  BY <1>1 DEF Deduct, DeductCredit, QuotaExceeded, TypeInv, TypeOK, Token, Tokens
<1>5. TypeOK'
  BY <1>2, <1>3, <1>4 DEF Deduct, TypeInv, TypeOK, jobVars, envVars, reqVars
<1>6. PlaceOK'
  BY ConstantsAssumption, <1>1 DEF Deduct, DeductCredit, QuotaExceeded, Leave,
    TypeInv, TypeOK, PlaceOK, Procs, jobVars
<1> QED
  BY <1>5, <1>6 DEF TypeInv

LEMMA DeleteUnchargedType ==
    ASSUME TypeInv, NEW r \in Requests, DeleteUncharged(r)
    PROVE  TypeInv'
<1>1. num[r] \in Numbers /\ row[num[r]].gen \in Nat
  BY RowFields DEF DeleteUncharged, TypeInv, TypeOK, PlaceOK
<1>2. row' \in [Numbers -> Row]
  BY <1>1, NewRowType DEF DeleteUncharged, TypeInv, TypeOK
<1>3. pc' \in [Procs -> PC]
  BY DEF DeleteUncharged, TypeInv, TypeOK, PC, Ended
<1>4. TypeOK'
  BY <1>2, <1>3, LeaveType
  DEF DeleteUncharged, TypeInv, TypeOK, credits, jobVars, envVars, reqVars
<1>5. PlaceOK'
  BY ConstantsAssumption
  DEF DeleteUncharged, Leave, TypeInv, TypeOK, PlaceOK, Procs, jobVars
<1> QED
  BY <1>4, <1>5 DEF TypeInv

LEMMA RecordEventType ==
    ASSUME TypeInv, NEW r \in Requests, RecordEvent(r)
    PROVE  TypeInv'
<1>1. AfterCharge(r) \in {"mark", "queue", "look"}
  BY DEF AfterCharge
<1>2. num[r] \in Numbers
  BY DEF RecordEvent, TypeInv, PlaceOK
<1>3. recorded' \in SUBSET Tokens
  BY <1>2 DEF RecordEvent, TypeInv, TypeOK, Token, Tokens
<1>4. pc' \in [Procs -> PC]
  BY <1>1 DEF RecordEvent, TypeInv, TypeOK, PC, Sync
<1>5. TypeOK'
  BY <1>3, <1>4 DEF RecordEvent, TypeInv, TypeOK, jobVars, envVars, reqVars
<1>6. PlaceOK'
  BY ConstantsAssumption, <1>1, <1>2 DEF RecordEvent, TypeInv, TypeOK, PlaceOK, Procs, jobVars
<1> QED
  BY <1>5, <1>6 DEF TypeInv

LEMMA AddCreditsType ==
    ASSUME TypeInv, AddCredits
    PROVE  TypeInv'
<1>1. TypeOK'
  BY DEF AddCredits, TypeInv, TypeOK, jobVars, envVars, reqVars
<1>2. PlaceOK'
  BY DEF AddCredits, TypeInv, PlaceOK, jobVars
<1> QED
  BY <1>1, <1>2 DEF TypeInv

LEMMA MarkInProgressType ==
    ASSUME TypeInv, NEW r \in Requests, MarkInProgress(r)
    PROVE  TypeInv'
<1> DEFINE n == num[r]
<1>1. /\ n \in Numbers /\ r \in Procs /\ gen[r] \in Nat /\ Token(r) \in Tokens
      /\ row[n].msg \in Message /\ "in_progress" \in Status
  BY RowFields DEF MarkInProgress, TypeInv, TypeOK, PlaceOK, Procs, Token, Tokens, Status
<1>2. row' \in [Numbers -> Row]
  BY <1>1, WriteType DEF MarkInProgress, TypeInv, TypeOK
<1>3. scraped' \in [Tokens -> Nat] /\ snap' \in [Procs -> Snap] /\ creating' \in SUBSET RowId
  BY <1>1, LeaveType, BeginScrapeType DEF MarkInProgress, TypeInv, TypeOK
<1>4. num' \in [Procs -> Numbers \cup {NoNumber}] /\ gen' \in [Procs -> Nat]
  BY LeaveType DEF MarkInProgress, TypeInv, TypeOK
<1>5. pc' \in [Procs -> PC]
  BY DEF MarkInProgress, TypeInv, TypeOK, PC, Await, Ended
<1>6. TypeOK'
  BY <1>2, <1>3, <1>4, <1>5
  DEF MarkInProgress, TypeInv, TypeOK, credits, jobVars, envVars, reqVars
<1>7. PlaceOK'
  BY ConstantsAssumption, <1>1
  DEF MarkInProgress, Leave, TypeInv, TypeOK, PlaceOK, Procs, jobVars
<1> QED
  BY <1>6, <1>7 DEF TypeInv

LEMMA MarkQueuedType ==
    ASSUME TypeInv, NEW r \in Requests, MarkQueued(r)
    PROVE  TypeInv'
<1>1. num[r] \in Numbers /\ gen[r] \in Nat /\ "queued" \in Status /\ "none" \in Message
  BY DEF MarkQueued, TypeInv, TypeOK, PlaceOK, Procs, Status, Message
<1>2. row' \in [Numbers -> Row]
  BY <1>1, WriteType DEF MarkQueued, TypeInv, TypeOK
<1>3. pc' \in [Procs -> PC] /\ send' \in [Requests -> SUBSET RowId]
  BY <1>1 DEF MarkQueued, TypeInv, TypeOK, PC, Await, Ended, RowId
<1>4. TypeOK'
  BY <1>2, <1>3, LeaveType DEF MarkQueued, TypeInv, TypeOK, credits, jobVars, envVars
<1>5. PlaceOK'
  BY ConstantsAssumption DEF MarkQueued, Leave, TypeInv, TypeOK, PlaceOK, Procs, jobVars
<1> QED
  BY <1>4, <1>5 DEF TypeInv

LEMMA BulkNextType ==
    ASSUME TypeInv, NEW r \in Requests, BulkNext(r)
    PROVE  TypeInv'
<1>1. /\ pc' \in [Procs -> PC] /\ num' \in [Procs -> Numbers \cup {NoNumber}]
      /\ todo' \in [Requests -> SUBSET Numbers]
  BY DEF BulkNext, TypeInv, TypeOK, PC, Sync, Await, Ended
<1>2. TypeOK'
  BY <1>1 DEF BulkNext, TypeInv, TypeOK, credits, jobVars, envVars
<1>3. PlaceOK'
  BY ConstantsAssumption DEF BulkNext, TypeInv, TypeOK, PlaceOK, Procs, jobVars
<1> QED
  BY <1>2, <1>3 DEF TypeInv

LEMMA BulkLookType ==
    ASSUME TypeInv, NEW r \in Requests, BulkLook(r)
    PROVE  TypeInv'
<1>1. num[r] \in Numbers
  BY DEF BulkLook, TypeInv, PlaceOK
<1>2. gen' \in [Procs -> Nat] /\ snap' \in [Procs -> Snap]
  BY <1>1, RowFields DEF BulkLook, TypeInv, TypeOK, Snap
<1>3. pc' \in [Procs -> PC]
  BY DEF BulkLook, TypeInv, TypeOK, PC, Sync
<1>4. TypeOK'
  BY <1>2, <1>3 DEF BulkLook, TypeInv, TypeOK, credits, jobVars, envVars, reqVars
<1>5. PlaceOK'
  BY ConstantsAssumption, <1>1 DEF BulkLook, TypeInv, TypeOK, PlaceOK, Procs, jobVars
<1> QED
  BY <1>4, <1>5 DEF TypeInv

LEMMA BulkInsertType ==
    ASSUME TypeInv, NEW r \in Requests, BulkInsert(r)
    PROVE  TypeInv'
<1>1. num[r] \in Numbers /\ row[num[r]].gen \in Nat
  BY RowFields DEF BulkInsert, TypeInv, TypeOK, PlaceOK
<1>2. row' \in [Numbers -> Row]
  BY <1>1, NewRowType DEF BulkInsert, TypeInv, TypeOK
<1>3. pc' \in [Procs -> PC] /\ send' \in [Requests -> SUBSET RowId]
  <2>1. <<num[r], row[num[r]].gen + 1>> \in RowId
    BY <1>1 DEF RowId
  <2>2. send' \in [Requests -> SUBSET RowId]
    BY <2>1 DEF BulkInsert, Accept, TypeInv, TypeOK
  <2> QED
    BY <2>2 DEF BulkInsert, TypeInv, TypeOK, PC, Sync
<1>4. TypeOK'
  BY <1>2, <1>3, LeaveType DEF BulkInsert, TypeInv, TypeOK, credits, jobVars, envVars
<1>5. PlaceOK'
  BY ConstantsAssumption DEF BulkInsert, Leave, TypeInv, TypeOK, PlaceOK, Procs, jobVars
<1> QED
  BY <1>4, <1>5 DEF TypeInv

LEMMA BulkQueueType ==
    ASSUME TypeInv, NEW r \in Requests, BulkQueue(r)
    PROVE  TypeInv'
<1> DEFINE n == num[r]
           st == IF snap[r].status = "queued" THEN row[n].status ELSE "queued"
           m == IF snap[r].msg = "none" THEN row[n].msg ELSE "none"
<1>1. n \in Numbers /\ gen[r] \in Nat /\ st \in Status /\ m \in Message
  BY RowFields DEF BulkQueue, TypeInv, TypeOK, PlaceOK, Procs, Status, Message
<1>2. row' = row \/ Write(n, st, m)
  BY DEF BulkQueue
<1>3. row' \in [Numbers -> Row]
  BY <1>1, <1>2, WriteType DEF TypeInv, TypeOK
<1>4. pc' \in [Procs -> PC] /\ send' \in [Requests -> SUBSET RowId]
  <2>1. <<n, gen[r]>> \in RowId
    BY <1>1 DEF RowId
  <2>2. send' \in [Requests -> SUBSET RowId]
    BY <2>1 DEF BulkQueue, Accept, TypeInv, TypeOK
  <2> QED
    BY <2>2 DEF BulkQueue, TypeInv, TypeOK, PC, Sync
<1>5. TypeOK'
  BY <1>3, <1>4, LeaveType DEF BulkQueue, TypeInv, TypeOK, credits, jobVars, envVars
<1>6. PlaceOK'
  BY ConstantsAssumption DEF BulkQueue, Leave, TypeInv, TypeOK, PlaceOK, Procs, jobVars
<1> QED
  BY <1>5, <1>6 DEF TypeInv

LEMMA EnqueueScrapeType ==
    ASSUME TypeInv, NEW r \in Requests, EnqueueScrape(r)
    PROVE  TypeInv'
<1>1. queue' \in SUBSET Job
  BY DEF EnqueueScrape, TypeInv, TypeOK, Job, RowId
<1>2. send' \in [Requests -> SUBSET RowId]
  <2>1. PICK id \in send[r] : \/ send' = [send EXCEPT ![r] = @ \ {id}]
                              \/ send' = [send EXCEPT ![r] = {}]
    BY DEF EnqueueScrape
  <2>2. send \in [Requests -> SUBSET RowId]
    BY DEF TypeInv, TypeOK
  <2> QED
    BY <2>1, <2>2
<1>3. pc' \in [Procs -> PC]
  <2>1. pc' = pc \/ pc' = [pc EXCEPT ![r] = "done"]
    BY DEF EnqueueScrape
  <2>2. pc \in [Procs -> PC] /\ "done" \in PC
    BY DEF TypeInv, TypeOK, PC, Ended
  <2> QED
    BY <2>1, <2>2
<1>4. TypeOK'
  BY <1>1, <1>2, <1>3 DEF EnqueueScrape, TypeInv, TypeOK, credits, envVars
<1>5. PlaceOK'
  BY ConstantsAssumption DEF EnqueueScrape, TypeInv, TypeOK, PlaceOK, Procs
<1> QED
  BY <1>4, <1>5 DEF TypeInv

LEMMA StartJobType ==
    ASSUME TypeInv, NEW s \in Slots, StartJob(s)
    PROVE  TypeInv'
<1>1. PICK j \in queue : StartJob(s)!2!(j)
  BY DEF StartJob
<1>2. /\ j.num \in Numbers /\ j.gen \in Nat /\ j.by \in Requests /\ JobToken(j) \in Tokens
      /\ row[j.num].msg \in Message /\ "in_progress" \in Status /\ s \in Procs
  BY RowFields DEF TypeInv, TypeOK, Job, JobToken, Tokens, Status, Procs
<1>3. queue' \in SUBSET Job
  BY <1>1 DEF TypeInv, TypeOK
<1>4. row' \in [Numbers -> Row]
  BY <1>1, <1>2, WriteType DEF TypeInv, TypeOK
<1>5. scraped' \in [Tokens -> Nat] /\ snap' \in [Procs -> Snap] /\ creating' \in SUBSET RowId
  BY <1>1, <1>2, BeginScrapeType DEF TypeInv, TypeOK
<1>6. /\ num' \in [Procs -> Numbers \cup {NoNumber}] /\ gen' \in [Procs -> Nat]
      /\ by' \in [Slots -> Requests \cup {NoOne}]
  BY <1>1, <1>2 DEF TypeInv, TypeOK
<1>7. pc' \in [Procs -> PC]
  BY <1>1 DEF TypeInv, TypeOK, PC, Await
<1>8. UNCHANGED <<credits, jobAge, envVars, reqVars>>
  BY DEF StartJob
<1>9. TypeOK'
  BY <1>3, <1>4, <1>5, <1>6, <1>7, <1>8 DEF TypeInv, TypeOK, credits, envVars, reqVars
<1>10. PlaceOK'
  BY ConstantsAssumption, <1>1, <1>2 DEF TypeInv, TypeOK, PlaceOK, Procs
<1> QED
  BY <1>9, <1>10 DEF TypeInv

\* A scrape stops calling its row its own, and leaves the others nothing.
LEMMA DisownType ==
    ASSUME TypeInv, NEW p \in Procs, num[p] \in Numbers, Disown(p)
    PROVE  disowned' \in SUBSET Tokens
  BY LiveTokensAreTokens DEF Disown, TypeInv, TypeOK

\* A process at a provider call, or after it, works on a number.
LEMMA ScraperHasNumber ==
    ASSUME TypeInv, NEW p \in Procs, pc[p] \in {"scrape", "notify"}
    PROVE  num[p] \in Numbers
  BY DEF TypeInv, PlaceOK, Procs

LEMMA ProviderMissType ==
    ASSUME TypeInv, NEW p \in Procs, ProviderMiss(p)
    PROVE  TypeInv'
<1>1. num[p] \in Numbers /\ "no_data" \in Status /\ "no_data" \in Message
  BY ScraperHasNumber DEF ProviderMiss, Status, Message
<1>2. row' \in [Numbers -> Row]
  BY <1>1, ApplyType DEF ProviderMiss, TypeInv, TypeOK
<1>3. TypeOK'
  BY <1>1, <1>2, DisownType, FinishType
  DEF ProviderMiss, TypeInv, TypeOK, credits, reqVars
<1> QED
  BY <1>3, FinishPlace DEF ProviderMiss, TypeInv

LEMMA ProviderHitType ==
    ASSUME TypeInv, NEW p \in Procs, ProviderHit(p)
    PROVE  TypeInv'
<1>1. num[p] \in Numbers /\ "completed" \in Status /\ "none" \in Message
  BY ScraperHasNumber DEF ProviderHit, Status, Message
<1>2. row' \in [Numbers -> Row]
  BY <1>1, ApplyType DEF ProviderHit, TypeInv, TypeOK
<1>3. TypeOK'
  BY <1>1, <1>2, DisownType, FinishType
  DEF ProviderHit, TypeInv, TypeOK, credits, reqVars
<1> QED
  BY <1>3, FinishPlace DEF ProviderHit, TypeInv

LEMMA ProviderHitNotifyType ==
    ASSUME TypeInv, NEW p \in Procs, ProviderHitNotify(p)
    PROVE  TypeInv'
<1>1. num[p] \in Numbers /\ "completed" \in Status /\ "none" \in Message
  BY ScraperHasNumber DEF ProviderHitNotify, Status, Message
<1>2. row' \in [Numbers -> Row]
  BY <1>1, ApplyType DEF ProviderHitNotify
<1>3. pc' \in [Procs -> PC]
  BY DEF ProviderHitNotify, TypeInv, TypeOK, PC, Await
<1>4. TypeOK'
  BY <1>1, <1>2, <1>3, DisownType
  DEF ProviderHitNotify, TypeInv, TypeOK, credits, jobVars, reqVars
<1>5. PlaceOK'
  BY ConstantsAssumption
  DEF ProviderHitNotify, TypeInv, TypeOK, PlaceOK, Procs, jobVars
<1> QED
  BY <1>4, <1>5 DEF TypeInv

LEMMA NotifiedType ==
    ASSUME TypeInv, NEW p \in Procs, Notified(p)
    PROVE  TypeInv'
<1>1. TypeOK'
  BY FinishType DEF Notified, TypeInv, TypeOK, credits, envVars, reqVars
<1> QED
  BY <1>1, FinishPlace DEF Notified, TypeInv

LEMMA ScrapeRaisesType ==
    ASSUME TypeInv, NEW p \in Procs, ScrapeRaises(p)
    PROVE  TypeInv'
<1>1. num[p] \in Numbers /\ "failed" \in Status /\ "failed" \in Message
  BY ScraperHasNumber DEF ScrapeRaises, Status, Message
<1>2. row' \in [Numbers -> Row]
  BY <1>1, WriteType DEF ScrapeRaises, TypeInv, TypeOK
<1>3. TypeOK'
  BY <1>1, <1>2, DisownType, FinishType
  DEF ScrapeRaises, TypeInv, TypeOK, credits, reqVars
<1> QED
  BY <1>3, FinishPlace DEF ScrapeRaises, TypeInv

LEMMA TrackingIdSavedType ==
    ASSUME TypeInv, NEW id \in creating, TrackingIdSaved(id)
    PROVE  TypeInv'
<1>1. id[1] \in Numbers
  BY DEF TypeInv, TypeOK, RowId
<1>2. [row[id[1]] EXCEPT !.age = 0] \in Row
  BY <1>1, AgeZero, RowAge DEF TypeInv, TypeOK
<1>3. row' = row \/ row' = [row EXCEPT ![id[1]] = [row[id[1]] EXCEPT !.age = 0]]
  BY DEF TrackingIdSaved
<1>4. TypeOK'
  BY <1>2, <1>3
  DEF TrackingIdSaved, TypeInv, TypeOK, credits, jobVars, envVars, reqVars
<1>5. PlaceOK'
  BY DEF TrackingIdSaved, TypeInv, PlaceOK, jobVars
<1> QED
  BY <1>4, <1>5 DEF TypeInv

LEMMA SweepReadType ==
    ASSUME TypeInv, SweepRead
    PROVE  TypeInv'
<1>1. \A n \in Numbers : <<n, row[n].gen, row[n].msg>> \in Numbers \X Nat \X Message
  BY RowFields DEF TypeInv, TypeOK
<1>2. sweep' \in SUBSET (Numbers \X Nat \X Message)
  BY <1>1 DEF SweepRead, FindStuck
<1>3. TypeOK'
  BY <1>2 DEF SweepRead, TypeInv, TypeOK, credits, jobVars, reqVars
<1>4. PlaceOK'
  BY DEF SweepRead, TypeInv, PlaceOK, jobVars
<1> QED
  BY <1>3, <1>4 DEF TypeInv

LEMMA SweepWriteType ==
    ASSUME TypeInv, SweepWrite
    PROVE  TypeInv'
<1>1. \A id \in sweep : id[1] \in Numbers /\ SweptRow(id) \in Row
  <2> SUFFICES ASSUME NEW id \in sweep PROVE id[1] \in Numbers /\ SweptRow(id) \in Row
    OBVIOUS
  <2> DEFINE R == row[id[1]]
             m == IF id[3] = "timeout" THEN R.msg ELSE "timeout"
  <2>1. id[1] \in Numbers /\ R \in Row
    BY DEF TypeInv, TypeOK
  <2>2. m \in Message /\ "failed" \in Status
    BY <2>1, RowFields DEF Message, Status
  <2>3. SweptRow(id) = [R EXCEPT !.status = "failed", !.msg = m, !.age = 0]
    BY <2>1 DEF SweptRow, Row
  <2>4. [R EXCEPT !.status = "failed", !.msg = m, !.age = 0] \in Row
    <3> HIDE DEF R, m
    <3> QED
      BY <2>1, <2>2, AgeZero, RowWritten
  <2> QED
    BY <2>1, <2>3, <2>4
<1>2. row' \in [Numbers -> Row]
  BY <1>1 DEF SweepWrite, TypeInv, TypeOK
<1>3. \A id \in sweep : Contradicted(id) \in SUBSET Tokens
  BY LiveTokensAreTokens DEF TypeInv, TypeOK, Contradicted
<1>4. disowned' \in SUBSET Tokens
  <2>1. UNION {Contradicted(id) : id \in sweep} \in SUBSET Tokens
    BY <1>3
  <2> QED
    BY <2>1 DEF SweepWrite, TypeInv, TypeOK
<1>5. TypeOK'
  BY <1>2, <1>4 DEF SweepWrite, TypeInv, TypeOK, credits, jobVars, reqVars
<1>6. PlaceOK'
  BY DEF SweepWrite, TypeInv, PlaceOK, jobVars
<1> QED
  BY <1>5, <1>6 DEF TypeInv

LEMMA TickType ==
    ASSUME TypeInv, Tick
    PROVE  TypeInv'
<1>1. ASSUME NEW n \in Numbers, ~Stuck(n)
      PROVE  [row[n] EXCEPT !.age = @ + 1] \in Row
  <2>1. row[n] \in Row /\ row[n].age \in Age
    BY DEF TypeInv, TypeOK, Row
  <2>2. row[n].age + 1 \in Age
    BY <2>1, <1>1, ConstantsAssumption DEF Age, Stuck
  <2> QED
    BY <2>1, <2>2, RowAge
<1>2. row' \in [Numbers -> Row]
  BY <1>1 DEF Tick, TypeInv, TypeOK
<1>3. jobAge' \in [Slots -> 0..JobTimeout]
  BY ConstantsAssumption DEF Tick, TypeInv, TypeOK
<1>4. TypeOK'
  BY <1>2, <1>3 DEF Tick, TypeInv, TypeOK, credits, envVars, reqVars
<1>5. PlaceOK'
  BY DEF Tick, TypeInv, PlaceOK
<1> QED
  BY <1>4, <1>5 DEF TypeInv

LEMMA CacheExpiresType ==
    ASSUME TypeInv, NEW n \in Numbers, CacheExpires(n)
    PROVE  TypeInv'
<1>1. [row[n] EXCEPT !.fresh = FALSE] \in Row
  BY AgeZero, RowAge DEF TypeInv, TypeOK
<1>2. row' = [row EXCEPT ![n] = [row[n] EXCEPT !.fresh = FALSE]]
  BY DEF CacheExpires
<1>3. TypeOK'
  BY <1>1, <1>2 DEF CacheExpires, TypeInv, TypeOK, credits, jobVars, envVars, reqVars
<1>4. PlaceOK'
  BY DEF CacheExpires, TypeInv, PlaceOK, jobVars
<1> QED
  BY <1>3, <1>4 DEF TypeInv

LEMMA CrashApiType ==
    ASSUME TypeInv, NEW h \in Servers, CrashApi(h)
    PROVE  TypeInv'
<1>1. crashes' \in [api : Nat, worker : Nat]
  BY DEF CrashApi, TypeInv, TypeOK
<1>2. pc' \in [Procs -> PC]
  BY DEF CrashApi, TypeInv, TypeOK, PC, Ended
<1>3. todo' \in [Requests -> SUBSET Numbers] /\ send' \in [Requests -> SUBSET RowId]
  BY DEF CrashApi, TypeInv, TypeOK
<1>4. num' \in [Procs -> Numbers \cup {NoNumber}] /\ gen' \in [Procs -> Nat]
  BY DEF CrashApi, TypeInv, TypeOK
<1>5. snap' \in [Procs -> Snap]
  BY DEF CrashApi, TypeInv, TypeOK, NoSnap, Snap, Status, Message
<1>6. TypeOK'
  BY <1>1, <1>2, <1>3, <1>4, <1>5 DEF CrashApi, TypeInv, TypeOK, credits, jobVars
<1>7. PlaceOK'
  BY ConstantsAssumption
  DEF CrashApi, TypeInv, TypeOK, PlaceOK, Procs, Sync, Await, jobVars
<1> QED
  BY <1>6, <1>7 DEF TypeInv

LEMMA CrashWorkerType ==
    ASSUME TypeInv, CrashWorker
    PROVE  TypeInv'
<1>1. crashes' \in [api : Nat, worker : Nat] /\ queue' \in SUBSET Job
  BY DEF CrashWorker, RetriedJobs, TypeInv, TypeOK
<1>2. pc' \in [Procs -> PC]
  BY DEF CrashWorker, TypeInv, TypeOK, PC
<1>3. num' \in [Procs -> Numbers \cup {NoNumber}] /\ gen' \in [Procs -> Nat]
  BY DEF CrashWorker, TypeInv, TypeOK
<1>4. snap' \in [Procs -> Snap]
  BY DEF CrashWorker, TypeInv, TypeOK, NoSnap, Snap, Status, Message
<1>5. by' \in [Slots -> Requests \cup {NoOne}] /\ jobAge' \in [Slots -> 0..JobTimeout]
  BY ConstantsAssumption DEF CrashWorker, TypeInv, TypeOK
<1>6. sweep' = {}
  BY DEF CrashWorker
<1>7. TypeOK'
  BY <1>1, <1>2, <1>3, <1>4, <1>5, <1>6 DEF CrashWorker, TypeInv, TypeOK, credits, reqVars
<1>8. PlaceOK'
  BY ConstantsAssumption DEF CrashWorker, TypeInv, TypeOK, PlaceOK, Procs
<1> QED
  BY <1>7, <1>8 DEF TypeInv

LEMMA StutterType ==
    ASSUME TypeInv, UNCHANGED vars
    PROVE  TypeInv'
<1>1. TypeOK'
  BY DEF TypeInv, TypeOK, vars
<1>2. PlaceOK'
  BY DEF TypeInv, PlaceOK, vars
<1> QED
  BY <1>1, <1>2 DEF TypeInv

LEMMA SubmittedType ==
    ASSUME TypeInv, NEW r \in Requests, NEW n \in Numbers,
           Track(r, n) \/ GetOrRefresh(r, n) \/ RequestRefresh(r, n)
    PROVE  TypeInv'
<1>1. CASE Track(r, n)
  BY <1>1, SubmitType DEF Track, AllOps
<1>2. CASE GetOrRefresh(r, n)
  BY <1>2, SubmitType DEF GetOrRefresh, AllOps
<1>3. CASE RequestRefresh(r, n)
  BY <1>3, SubmitType DEF RequestRefresh, AllOps
<1> QED
  BY <1>1, <1>2, <1>3

LEMMA RequestStepType ==
    ASSUME TypeInv, NEW r \in Requests, ClientCalls(r) \/ RequestStep(r)
    PROVE  TypeInv'
<1>1. CASE ClientCalls(r)
  BY <1>1, SubmittedType, StopTrackingType, QueueBulkType DEF ClientCalls
<1>2. CASE RequestStep(r)
  BY <1>2, CreateAndDeductType, DeductType, DeleteUnchargedType, RecordEventType,
    MarkInProgressType, MarkQueuedType, BulkNextType, BulkLookType, BulkInsertType,
    BulkQueueType, EnqueueScrapeType DEF RequestStep
<1> QED
  BY <1>1, <1>2

LEMMA ScrapeEndsType ==
    ASSUME TypeInv, NEW p \in Procs, ScrapeEnds(p)
    PROVE  TypeInv'
  BY ProviderMissType, ProviderHitType, ProviderHitNotifyType, NotifiedType, ScrapeRaisesType
  DEF ScrapeEnds

LEMMA EnvironmentType ==
    ASSUME TypeInv, Environment
    PROVE  TypeInv'
  BY AddCreditsType, TickType, CrashWorkerType, CacheExpiresType, TrackingIdSavedType,
    CrashApiType DEF Environment

LEMMA TypeInvNext == TypeInv /\ [Next]_vars => TypeInv'
<1> SUFFICES ASSUME TypeInv, [Next]_vars PROVE TypeInv'
  OBVIOUS
<1>1. CASE Next
  BY <1>1, RequestStepType, ScrapeEndsType, StartJobType, SweepReadType, SweepWriteType,
    EnvironmentType DEF Next
<1>2. CASE UNCHANGED vars
  BY <1>2, StutterType
<1> QED
  BY <1>1, <1>2

\* Every variable keeps its type, and a process that works on a container
\* always has its number: in particular the balance never goes below zero,
\* however the conditional decrements of concurrent charges interleave.
THEOREM TypeCorrect == Spec => []TypeOK
<1>1. Spec => []TypeInv
  BY TypeInvInit, TypeInvNext, PTL DEF Spec
<1>2. TypeInv => TypeOK
  BY DEF TypeInv
<1> QED
  BY <1>1, <1>2, PTL

-----------------------------------------------------------------------------
(* Where a charge is.  ChargeInOnePlace is inductive given the types: what  *)
(* the steps need to know of a charge is that nobody else holds it.         *)

ChargeInv == TypeInv /\ ChargeInOnePlace

LEMMA ChargeInvInit == Init => ChargeInv
<1> SUFFICES ASSUME Init PROVE ChargeInOnePlace
  BY TypeInvInit DEF ChargeInv
<1>1. ChargedOnce /\ HeldUnspent /\ HeldByOne
  BY DEF Init, ChargedOnce, HeldUnspent, HeldByOne, InHand, ToSend, Queued, Holding, Procs
<1> QED
  BY <1>1 DEF ChargeInOnePlace, Init

\* What a request does in a step that charges nothing: it may take up a
\* number it has not charged yet, and let go of a charge it has in hand.
ChargesNothing(r) ==
    /\ todo'[r] \subseteq todo[r]
    /\ pc'[r] = "idle" => pc[r] = "idle"
    /\ pc'[r] \in Holding => pc[r] \in Holding /\ num'[r] = num[r]
    /\ pc'[r] \in {"create", "deduct"} =>
          \/ pc[r] \in {"create", "deduct"} /\ num'[r] = num[r]
          \/ num'[r] \notin todo'[r] /\ <<r, num'[r]>> \notin paid

LEMMA NoCharge ==
    ASSUME ChargeInOnePlace, UNCHANGED paid, \A r \in Requests : ChargesNothing(r)
    PROVE  /\ ChargedOnce'
           /\ \A r \in Requests, n \in Numbers : InHand(r, n)' => InHand(r, n)
<1>1. ChargedOnce'
  BY DEF ChargesNothing, ChargeInOnePlace, ChargedOnce
<1>2. \A r \in Requests, n \in Numbers : InHand(r, n)' => InHand(r, n)
  BY DEF ChargesNothing, InHand
<1> QED
  BY <1>1, <1>2

\* The simplest case: nothing is handed over either.
LEMMA NoHandOver ==
    ASSUME ChargeInOnePlace, UNCHANGED <<paid, scraped>>, queue' \subseteq queue,
           \A r \in Requests : send'[r] \subseteq send[r] /\ ChargesNothing(r)
    PROVE  ChargeInOnePlace'
<1>1. \A r \in Requests, n \in Numbers :
        /\ InHand(r, n)' => InHand(r, n)
        /\ ToSend(r, n)' => ToSend(r, n)
        /\ Queued(r, n)' => Queued(r, n)
  BY NoCharge DEF ToSend, Queued
<1>2. HeldUnspent' /\ HeldByOne'
  BY <1>1 DEF ChargeInOnePlace, HeldUnspent, HeldByOne
<1>3. (\A t \in Tokens : scraped[t] # 0 => t \in paid)'
  BY DEF ChargeInOnePlace
<1> QED
  BY <1>2, <1>3, NoCharge DEF ChargeInOnePlace

\* A request that moves from one place to another, and no other request.
LEMMA OnlyOneMoves ==
    ASSUME ChargeInv, NEW r \in Requests, NEW c \in PC \ {"idle", "create", "deduct"},
           pc' = [pc EXCEPT ![r] = c],
           num' = num \/ num' = [num EXCEPT ![r] = NoNumber],
           c \in Holding => pc[r] \in Holding /\ num' = num,
           UNCHANGED todo
    PROVE  \A q \in Requests : ChargesNothing(q)
<1>1. \A q \in Requests : pc'[q] = IF q = r THEN c ELSE pc[q]
  BY DEF ChargeInv, TypeInv, TypeOK, Procs
<1>2. \A q \in Requests : q # r => num'[q] = num[q]
  BY DEF ChargeInv, TypeInv, TypeOK, Procs
<1> QED
  BY <1>1, <1>2 DEF ChargesNothing

\* A step that moves no request at all.
LEMMA NobodyMoves ==
    ASSUME \A q \in Requests : pc'[q] = pc[q] /\ num'[q] = num[q] /\ todo'[q] = todo[q]
    PROVE  \A q \in Requests : ChargesNothing(q)
  BY DEF ChargesNothing

\* A request goes through to registry.track, or a job does: its charge is
\* spent and held by nobody any more.
LEMMA ChargeSpent ==
    ASSUME ChargeInv, NEW r \in Requests, NEW n \in Numbers,
           InHand(r, n) \/ Queued(r, n),
           scraped' = [scraped EXCEPT ![<<r, n>>] = @ + 1],
           UNCHANGED <<paid, send>>, queue' \subseteq queue,
           ~InHand(r, n)', ~Queued(r, n)',
           \A q \in Requests : ChargesNothing(q)
    PROVE  ChargeInOnePlace'
<1>1. <<r, n>> \in paid /\ <<r, n>> \in Tokens /\ ~ToSend(r, n)
  BY DEF ChargeInv, ChargeInOnePlace, HeldUnspent, HeldByOne, Tokens
<1>2. \A q \in Requests, m \in Numbers :
        /\ InHand(q, m)' => InHand(q, m) /\ <<q, m>> # <<r, n>>
        /\ ToSend(q, m)' => ToSend(q, m) /\ <<q, m>> # <<r, n>>
        /\ Queued(q, m)' => Queued(q, m) /\ <<q, m>> # <<r, n>>
  BY <1>1, NoCharge DEF ChargeInv, ToSend, Queued
<1>3. \A t \in Tokens : t # <<r, n>> => scraped'[t] = scraped[t]
  BY DEF ChargeInv, TypeInv, TypeOK
<1>4. HeldUnspent'
  BY <1>2, <1>3 DEF ChargeInv, ChargeInOnePlace, HeldUnspent, Tokens
<1>5. HeldByOne'
  BY <1>2 DEF ChargeInv, ChargeInOnePlace, HeldByOne
<1>6. (\A t \in Tokens : scraped[t] # 0 => t \in paid)'
  BY <1>1, <1>3 DEF ChargeInv, ChargeInOnePlace
<1> QED
  BY <1>4, <1>5, <1>6, NoCharge DEF ChargeInv, ChargeInOnePlace

\* A charge goes from the request's hand to the rows it will enqueue.
LEMMA ChargeToSend ==
    ASSUME ChargeInv, NEW r \in Requests, NEW n \in Numbers, NEW g \in Nat, InHand(r, n),
           \/ send' = [send EXCEPT ![r] = @ \cup {<<n, g>>}]
           \/ send' = [send EXCEPT ![r] = {<<n, g>>}],
           UNCHANGED <<paid, scraped, queue>>,
           ~InHand(r, n)',
           \A q \in Requests : ChargesNothing(q)
    PROVE  ChargeInOnePlace'
<1>1. <<r, n>> \in paid /\ scraped[<<r, n>>] = 0 /\ ~ToSend(r, n) /\ ~Queued(r, n)
  BY DEF ChargeInv, ChargeInOnePlace, HeldUnspent, HeldByOne
<1>2. \A q \in Requests : \A id \in send'[q] : id \in send[q] \/ (q = r /\ id = <<n, g>>)
  BY DEF ChargeInv, TypeInv, TypeOK
<1>3. \A q \in Requests, m \in Numbers :
        /\ InHand(q, m)' => InHand(q, m) /\ <<q, m>> # <<r, n>>
        /\ ToSend(q, m)' => ToSend(q, m) \/ <<q, m>> = <<r, n>>
        /\ Queued(q, m)' <=> Queued(q, m)
  BY <1>2, NoCharge DEF ChargeInv, ToSend, Queued
<1>4. HeldUnspent'
  BY <1>1, <1>3 DEF ChargeInv, ChargeInOnePlace, HeldUnspent
<1>5. \A q \in Requests : \A a, b \in send'[q] : a[1] = b[1] => a = b
  BY <1>1, <1>2 DEF ChargeInv, ChargeInOnePlace, HeldByOne, ToSend
<1>6. HeldByOne'
  BY <1>1, <1>3, <1>5 DEF ChargeInv, ChargeInOnePlace, HeldByOne
<1>7. (\A t \in Tokens : scraped[t] # 0 => t \in paid)'
  BY DEF ChargeInv, ChargeInOnePlace
<1> QED
  BY <1>4, <1>6, <1>7, NoCharge DEF ChargeInv, ChargeInOnePlace

LEMMA SubmitCharge ==
    ASSUME ChargeInv, NEW r \in Requests, NEW o \in AllOps, NEW n \in Numbers,
           NEW c \in {"create", "deduct", "done"}, Submit(r, o, n, c)
    PROVE  ChargeInOnePlace'
<1>1. <<r, n>> \notin paid
  BY DEF Submit, ChargeInv, ChargeInOnePlace, ChargedOnce
<1>2. \A q \in Requests : pc'[q] = IF q = r THEN c ELSE pc[q]
  BY DEF Submit, ChargeInv, TypeInv, TypeOK, Procs
<1>3. \A q \in Requests :
        /\ q # r => num'[q] = num[q]
        /\ c # "done" => num'[r] = n
  BY DEF Submit, Leave, ChargeInv, TypeInv, TypeOK, Procs
<1>4. n \notin todo'[r]
  BY DEF Submit, ChargeInv, ChargeInOnePlace, ChargedOnce
<1>5. \A q \in Requests : ChargesNothing(q)
  BY <1>1, <1>2, <1>3, <1>4 DEF Submit, ChargesNothing, Holding
<1> QED
  BY <1>5, NoHandOver DEF Submit, ChargeInv, credits, jobVars

LEMMA QueueBulkCharge ==
    ASSUME ChargeInv, NEW r \in Requests, NEW S \in SUBSET Numbers, QueueBulk(r, S)
    PROVE  ChargeInOnePlace'
<1>1. \A n \in Numbers : <<r, n>> \notin paid
  BY DEF QueueBulk, ChargeInv, ChargeInOnePlace, ChargedOnce
<1>2. \A q \in Requests : /\ pc'[q] = IF q = r THEN "next" ELSE pc[q]
                          /\ todo'[q] = IF q = r THEN S ELSE todo[q]
  BY DEF QueueBulk, ChargeInv, TypeInv, TypeOK, Procs
<1>3. ChargedOnce'
  BY <1>1, <1>2 DEF QueueBulk, ChargeInv, ChargeInOnePlace, ChargedOnce, credits
<1>4. \A q \in Requests, n \in Numbers :
        /\ InHand(q, n)' => InHand(q, n)
        /\ ToSend(q, n)' <=> ToSend(q, n)
        /\ Queued(q, n)' <=> Queued(q, n)
  BY <1>2 DEF QueueBulk, InHand, ToSend, Queued, Holding, jobVars
<1>5. HeldUnspent' /\ HeldByOne'
  BY <1>4 DEF QueueBulk, ChargeInv, ChargeInOnePlace, HeldUnspent, HeldByOne, credits, jobVars
<1>6. (\A t \in Tokens : scraped[t] # 0 => t \in paid)'
  BY DEF QueueBulk, ChargeInv, ChargeInOnePlace, credits
<1> QED
  BY <1>3, <1>5, <1>6 DEF ChargeInOnePlace

\* A new charge: the token was not paid, so nobody held it.
LEMMA DeductCreditCharge ==
    ASSUME ChargeInv, NEW r \in Requests, pc[r] \in {"create", "deduct"}, DeductCredit(r),
           num' = num, UNCHANGED <<scraped, queue, send, todo>>
    PROVE  ChargeInOnePlace'
<1>1. num[r] \in Numbers /\ Token(r) = <<r, num[r]>> /\ Token(r) \in Tokens
  BY DEF ChargeInv, TypeInv, PlaceOK, Token, Tokens
<1>2. Token(r) \notin paid /\ num[r] \notin todo[r] /\ paid' = paid \cup {<<r, num[r]>>}
  BY <1>1 DEF DeductCredit, ChargeInv, ChargeInOnePlace, ChargedOnce
<1>3. scraped[<<r, num[r]>>] = 0 /\ ~ToSend(r, num[r]) /\ ~Queued(r, num[r])
  BY <1>1, <1>2 DEF ChargeInv, ChargeInOnePlace, HeldUnspent
<1>4. \A q \in Requests : pc'[q] = IF q = r THEN "record" ELSE pc[q]
  BY DEF DeductCredit, ChargeInv, TypeInv, TypeOK, Procs
<1>5. ChargedOnce'
  BY <1>2, <1>4 DEF ChargeInv, ChargeInOnePlace, ChargedOnce
<1>6. \A q \in Requests, n \in Numbers :
        /\ InHand(q, n)' => InHand(q, n) \/ (q = r /\ n = num[r])
        /\ ToSend(q, n)' <=> ToSend(q, n)
        /\ Queued(q, n)' <=> Queued(q, n)
  BY <1>4 DEF InHand, ToSend, Queued
<1>7. HeldUnspent' /\ HeldByOne'
  BY <1>2, <1>3, <1>6 DEF ChargeInv, ChargeInOnePlace, HeldUnspent, HeldByOne
<1>8. (\A t \in Tokens : scraped[t] # 0 => t \in paid)'
  BY <1>2 DEF ChargeInv, ChargeInOnePlace
<1> QED
  BY <1>5, <1>7, <1>8 DEF ChargeInOnePlace

LEMMA CreateAndDeductCharge ==
    ASSUME ChargeInv, NEW r \in Requests, CreateAndDeduct(r)
    PROVE  ChargeInOnePlace'
<1>1. CASE DeductCredit(r) /\ num' = num
  BY <1>1, DeductCreditCharge DEF CreateAndDeduct, jobVars, reqVars
<1>2. ASSUME NEW c \in {"undo", "done"}, pc' = [pc EXCEPT ![r] = c],
             num' = num \/ Leave(r), UNCHANGED paid
      PROVE  ChargeInOnePlace'
  <2>1. \A q \in Requests : ChargesNothing(q)
    BY <1>2, OnlyOneMoves DEF CreateAndDeduct, Leave, reqVars, Holding, PC, Sync, Ended
  <2> QED
    BY <1>2, <2>1, NoHandOver DEF CreateAndDeduct, ChargeInv, jobVars, reqVars
<1> QED
  BY <1>1, <1>2 DEF CreateAndDeduct, QuotaExceeded

LEMMA DeductCharge ==
    ASSUME ChargeInv, NEW r \in Requests, Deduct(r)
    PROVE  ChargeInOnePlace'
<1>1. CASE DeductCredit(r) /\ num' = num
  BY <1>1, DeductCreditCharge DEF Deduct, jobVars, reqVars
<1>2. ASSUME NEW c \in {"next", "done"}, pc' = [pc EXCEPT ![r] = c], Leave(r), UNCHANGED paid
      PROVE  ChargeInOnePlace'
  <2>1. \A q \in Requests : ChargesNothing(q)
    BY <1>2, OnlyOneMoves DEF Deduct, Leave, reqVars, Holding, PC, Sync, Ended
  <2> QED
    BY <1>2, <2>1, NoHandOver DEF Deduct, ChargeInv, jobVars, reqVars
<1> QED
  BY <1>1, <1>2 DEF Deduct, QuotaExceeded

LEMMA StopTrackingCharge ==
    ASSUME ChargeInv, NEW r \in Requests, NEW n \in Numbers, StopTracking(r, n)
    PROVE  ChargeInOnePlace'
<1>1. \A q \in Requests : ChargesNothing(q)
  BY OnlyOneMoves DEF StopTracking, Holding, PC, Ended
<1> QED
  BY <1>1, NoHandOver DEF StopTracking, ChargeInv, credits, jobVars

LEMMA DeleteUnchargedCharge ==
    ASSUME ChargeInv, NEW r \in Requests, DeleteUncharged(r)
    PROVE  ChargeInOnePlace'
<1>1. \A q \in Requests : ChargesNothing(q)
  BY OnlyOneMoves DEF DeleteUncharged, Leave, reqVars, Holding, PC, Ended
<1> QED
  BY <1>1, NoHandOver DEF DeleteUncharged, ChargeInv, credits, jobVars, reqVars

LEMMA RecordEventCharge ==
    ASSUME ChargeInv, NEW r \in Requests, RecordEvent(r)
    PROVE  ChargeInOnePlace'
<1>1. AfterCharge(r) \in Holding /\ AfterCharge(r) \in PC \ {"idle", "create", "deduct"}
  BY DEF AfterCharge, Holding, PC, Sync
<1>2. \A q \in Requests : ChargesNothing(q)
  BY <1>1, OnlyOneMoves DEF RecordEvent, reqVars, Holding
<1> QED
  BY <1>2, NoHandOver DEF RecordEvent, ChargeInv, jobVars, reqVars

LEMMA MarkInProgressCharge ==
    ASSUME ChargeInv, NEW r \in Requests, MarkInProgress(r)
    PROVE  ChargeInOnePlace'
<1>1. \A q \in Requests : ChargesNothing(q)
  BY OnlyOneMoves DEF MarkInProgress, Leave, reqVars, Holding, PC, Await, Ended
<1>2. CASE UNCHANGED scraped
  BY <1>1, <1>2, NoHandOver DEF MarkInProgress, ChargeInv, credits, jobVars, reqVars
<1>3. CASE ~(UNCHANGED scraped)
  <2>1. PICK n \in Numbers : n = num[r]
    BY DEF MarkInProgress, ChargeInv, TypeInv, PlaceOK
  <2>2. scraped' = [scraped EXCEPT ![<<r, n>>] = @ + 1] /\ pc' = [pc EXCEPT ![r] = "scrape"]
    BY <1>3, <2>1 DEF MarkInProgress, BeginScrape, Token
  <2>3. InHand(r, n) /\ ~InHand(r, n)' /\ ~Queued(r, n)
    BY <2>1, <2>2 DEF MarkInProgress, InHand, Holding, ChargeInv, ChargeInOnePlace, HeldByOne,
      TypeInv, TypeOK, Procs
  <2>4. queue' = queue /\ send' = send /\ paid' = paid
    BY DEF MarkInProgress, credits, jobVars, reqVars
  <2>5. ~Queued(r, n)'
    BY <2>3, <2>4 DEF Queued
  <2> QED
    BY <1>1, <2>2, <2>3, <2>4, <2>5, ChargeSpent
<1> QED
  BY <1>2, <1>3

LEMMA MarkQueuedCharge ==
    ASSUME ChargeInv, NEW r \in Requests, MarkQueued(r)
    PROVE  ChargeInOnePlace'
<1>1. PICK n \in Numbers : n = num[r]
  BY DEF MarkQueued, ChargeInv, TypeInv, PlaceOK
<1>2. PICK c \in {"enqueue", "done"} : pc' = [pc EXCEPT ![r] = c]
  BY DEF MarkQueued
<1>3. \A q \in Requests : ChargesNothing(q)
  BY <1>2, OnlyOneMoves DEF MarkQueued, Leave, Holding, PC, Await, Ended
<1>4. CASE UNCHANGED send
  BY <1>3, <1>4, NoHandOver DEF MarkQueued, ChargeInv, credits, jobVars
<1>5. CASE send' = [send EXCEPT ![r] = {<<num[r], gen[r]>>}]
  <2>1. InHand(r, n) /\ ~InHand(r, n)' /\ gen[r] \in Nat
    BY <1>1, <1>2 DEF MarkQueued, InHand, Holding, ChargeInv, TypeInv, TypeOK, Procs
  <2> QED
    BY <1>1, <1>3, <1>5, <2>1, ChargeToSend DEF MarkQueued, credits, jobVars
<1> QED
  BY <1>4, <1>5 DEF MarkQueued

LEMMA BulkNextCharge ==
    ASSUME ChargeInv, NEW r \in Requests, BulkNext(r)
    PROVE  ChargeInOnePlace'
<1>1. CASE UNCHANGED <<num, todo>>
  <2>1. PICK c \in {"enqueue", "done", "deduct"} : pc' = [pc EXCEPT ![r] = c]
    BY DEF BulkNext
  <2>2. \A q \in Requests : ChargesNothing(q)
    BY <1>1, <2>1, OnlyOneMoves DEF BulkNext, Holding, PC, Await, Ended,
      ChargeInv, TypeInv, TypeOK, ChargesNothing, Procs
  <2> QED
    BY <2>2, NoHandOver DEF BulkNext, ChargeInv, credits, jobVars
<1>2. ASSUME NEW n \in todo[r], num' = [num EXCEPT ![r] = n],
             todo' = [todo EXCEPT ![r] = @ \ {n}], pc' = [pc EXCEPT ![r] = "deduct"]
      PROVE  ChargeInOnePlace'
  <2>1. n \in Numbers /\ <<r, n>> \notin paid
    BY DEF ChargeInv, ChargeInOnePlace, ChargedOnce, TypeInv, TypeOK
  <2>2. \A q \in Requests : ChargesNothing(q)
    BY <1>2, <2>1 DEF ChargesNothing, Holding, ChargeInv, TypeInv, TypeOK, Procs
  <2> QED
    BY <2>2, NoHandOver DEF BulkNext, ChargeInv, credits, jobVars
<1> QED
  BY <1>1, <1>2 DEF BulkNext

LEMMA BulkLookCharge ==
    ASSUME ChargeInv, NEW r \in Requests, BulkLook(r)
    PROVE  ChargeInOnePlace'
<1>1. PICK c \in {"queue", "insert"} : pc' = [pc EXCEPT ![r] = c]
  BY DEF BulkLook
<1>2. \A q \in Requests : ChargesNothing(q)
  BY <1>1, OnlyOneMoves DEF BulkLook, reqVars, Holding, PC, Sync
<1> QED
  BY <1>2, NoHandOver DEF BulkLook, ChargeInv, credits, jobVars, reqVars

LEMMA BulkInsertCharge ==
    ASSUME ChargeInv, NEW r \in Requests, BulkInsert(r)
    PROVE  ChargeInOnePlace'
<1>1. PICK n \in Numbers : n = num[r]
  BY DEF BulkInsert, ChargeInv, TypeInv, PlaceOK
<1>2. \A q \in Requests : ChargesNothing(q)
  BY OnlyOneMoves DEF BulkInsert, Leave, Holding, PC, Sync
<1>3. CASE UNCHANGED send
  BY <1>2, <1>3, NoHandOver DEF BulkInsert, ChargeInv, credits, jobVars
<1>4. CASE Accept(r, <<num[r], row[num[r]].gen + 1>>)
  <2>1. row[n].gen + 1 \in Nat
    BY RowFields DEF ChargeInv, TypeInv, TypeOK
  <2>2. InHand(r, n) /\ ~InHand(r, n)'
    BY <1>1 DEF BulkInsert, InHand, Holding, ChargeInv, TypeInv, TypeOK, Procs
  <2> QED
    BY <1>1, <1>2, <1>4, <2>1, <2>2, ChargeToSend DEF BulkInsert, Accept, credits, jobVars
<1> QED
  BY <1>3, <1>4 DEF BulkInsert

LEMMA BulkQueueCharge ==
    ASSUME ChargeInv, NEW r \in Requests, BulkQueue(r)
    PROVE  ChargeInOnePlace'
<1>1. PICK n \in Numbers : n = num[r]
  BY DEF BulkQueue, ChargeInv, TypeInv, PlaceOK
<1>2. \A q \in Requests : ChargesNothing(q)
  BY OnlyOneMoves DEF BulkQueue, Leave, Holding, PC, Sync
<1>3. CASE UNCHANGED send
  BY <1>2, <1>3, NoHandOver DEF BulkQueue, ChargeInv, credits, jobVars
<1>4. CASE Accept(r, <<num[r], gen[r]>>)
  <2>1. gen[r] \in Nat
    BY DEF ChargeInv, TypeInv, TypeOK, Procs
  <2>2. InHand(r, n) /\ ~InHand(r, n)'
    BY <1>1 DEF BulkQueue, InHand, Holding, ChargeInv, TypeInv, TypeOK, Procs
  <2> QED
    BY <1>1, <1>2, <1>4, <2>1, <2>2, ChargeToSend DEF BulkQueue, Accept, credits, jobVars
<1> QED
  BY <1>3, <1>4 DEF BulkQueue

LEMMA EnqueueScrapeCharge ==
    ASSUME ChargeInv, NEW r \in Requests, EnqueueScrape(r)
    PROVE  ChargeInOnePlace'
<1>1. \A q \in Requests : ChargesNothing(q)
  BY DEF EnqueueScrape, ChargesNothing, Holding, ChargeInv, TypeInv, TypeOK, Procs
<1>2. \A q \in Requests : send'[q] \subseteq send[q]
  BY DEF EnqueueScrape, ChargeInv, TypeInv, TypeOK
<1>3. CASE UNCHANGED queue
  BY <1>1, <1>2, <1>3, NoHandOver DEF EnqueueScrape, ChargeInv, credits
<1>4. ASSUME NEW id \in send[r],
             queue' = queue \cup {[num |-> id[1], gen |-> id[2], by |-> r]},
             send' = [send EXCEPT ![r] = @ \ {id}]
      PROVE  ChargeInOnePlace'
  <2>1. PICK n \in Numbers : n = id[1]
    BY DEF ChargeInv, TypeInv, TypeOK, RowId
  <2>2. ToSend(r, n) /\ ~InHand(r, n) /\ ~Queued(r, n)
    BY <2>1 DEF ToSend, ChargeInv, ChargeInOnePlace, HeldByOne
  <2>3. <<r, n>> \in paid /\ scraped[<<r, n>>] = 0
    BY <2>2 DEF ChargeInv, ChargeInOnePlace, HeldUnspent
  <2>4. ~ToSend(r, n)'
    BY <1>4, <2>1 DEF ToSend, ChargeInv, ChargeInOnePlace, HeldByOne, TypeInv, TypeOK
  <2>5. \A q \in Requests, m \in Numbers :
          /\ InHand(q, m)' => InHand(q, m)
          /\ ToSend(q, m)' => ToSend(q, m)
          /\ Queued(q, m)' => Queued(q, m) \/ <<q, m>> = <<r, n>>
    <3>1. \A q \in Requests, m \in Numbers : InHand(q, m)' => InHand(q, m)
      BY <1>1, NoCharge DEF EnqueueScrape, ChargeInv, credits
    <3>2. \A q \in Requests, m \in Numbers : ToSend(q, m)' => ToSend(q, m)
      BY <1>2 DEF ToSend
    <3>3. \A q \in Requests, m \in Numbers :
            Queued(q, m)' => Queued(q, m) \/ <<q, m>> = <<r, n>>
      BY <1>4, <2>1 DEF Queued
    <3> QED
      BY <3>1, <3>2, <3>3
  <2>6. HeldUnspent'
    BY <2>3, <2>5 DEF EnqueueScrape, ChargeInv, ChargeInOnePlace, HeldUnspent, credits
  <2>7. \A j, k \in queue' : j.by = k.by /\ j.num = k.num => j = k
    BY <1>4, <2>1, <2>2 DEF Queued, ChargeInv, ChargeInOnePlace, HeldByOne
  <2>8. HeldByOne'
    BY <1>2, <2>2, <2>4, <2>5, <2>7 DEF ChargeInv, ChargeInOnePlace, HeldByOne
  <2>9. (\A t \in Tokens : scraped[t] # 0 => t \in paid)'
    BY DEF EnqueueScrape, ChargeInv, ChargeInOnePlace, credits
  <2> QED
    BY <1>1, <2>6, <2>8, <2>9, NoCharge DEF EnqueueScrape, ChargeInv, ChargeInOnePlace, credits
<1> QED
  BY <1>3, <1>4 DEF EnqueueScrape

LEMMA StartJobCharge ==
    ASSUME ChargeInv, NEW s \in Slots, StartJob(s)
    PROVE  ChargeInOnePlace'
<1>1. PICK j \in queue : StartJob(s)!2!(j)
  BY DEF StartJob
<1>2. \A q \in Requests : pc'[q] = pc[q] /\ num'[q] = num[q] /\ todo'[q] = todo[q]
  BY ConstantsAssumption, <1>1
  DEF StartJob, reqVars, ChargeInv, TypeInv, TypeOK, Procs
<1>3. \A q \in Requests : ChargesNothing(q)
  BY <1>2, NobodyMoves
<1>4. queue' \subseteq queue /\ UNCHANGED <<paid, send>>
  BY <1>1 DEF StartJob, credits, reqVars
<1>5. CASE UNCHANGED scraped
  BY <1>3, <1>4, <1>5, NoHandOver DEF ChargeInv
<1>6. CASE ~(UNCHANGED scraped)
  <2>1. PICK r \in Requests, n \in Numbers : r = j.by /\ n = j.num
    BY DEF ChargeInv, TypeInv, TypeOK, Job
  <2>2. scraped' = [scraped EXCEPT ![<<r, n>>] = @ + 1]
    BY <1>1, <1>6, <2>1 DEF BeginScrape, JobToken
  <2>3. Queued(r, n) /\ ~InHand(r, n)
    BY <2>1 DEF Queued, ChargeInv, ChargeInOnePlace, HeldByOne
  <2>4. ~Queued(r, n)'
    BY <1>1, <2>1 DEF Queued, ChargeInv, ChargeInOnePlace, HeldByOne
  <2>5. ~InHand(r, n)'
    BY <1>2, <2>3 DEF InHand
  <2> QED
    BY <1>3, <1>4, <2>2, <2>3, <2>4, <2>5, ChargeSpent
<1> QED
  BY <1>5, <1>6

LEMMA ScrapeEndsCharge ==
    ASSUME ChargeInv, NEW p \in Procs, ScrapeEnds(p)
    PROVE  ChargeInOnePlace'
<1>1. /\ UNCHANGED <<paid, scraped, queue, todo, send>>
      /\ Finish(p) \/ (pc' = [pc EXCEPT ![p] = "notify"] /\ num' = num)
  BY DEF ScrapeEnds, ProviderMiss, ProviderHit, ProviderHitNotify, Notified, ScrapeRaises,
    credits, jobVars, reqVars
<1>2. \A q \in Requests :
        /\ q # p => pc'[q] = pc[q] /\ num'[q] = num[q]
        /\ q = p => pc'[q] \in {"done", "notify"}
  BY ConstantsAssumption, <1>1 DEF Finish, ChargeInv, TypeInv, TypeOK, Procs
<1>3. \A q \in Requests : ChargesNothing(q)
  BY <1>1, <1>2 DEF ChargesNothing, Holding
<1> QED
  BY <1>1, <1>3, NoHandOver DEF ChargeInv

LEMMA SweepCharge ==
    ASSUME ChargeInv, SweepRead \/ SweepWrite
    PROVE  ChargeInOnePlace'
<1>1. \A q \in Requests : ChargesNothing(q)
  BY NobodyMoves DEF SweepRead, SweepWrite, reqVars
<1> QED
  BY <1>1, NoHandOver DEF SweepRead, SweepWrite, ChargeInv, credits, jobVars, reqVars

LEMMA CrashCharge ==
    ASSUME ChargeInv, CrashWorker \/ (\E h \in Servers : CrashApi(h))
    PROVE  ChargeInOnePlace'
<1>1. CASE CrashWorker
  <2>1. \A q \in Requests : ChargesNothing(q)
    BY ConstantsAssumption, <1>1, NobodyMoves DEF CrashWorker, reqVars, Procs,
      ChargeInv, TypeInv, TypeOK
  <2> QED
    BY <1>1, <2>1, NoHandOver DEF CrashWorker, RetriedJobs, ChargeInv, credits, reqVars
<1>2. ASSUME NEW h \in Servers, CrashApi(h)
      PROVE  ChargeInOnePlace'
  <2>1. \A q \in Requests :
          /\ pc'[q] \in {"dead", "lost"} \/ (pc'[q] = pc[q] /\ num'[q] = num[q])
          /\ todo'[q] \subseteq todo[q] /\ send'[q] \subseteq send[q]
    BY <1>2 DEF CrashApi, Procs, ChargeInv, TypeInv, TypeOK
  <2>2. \A q \in Requests : ChargesNothing(q)
    BY <2>1 DEF ChargesNothing, Holding
  <2> QED
    BY <1>2, <2>1, <2>2, NoHandOver DEF CrashApi, ChargeInv, credits, jobVars
<1> QED
  BY <1>1, <1>2

LEMMA EnvironmentCharge ==
    ASSUME ChargeInv, Environment
    PROVE  ChargeInOnePlace'
<1>1. CASE AddCredits \/ Tick \/ (\E n \in Numbers : CacheExpires(n))
           \/ (\E id \in creating : TrackingIdSaved(id))
  <2>1. /\ UNCHANGED <<paid, scraped, queue, send>>
        /\ \A q \in Requests : pc'[q] = pc[q] /\ num'[q] = num[q] /\ todo'[q] = todo[q]
    BY <1>1 DEF AddCredits, Tick, CacheExpires, TrackingIdSaved, credits, jobVars, reqVars
  <2> QED
    BY <2>1, NobodyMoves, NoHandOver DEF ChargeInv
<1>2. CASE CrashWorker \/ (\E h \in Servers : CrashApi(h))
  BY <1>2, CrashCharge
<1> QED
  BY <1>1, <1>2 DEF Environment

LEMMA RequestStepCharge ==
    ASSUME ChargeInv, NEW r \in Requests, ClientCalls(r) \/ RequestStep(r)
    PROVE  ChargeInOnePlace'
<1>1. ASSUME NEW n \in Numbers, Track(r, n) \/ GetOrRefresh(r, n) \/ RequestRefresh(r, n)
      PROVE  ChargeInOnePlace'
  BY <1>1, SubmitCharge DEF Track, GetOrRefresh, RequestRefresh, AllOps
<1>2. CASE ClientCalls(r)
  BY <1>1, <1>2, StopTrackingCharge, QueueBulkCharge DEF ClientCalls
<1>3. CASE RequestStep(r)
  BY <1>3, CreateAndDeductCharge, DeductCharge, DeleteUnchargedCharge, RecordEventCharge,
    MarkInProgressCharge, MarkQueuedCharge, BulkNextCharge, BulkLookCharge,
    BulkInsertCharge, BulkQueueCharge, EnqueueScrapeCharge DEF RequestStep
<1> QED
  BY <1>2, <1>3

LEMMA ChargeInvNext == ChargeInv /\ [Next]_vars => ChargeInv'
<1> SUFFICES ASSUME ChargeInv, [Next]_vars PROVE ChargeInOnePlace'
  BY TypeInvNext DEF ChargeInv
<1>1. CASE Next
  BY <1>1, RequestStepCharge, ScrapeEndsCharge, StartJobCharge, SweepCharge,
    EnvironmentCharge DEF Next
<1>2. CASE UNCHANGED vars
  BY <1>2, NobodyMoves, NoHandOver DEF ChargeInv, vars
<1> QED
  BY <1>1, <1>2

\* Whatever the interleaving, a charge that has not reached the providers is
\* in the hand of its request, with a row to be enqueued, or in one job, and
\* in no two of them: no retry, crash or repeated number duplicates it.
THEOREM ChargesNeverDuplicate == Spec => []ChargeInOnePlace
<1>1. Spec => []ChargeInv
  BY ChargeInvInit, ChargeInvNext, PTL DEF Spec
<1>2. ChargeInv => ChargeInOnePlace
  BY DEF ChargeInv
<1> QED
  BY <1>1, <1>2, PTL

-----------------------------------------------------------------------------
(* ContainerTracking implements PaidLookups: every step pays for one token, *)
(* spends one, adds a credit, or changes nothing that PaidLookups sees.     *)

LEMMA PayStep ==
    ASSUME ChargeInv, NEW r \in Requests, pc[r] \in {"create", "deduct"},
           DeductCredit(r), UNCHANGED <<topups, scraped>>
    PROVE  Metering!Pay(Token(r))
<1>1. num[r] \in Numbers
  BY DEF ChargeInv, TypeInv, PlaceOK
<1>2. Token(r) \in Tokens \ paid
  BY <1>1 DEF ChargeInv, ChargeInOnePlace, ChargedOnce, Token, Tokens
<1> QED
  BY <1>2 DEF DeductCredit, Metering!Pay

LEMMA SpendStep ==
    ASSUME ChargeInv, NEW r \in Requests, NEW n \in Numbers, InHand(r, n) \/ Queued(r, n),
           scraped' = [scraped EXCEPT ![<<r, n>>] = @ + 1], UNCHANGED credits
    PROVE  Metering!Scrape(<<r, n>>)
<1>1. <<r, n>> \in paid /\ scraped[<<r, n>>] = 0
  BY DEF ChargeInv, ChargeInOnePlace, HeldUnspent
<1> QED
  BY <1>1 DEF Metering!Scrape, credits, Tokens

LEMMA RequestRefines ==
    ASSUME ChargeInv, NEW r \in Requests, ClientCalls(r) \/ RequestStep(r)
    PROVE  [Metering!Next]_(Metering!vars)
<1>1. CASE ClientCalls(r)
  BY <1>1 DEF ClientCalls, Track, GetOrRefresh, RequestRefresh, Submit, QueueBulk, StopTracking,
    credits, Metering!vars
<1>2. CASE CreateAndDeduct(r)
  <2>1. CASE DeductCredit(r)
    <3>1. num[r] \in Numbers
      BY <1>2 DEF CreateAndDeduct, ChargeInv, TypeInv, PlaceOK
    <3>2. Token(r) \in Tokens
      BY <3>1 DEF Token, Tokens
    <3> QED
      BY <1>2, <2>1, <3>2, PayStep DEF CreateAndDeduct, Metering!Next
  <2> QED
    BY <1>2, <2>1 DEF CreateAndDeduct, QuotaExceeded, Metering!vars
<1>3. CASE Deduct(r)
  <2>1. CASE DeductCredit(r)
    <3>1. num[r] \in Numbers
      BY <1>3 DEF Deduct, ChargeInv, TypeInv, PlaceOK
    <3>2. Token(r) \in Tokens
      BY <3>1 DEF Token, Tokens
    <3> QED
      BY <1>3, <2>1, <3>2, PayStep DEF Deduct, Metering!Next
  <2> QED
    BY <1>3, <2>1 DEF Deduct, QuotaExceeded, Metering!vars
<1>4. CASE MarkInProgress(r)
  <2>1. PICK n \in Numbers : n = num[r]
    BY <1>4 DEF MarkInProgress, ChargeInv, TypeInv, PlaceOK
  <2>2. InHand(r, n) /\ <<r, n>> \in Tokens
    BY <1>4, <2>1 DEF MarkInProgress, InHand, Holding, Tokens
  <2>3. CASE scraped' = [scraped EXCEPT ![<<r, n>>] = @ + 1]
    BY <1>4, <2>2, <2>3, SpendStep DEF MarkInProgress, Metering!Next
  <2> QED
    BY <1>4, <2>1, <2>3 DEF MarkInProgress, BeginScrape, Token, credits, Metering!vars
<1>5. CASE DeleteUncharged(r) \/ RecordEvent(r) \/ MarkQueued(r) \/ BulkNext(r)
           \/ BulkLook(r) \/ BulkInsert(r) \/ BulkQueue(r) \/ EnqueueScrape(r)
  BY <1>5 DEF DeleteUncharged, RecordEvent, MarkQueued, BulkNext, BulkLook, BulkInsert,
    BulkQueue, EnqueueScrape, credits, Metering!vars
<1> QED
  BY <1>1, <1>2, <1>3, <1>4, <1>5 DEF RequestStep

LEMMA StartJobRefines ==
    ASSUME ChargeInv, NEW s \in Slots, StartJob(s)
    PROVE  [Metering!Next]_(Metering!vars)
<1>1. PICK j \in queue : StartJob(s)!2!(j)
  BY DEF StartJob
<1>2. PICK r \in Requests, n \in Numbers : r = j.by /\ n = j.num
  BY DEF ChargeInv, TypeInv, TypeOK, Job
<1>3. Queued(r, n) /\ <<r, n>> \in Tokens
  BY <1>2 DEF Queued, Tokens
<1>4. UNCHANGED credits
  BY DEF StartJob
<1>5. CASE scraped' = [scraped EXCEPT ![<<r, n>>] = @ + 1]
  BY <1>3, <1>4, <1>5, SpendStep DEF Metering!Next
<1>6. CASE UNCHANGED scraped
  BY <1>4, <1>6 DEF credits, Metering!vars
<1> QED
  BY <1>1, <1>2, <1>5, <1>6 DEF BeginScrape, JobToken

LEMMA EnvironmentRefines ==
    ASSUME Environment
    PROVE  [Metering!Next]_(Metering!vars)
<1>1. CASE AddCredits
  BY <1>1 DEF AddCredits, Metering!AddCredit, Metering!Next
<1>2. CASE Tick \/ CrashWorker \/ (\E n \in Numbers : CacheExpires(n))
           \/ (\E id \in creating : TrackingIdSaved(id)) \/ (\E h \in Servers : CrashApi(h))
  BY <1>2 DEF Tick, CrashWorker, CacheExpires, TrackingIdSaved, CrashApi, credits,
    Metering!vars
<1> QED
  BY <1>1, <1>2 DEF Environment

\* Every behaviour of the container lifecycle is one of PaidLookups: lookups
\* are paid once, out of credits that exist, and a charge buys one call of
\* the provider chain at most; no call is made without one.
THEOREM ImplementsPaidLookups == Spec => PaysOnceScrapesOnce
<1>1. Init => Metering!Init
  BY DEF Init, Metering!Init
<1>2. ChargeInv /\ [Next]_vars => [Metering!Next]_(Metering!vars)
  <2> SUFFICES ASSUME ChargeInv, [Next]_vars PROVE [Metering!Next]_(Metering!vars)
    OBVIOUS
  <2>1. CASE \E r \in Requests : ClientCalls(r) \/ RequestStep(r)
    BY <2>1, RequestRefines
  <2>2. CASE \E p \in Procs : ScrapeEnds(p)
    BY <2>2 DEF ScrapeEnds, ProviderMiss, ProviderHit, ProviderHitNotify, Notified,
      ScrapeRaises, credits, Metering!vars
  <2>3. CASE \E s \in Slots : StartJob(s)
    BY <2>3, StartJobRefines
  <2>4. CASE SweepRead \/ SweepWrite
    BY <2>4 DEF SweepRead, SweepWrite, credits, Metering!vars
  <2>5. CASE Environment
    BY <2>5, EnvironmentRefines
  <2>6. CASE UNCHANGED vars
    BY <2>6 DEF vars, Metering!vars
  <2> QED
    BY <2>1, <2>2, <2>3, <2>4, <2>5, <2>6 DEF Next
<1>3. Spec => []ChargeInv
  BY ChargeInvInit, ChargeInvNext, PTL DEF Spec
<1> QED
  BY <1>1, <1>2, <1>3, PTL DEF Spec, PaysOnceScrapesOnce, Metering!Spec

-----------------------------------------------------------------------------
(* The ledger.  LedgerBalanced is inductive given ChargeInv, which says that *)
(* a new charge is of a token that was not charged before.                   *)

InCharge == {q \in Requests : pc[q] \in {"record", "lost"}}

LEMMA TokensFinite == IsFiniteSet(Tokens)
  BY ConstantsAssumption, FS_Product DEF Tokens

\* A step that neither pays nor records, and moves nobody in or out of charge.
LEMMA LedgerUntouched ==
    ASSUME LedgerBalanced, UNCHANGED credits, InCharge' = InCharge,
           \A q \in InCharge : num'[q] = num[q]
    PROVE  LedgerBalanced'
<1>1. {Token(q)' : q \in InCharge} = {Token(q) : q \in InCharge}
  BY DEF Token
<1> QED
  BY <1>1 DEF LedgerBalanced, InCharge, credits

\* The same, for a step that moves one request, from c to d.
LEMMA LedgerOneMoves ==
    ASSUME ChargeInv, LedgerBalanced, UNCHANGED credits, NEW r \in Requests,
           pc[r] \notin {"record", "lost"}, NEW d, d \notin {"record", "lost"},
           pc' = [pc EXCEPT ![r] = d],
           \A q \in Requests \ {r} : num'[q] = num[q]
    PROVE  LedgerBalanced'
<1>1. \A q \in Requests : pc'[q] = IF q = r THEN d ELSE pc[q]
  BY DEF ChargeInv, TypeInv, TypeOK, Procs
<1>2. InCharge' = InCharge /\ r \notin InCharge
  BY <1>1 DEF InCharge
<1> QED
  BY <1>2, LedgerUntouched DEF InCharge

LEMMA LedgerDeduct ==
    ASSUME ChargeInv, LedgerBalanced, NEW r \in Requests, pc[r] \in {"create", "deduct"},
           DeductCredit(r), num' = num, UNCHANGED <<topups, recorded>>
    PROVE  LedgerBalanced'
<1>1. num[r] \in Numbers /\ Token(r) \in Tokens
  BY DEF ChargeInv, TypeInv, PlaceOK, Token, Tokens
<1>2. Token(r) \notin paid
  BY <1>1 DEF ChargeInv, ChargeInOnePlace, ChargedOnce, Token
<1>3. IsFiniteSet(paid)
  BY TokensFinite, FS_Subset DEF ChargeInv, TypeInv, TypeOK
<1>4. Cardinality(paid') = Cardinality(paid) + 1 /\ Cardinality(paid) \in Nat
  BY <1>2, <1>3, FS_AddElement, FS_CardinalityType DEF DeductCredit
<1>5. balance' + Cardinality(paid') = InitialCredits + topups'
  BY <1>4 DEF DeductCredit, LedgerBalanced, ChargeInv, TypeInv, TypeOK
<1>6. \A q \in Requests : pc'[q] = IF q = r THEN "record" ELSE pc[q]
  BY DEF DeductCredit, ChargeInv, TypeInv, TypeOK, Procs
<1>7. InCharge' = InCharge \cup {r}
  BY <1>6 DEF InCharge
<1>8. {Token(q)' : q \in InCharge'} = {Token(q) : q \in InCharge} \cup {Token(r)}
  BY <1>7 DEF Token
<1>9. paid' \ recorded' = (paid \ recorded) \cup {Token(r)} /\ recorded' \subseteq paid'
  BY <1>2 DEF DeductCredit, LedgerBalanced
<1> QED
  BY <1>5, <1>8, <1>9 DEF LedgerBalanced, InCharge

LEMMA LedgerRecord ==
    ASSUME ChargeInv, LedgerBalanced, NEW r \in Requests, RecordEvent(r)
    PROVE  LedgerBalanced'
<1>1. AfterCharge(r) \notin {"record", "lost"}
  BY DEF AfterCharge
<1>2. \A q \in Requests : pc'[q] = IF q = r THEN AfterCharge(r) ELSE pc[q]
  BY DEF RecordEvent, ChargeInv, TypeInv, TypeOK, Procs
<1>3. InCharge' = InCharge \ {r} /\ r \in InCharge
  BY <1>1, <1>2 DEF RecordEvent, InCharge
<1>4. \A q \in Requests : Token(q)' = Token(q) /\ (Token(q) = Token(r) => q = r)
  BY DEF RecordEvent, Token
<1>5. {Token(q)' : q \in InCharge'} = {Token(q) : q \in InCharge} \ {Token(r)}
  BY <1>3, <1>4 DEF InCharge
<1>6. Token(r) \in paid
  BY <1>3 DEF LedgerBalanced, InCharge
<1>7. paid' \ recorded' = (paid \ recorded) \ {Token(r)} /\ recorded' \subseteq paid'
  BY <1>6 DEF RecordEvent, LedgerBalanced
<1> QED
  BY <1>5, <1>7 DEF RecordEvent, LedgerBalanced, InCharge

LEMMA LedgerClient ==
    ASSUME ChargeInv, LedgerBalanced, NEW r \in Requests, ClientCalls(r)
    PROVE  LedgerBalanced'
<1>1. \E d \in {"create", "deduct", "done", "next"} :
         /\ pc' = [pc EXCEPT ![r] = d] /\ pc[r] = "idle" /\ UNCHANGED credits
         /\ \A q \in Requests \ {r} : num'[q] = num[q]
  <2> DEFINE Goes(d) == /\ pc' = [pc EXCEPT ![r] = d] /\ pc[r] = "idle" /\ UNCHANGED credits
                       /\ \A q \in Requests \ {r} : num'[q] = num[q]
  <2>num. num \in [Procs -> Numbers \cup {NoNumber}] /\ Requests \subseteq Procs
    BY DEF ChargeInv, TypeInv, TypeOK, Procs
  <2>1. ASSUME NEW o, NEW n \in Numbers, NEW c \in {"create", "deduct", "done"}, Submit(r, o, n, c)
        PROVE  Goes(c)
    <3>1. CASE c = "done"
      BY <2>1, <2>num, <3>1 DEF Submit, Leave
    <3>2. CASE c # "done"
      BY <2>1, <2>num, <3>2 DEF Submit
    <3> QED
      BY <3>1, <3>2
  <2> HIDE DEF Goes
  <2>2. ASSUME NEW n \in Numbers, Track(r, n) \/ GetOrRefresh(r, n) \/ RequestRefresh(r, n)
        PROVE  \E d \in {"create", "deduct", "done"} : Goes(d)
    <3>1. CASE Track(r, n)
      BY <2>1, <3>1 DEF Track
    <3>2. CASE GetOrRefresh(r, n)
      BY <2>1, <3>2 DEF GetOrRefresh
    <3>3. CASE RequestRefresh(r, n)
      BY <2>1, <3>3 DEF RequestRefresh
    <3> QED
      BY <2>2, <3>1, <3>2, <3>3
  <2>3. ASSUME NEW n \in Numbers, StopTracking(r, n) PROVE Goes("done")
    BY <2>3 DEF StopTracking, Goes
  <2>4. ASSUME NEW S \in SUBSET Numbers, QueueBulk(r, S) PROVE Goes("next")
    BY <2>4 DEF QueueBulk, Goes
  <2>5. \E d \in {"create", "deduct", "done", "next"} : Goes(d)
    BY <2>2, <2>3, <2>4 DEF ClientCalls
  <2> QED
    BY <2>5 DEF Goes
<1>2. pc[r] = "idle" /\ UNCHANGED credits /\ \A q \in Requests \ {r} : num'[q] = num[q]
  BY <1>1
<1>3. PICK d \in {"create", "deduct", "done", "next"} : pc' = [pc EXCEPT ![r] = d]
  BY <1>1
<1>4. pc[r] \notin {"record", "lost"} /\ d \notin {"record", "lost"}
  BY <1>2
<1> QED
  BY <1>2, <1>3, <1>4, LedgerOneMoves

LEMMA LedgerRequest ==
    ASSUME ChargeInv, LedgerBalanced, NEW r \in Requests, RequestStep(r)
    PROVE  LedgerBalanced'
<1>1. CASE (CreateAndDeduct(r) \/ Deduct(r)) /\ DeductCredit(r)
  <2>1. num' = num /\ UNCHANGED <<topups, recorded>> /\ pc[r] \in {"create", "deduct"}
    BY <1>1 DEF CreateAndDeduct, Deduct, DeductCredit, QuotaExceeded, reqVars,
      ChargeInv, TypeInv, TypeOK, Procs
  <2> QED
    BY <1>1, <2>1, LedgerDeduct
<1>2. CASE (CreateAndDeduct(r) \/ Deduct(r)) /\ ~DeductCredit(r)
  <2>1. \E d \in {"undo", "next", "done"} : pc' = [pc EXCEPT ![r] = d]
    BY <1>2 DEF CreateAndDeduct, Deduct, QuotaExceeded
  <2>2. UNCHANGED credits /\ pc[r] \in {"create", "deduct"}
    BY <1>2 DEF CreateAndDeduct, Deduct, QuotaExceeded, credits
  <2>3. \A q \in Requests \ {r} : num'[q] = num[q]
    BY <1>2 DEF CreateAndDeduct, Deduct, QuotaExceeded, Leave, ChargeInv, TypeInv, TypeOK, Procs
  <2> QED
    BY <2>1, <2>2, <2>3, LedgerOneMoves
<1>3. CASE RecordEvent(r)
  BY <1>3, LedgerRecord
<1>4. CASE DeleteUncharged(r) \/ MarkInProgress(r) \/ MarkQueued(r) \/ BulkNext(r)
           \/ BulkLook(r) \/ BulkInsert(r) \/ BulkQueue(r)
  <2>1. \E d \in {"done", "scrape", "enqueue", "deduct", "queue", "insert", "next"} :
          pc' = [pc EXCEPT ![r] = d]
    BY <1>4 DEF DeleteUncharged, MarkInProgress, MarkQueued, BulkNext, BulkLook, BulkInsert,
      BulkQueue
  <2>2. UNCHANGED credits /\ pc[r] \in {"undo", "mark", "queue", "next", "look", "insert"}
    BY <1>4 DEF DeleteUncharged, MarkInProgress, MarkQueued, BulkNext, BulkLook, BulkInsert,
      BulkQueue
  <2>3. \A q \in Requests \ {r} : num'[q] = num[q]
    BY <1>4 DEF DeleteUncharged, MarkInProgress, MarkQueued, BulkNext, BulkLook, BulkInsert,
      BulkQueue, Leave, ChargeInv, TypeInv, TypeOK, Procs
  <2> QED
    BY <2>1, <2>2, <2>3, LedgerOneMoves
<1>5. CASE EnqueueScrape(r)
  <2>1. InCharge' = InCharge
    BY <1>5 DEF EnqueueScrape, InCharge, ChargeInv, TypeInv, TypeOK, Procs
  <2> QED
    BY <1>5, <2>1, LedgerUntouched DEF EnqueueScrape
<1> QED
  BY <1>1, <1>2, <1>3, <1>4, <1>5 DEF RequestStep

LEMMA LedgerProcess ==
    ASSUME ChargeInv, LedgerBalanced,
           (\E p \in Procs : ScrapeEnds(p)) \/ (\E s \in Slots : StartJob(s))
    PROVE  LedgerBalanced'
<1>1. ASSUME NEW p \in Procs, ScrapeEnds(p)
      PROVE  LedgerBalanced'
  <2>1. /\ UNCHANGED credits /\ pc[p] \in {"scrape", "notify"}
        /\ Finish(p) \/ (pc' = [pc EXCEPT ![p] = "notify"] /\ num' = num)
    BY <1>1 DEF ScrapeEnds, ProviderMiss, ProviderHit, ProviderHitNotify, Notified, ScrapeRaises
  <2>2. \A q \in Requests :
          /\ q # p => pc'[q] = pc[q] /\ num'[q] = num[q]
          /\ q = p => pc'[q] \in {"done", "notify"}
    BY ConstantsAssumption, <2>1 DEF Finish, ChargeInv, TypeInv, TypeOK, Procs
  <2> QED
    BY <2>1, <2>2, LedgerUntouched DEF InCharge
<1>2. ASSUME NEW s \in Slots, StartJob(s)
      PROVE  LedgerBalanced'
  <2>1. \A q \in Requests : pc'[q] = pc[q] /\ num'[q] = num[q]
    BY ConstantsAssumption, <1>2 DEF StartJob, ChargeInv, TypeInv, TypeOK, Procs
  <2> QED
    BY <1>2, <2>1, LedgerUntouched DEF StartJob, InCharge
<1> QED
  BY <1>1, <1>2

LEMMA LedgerEnvironment ==
    ASSUME ChargeInv, LedgerBalanced, Environment
    PROVE  LedgerBalanced'
<1>1. CASE AddCredits
  <2>1. Cardinality(paid) \in Nat
    BY TokensFinite, FS_Subset, FS_CardinalityType DEF ChargeInv, TypeInv, TypeOK
  <2>2. balance' + Cardinality(paid') = InitialCredits + topups'
    BY <1>1, <2>1, ConstantsAssumption
    DEF AddCredits, LedgerBalanced, ChargeInv, TypeInv, TypeOK
  <2> QED
    BY <1>1, <2>2 DEF AddCredits, LedgerBalanced, Token
<1>2. CASE Tick \/ (\E n \in Numbers : CacheExpires(n))
           \/ (\E id \in creating : TrackingIdSaved(id))
  BY <1>2, LedgerUntouched DEF Tick, CacheExpires, TrackingIdSaved, InCharge
<1>3. CASE CrashWorker
  <2>1. \A q \in Requests : pc'[q] = pc[q] /\ num'[q] = num[q]
    BY ConstantsAssumption, <1>3 DEF CrashWorker, ChargeInv, TypeInv, TypeOK, Procs
  <2> QED
    BY <1>3, <2>1, LedgerUntouched DEF CrashWorker, InCharge
<1>4. ASSUME NEW h \in Servers, CrashApi(h)
      PROVE  LedgerBalanced'
  <2>1. \A q \in Requests :
          /\ pc'[q] = pc[q] \/ (pc[q] = "record" /\ pc'[q] = "lost")
                            \/ (pc[q] \notin {"record", "lost"} /\ pc'[q] = "dead")
          /\ pc'[q] # "dead" => num'[q] = num[q]
    BY <1>4 DEF CrashApi, Sync, Await, Procs, ChargeInv, TypeInv, TypeOK
  <2>2. InCharge' = InCharge /\ \A q \in InCharge : num'[q] = num[q]
    BY <2>1 DEF InCharge
  <2> QED
    BY <1>4, <2>2, LedgerUntouched DEF CrashApi
<1> QED
  BY <1>1, <1>2, <1>3, <1>4 DEF Environment

\* No credit leaves the balance without its usage event, except the one of a
\* request that stands, or died, between the two commits of its charge; none
\* is created either: what was bought is either left or was charged.
THEOREM LedgerNeverDrifts == Spec => []LedgerBalanced
<1>1. Init => LedgerBalanced
  <2> SUFFICES ASSUME Init PROVE LedgerBalanced
    OBVIOUS
  <2>1. Cardinality(paid) = 0
    BY FS_EmptySet DEF Init
  <2>2. \A q \in Requests : pc[q] = "idle"
    BY DEF Init, Procs
  <2> QED
    BY <2>1, <2>2, ConstantsAssumption DEF Init, LedgerBalanced
<1>2. ChargeInv /\ LedgerBalanced /\ [Next]_vars => LedgerBalanced'
  <2> SUFFICES ASSUME ChargeInv, LedgerBalanced, [Next]_vars PROVE LedgerBalanced'
    OBVIOUS
  <2>1. CASE \E r \in Requests : ClientCalls(r) \/ RequestStep(r)
    BY <2>1, LedgerClient, LedgerRequest
  <2>2. CASE (\E p \in Procs : ScrapeEnds(p)) \/ (\E s \in Slots : StartJob(s))
    BY <2>2, LedgerProcess
  <2>3. CASE SweepRead \/ SweepWrite
    BY <2>3, LedgerUntouched DEF SweepRead, SweepWrite, InCharge
  <2>4. CASE Environment
    BY <2>4, LedgerEnvironment
  <2>5. CASE UNCHANGED vars
    BY <2>5, LedgerUntouched DEF vars, credits, InCharge
  <2> QED
    BY <2>1, <2>2, <2>3, <2>4, <2>5 DEF Next
<1>3. Spec => []ChargeInv
  BY ChargeInvInit, ChargeInvNext, PTL DEF Spec
<1> QED
  BY <1>1, <1>2, <1>3, PTL DEF Spec
=============================================================================

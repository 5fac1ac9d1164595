--------------------------- MODULE OneServer_proofs ----------------------------
(***************************************************************************)
(* What ContainerTracking guarantees where a single process serves the API *)
(* - the worker is still another one - for every number of containers,     *)
(* requests and worker slots, and every bound.  With two API processes a   *)
(* request may find its row deleted, queue for nobody or charge twice.     *)
(***************************************************************************)
EXTENDS ContainerTracking_proofs

OneServer == \A g, h \in Servers : g = h

-----------------------------------------------------------------------------
(* The invariant. *)

Asking  == {"track", "get", "refresh"}
Working == {"scrape", "notify"}

\* What pc says of the endpoint and of the rows still to be enqueued.
OpOK ==
    \A r \in Requests :
        /\ pc[r] \in Sync => op[r] \in Asking \cup {"bulk"}
        /\ pc[r] \in {"next", "look", "insert"} => op[r] = "bulk"
        /\ pc[r] \in {"create", "undo", "mark"} => op[r] # "bulk"
        /\ send[r] # {} => pc[r] = "enqueue" \/ (pc[r] \in Sync /\ op[r] = "bulk")

\* Somebody is to scrape, or scrapes, the row of number n.
Awaited(n) ==
    \/ \E j \in queue : j.num = n
    \/ \E r \in Requests : \E id \in send[r] : id[1] = n
    \/ \E p \in Procs : pc[p] \in Working /\ num[p] = n

\* Where a request relies on the row it has loaded.
Relies(r) ==
    \/ pc[r] \in {"mark", "queue", "undo"}
    \/ pc[r] \in {"deduct", "record"} /\ op[r] # "bulk"

\* Rows are there for whoever will need them: a row is deleted only by the
\* request that inserted it, before its loop lets anybody else see it.
RowsOK ==
    /\ QueuedRowSurvives
    /\ \A r \in Requests : \A id \in send[r] : Exists(id[1], id[2])
    /\ \A p \in Procs, n \in Numbers :
          pc[p] \in Working /\ num[p] = n => Exists(n, gen[p])
    /\ \A r \in Requests, n \in Numbers : num[r] = n =>
          /\ Relies(r) => Exists(n, gen[r])
          /\ pc[r] \in {"create", "insert"} => ~row[n].here
          /\ pc[r] = "undo" => row[n].active /\ ~Awaited(n)
    /\ \A n \in Numbers : ~row[n].here => row[n].active

\* A charge that is neither in hand nor spent on the way to its end.
Scraping(r, n) ==
    \/ pc[r] = "scrape" /\ num[r] = n
    \/ \E s \in Slots : pc[s] = "scrape" /\ num[s] = n /\ by[s] = r

Away(r, n) == ToSend(r, n) \/ Queued(r, n) \/ Scraping(r, n)

\* Whoever scrapes spends a charge of its own.
Spends(p, r, n) ==
    /\ pc[p] \in Working /\ num[p] = n
    /\ IF p \in Slots THEN by[p] = r ELSE p = r

SpentOK ==
    /\ \A p \in Procs, r \in Requests, n \in Numbers :
          Spends(p, r, n) => scraped[<<r, n>>] > 0
    /\ \A p, q \in Procs, r \in Requests, n \in Numbers :
          Spends(p, r, n) /\ Spends(q, r, n) => p = q

\* A live scrape of a row that does not say so is disowned; and so it is for
\* the requests that have read the row and are about to charge or queue.
FlightOK ==
    /\ \A r \in Requests, n \in Numbers :
          Away(r, n) /\ ~Pending(n) => <<r, n>> \in disowned
    /\ \A r, q \in Requests, n \in Numbers :
          pc[r] = "deduct" /\ op[r] # "bulk" /\ num[r] = n /\ Away(q, n)
          => <<q, n>> \in disowned
    /\ \A r \in Requests, n \in Numbers :
          pc[r] = "queue" /\ op[r] = "bulk" /\ num[r] = n
          /\ snap[r].status = "queued" /\ ~Pending(n)
          => <<r, n>> \in disowned

\* A charge is held, spent, or lost in a way the code knows of.
PlacedAt(r, n) ==
    \/ InHand(r, n) \/ ToSend(r, n) \/ Queued(r, n)
    \/ scraped[<<r, n>>] > 0
    \/ ~row[n].active
    \/ pc[r] \in {"dead", "lost"}

Placed == \A r \in Requests, n \in Numbers : <<r, n>> \in paid => PlacedAt(r, n)

\* Number n never had two live scrapes, and no sweep has contradicted one.
Clean(n) ==
    /\ \A r \in Requests : <<r, n>> \notin disowned
    /\ \A q, r \in Requests :
          <<q, n>> \in paid /\ <<r, n>> \in paid /\ op[q] = "bulk" => q = r

Holder(r, n) == InHand(r, n) \/ Away(r, n)

Settled(n) ==
    /\ row[n].status = "completed" => row[n].msg = "none"
    /\ row[n].status = "no_data" => row[n].msg = "no_data"
    /\ row[n].status = "failed" => row[n].msg \in {"failed", "timeout"}

Paid(n) == \E r \in Requests : <<r, n>> \in paid

\* A scrape has loaded the row that it or somebody else has put in progress.
LoadedOK == \A p \in Procs : pc[p] = "scrape" => snap[p].status = "in_progress"

OneHolder ==
    \A n \in Numbers, q, r \in Requests :
        Clean(n) /\ Holder(q, n) /\ Holder(r, n) => q = r

\* A clean row has the message of its status, and its scraper has loaded the
\* message that is still there; a message left by the sweep is the sign of an
\* earlier charge.
MessageOK ==
    /\ \A n \in Numbers : Clean(n) /\ row[n].here => Settled(n)
    /\ \A p \in Procs, n \in Numbers :
          pc[p] = "scrape" /\ num[p] = n /\ Clean(n) => row[n].msg = snap[p].msg
    /\ \A id \in sweep, n \in Numbers : id[1] = n /\ id[3] = "timeout" => Paid(n)
    /\ \A n \in Numbers : Pending(n) /\ row[n].msg = "timeout" => Paid(n)

\* While no process dies, a row in progress has its scraper, and the row of a
\* job that is alone with it is not older than the job.
Scraped(n, P) == \E p \in P : pc[p] = "scrape" /\ num[p] = n

YoungAt(n) ==
    /\ row[n].here /\ row[n].status = "in_progress" => Scraped(n, Procs)
    /\ \A s \in Slots : pc[s] = "scrape" /\ num[s] = n /\ Pending(n) =>
          row[n].age <= jobAge[s] \/ Scraped(n, Procs \ {s})

YoungOK == \A n \in Numbers : YoungAt(n)

-----------------------------------------------------------------------------
(* What each action does, value by value.                                  *)

LEMMA AgeIsNat ==
    ASSUME NEW R \in Row
    PROVE  R.age \in Nat
  BY ConstantsAssumption DEF Row, Age

\* A step of request r, whose process has no other request between two awaits.
RequestMoves(r) ==
    /\ \A q \in Requests \ {r} : pc[q] \notin Sync
    /\ \A q \in Procs \ {r} :
          pc'[q] = pc[q] /\ num'[q] = num[q] /\ gen'[q] = gen[q] /\ snap'[q] = snap[q]
    /\ \A q \in Requests \ {r} : op'[q] = op[q] /\ send'[q] = send[q]
    /\ UNCHANGED <<by, jobAge, sweep>>

LEMMA Alone ==
    ASSUME TypeInv, OneServer, NEW r \in Requests, LoopFree(r)
    PROVE  \A q \in Requests \ {r} : pc[q] \notin Sync
  BY DEF LoopFree, OneServer, TypeInv, TypeOK

LEMMA InProcs == Requests \subseteq Procs /\ Slots \subseteq Procs
  BY DEF Procs

LEMMA WriteFacts ==
    ASSUME TypeInv, NEW n \in Numbers, NEW status, NEW msg, Write(n, status, msg)
    PROVE  /\ \A m \in Numbers \ {n} : row'[m] = row[m]
           /\ row'[n].here = row[n].here /\ row'[n].gen = row[n].gen
           /\ row'[n].active = row[n].active
           /\ row'[n].status = status /\ row'[n].msg = msg /\ row'[n].age = 0
<1>1. row[n] \in Row
  BY DEF TypeInv, TypeOK
<1>2. row' = [row EXCEPT ![n] = [row[n] EXCEPT !.status = status, !.msg = msg, !.age = 0]]
  BY DEF Write, TypeInv, TypeOK
<1> QED
  BY <1>1, <1>2 DEF TypeInv, TypeOK, Row

LEMMA ApplyFacts ==
    ASSUME TypeInv, NEW p \in Procs, NEW n \in Numbers, num[p] = n,
           NEW status, NEW msg, Apply(p, status, msg)
    PROVE  /\ \A m \in Numbers \ {n} : row'[m] = row[m]
           /\ row'[n].here = row[n].here /\ row'[n].gen = row[n].gen
           /\ row'[n].active = row[n].active
           /\ row'[n].status = IF snap[p].status = status THEN row[n].status ELSE status
           /\ row'[n].msg = IF snap[p].msg = msg THEN row[n].msg ELSE msg
<1> DEFINE st == IF snap[p].status = status THEN row[n].status ELSE status
           m == IF snap[p].msg = msg THEN row[n].msg ELSE msg
<1>1. row[n] \in Row
  BY DEF TypeInv, TypeOK
<1>2. row' = [row EXCEPT ![n] = [row[n] EXCEPT !.status = st, !.msg = m, !.age = 0, !.fresh = TRUE]]
  BY DEF Apply
<1> HIDE DEF st, m
<1>3. /\ \A k \in Numbers \ {n} : row'[k] = row[k]
      /\ row'[n].here = row[n].here /\ row'[n].gen = row[n].gen
      /\ row'[n].active = row[n].active
      /\ row'[n].status = st /\ row'[n].msg = m
  BY <1>1, <1>2 DEF TypeInv, TypeOK, Row
<1> QED
  BY <1>3 DEF st, m

LEMMA NewRowFacts ==
    ASSUME NEW g \in Nat
    PROVE  /\ NewRow(g).here /\ NewRow(g).gen = g /\ NewRow(g).active
           /\ NewRow(g).status = "queued" /\ NewRow(g).msg = "none" /\ NewRow(g).age = 0
           /\ ~NoRow(g).here /\ NoRow(g).gen = g /\ NoRow(g).active
           /\ NoRow(g).status = "queued" /\ NoRow(g).msg = "none"
  BY DEF NewRow, NoRow

LEMMA LeaveFacts ==
    ASSUME TypeInv, NEW r \in Requests, Leave(r)
    PROVE  /\ num'[r] = NoNumber
           /\ \A q \in Procs \ {r} :
                 num'[q] = num[q] /\ gen'[q] = gen[q] /\ snap'[q] = snap[q]
  BY DEF Leave, TypeInv, TypeOK, Procs

LEMMA AskFacts ==
    ASSUME TypeInv, OneServer, NEW r \in Requests, NEW n \in Numbers,
           Track(r, n) \/ GetOrRefresh(r, n) \/ RequestRefresh(r, n)
    PROVE  \E o \in Asking, c \in {"create", "deduct", "done"} :
              /\ pc[r] = "idle" /\ pc'[r] = c /\ op'[r] = o
              /\ c # "done" => num'[r] = n /\ gen'[r] = row[n].gen
              /\ c = "create" => o = "track" /\ ~row[n].here
              /\ c = "deduct" => /\ row[n].here
                                 /\ Pending(n) => LiveTokens(n) \subseteq disowned'
              /\ c = "done" => num'[r] = NoNumber
              /\ RequestMoves(r) /\ disowned \subseteq disowned'
              /\ UNCHANGED <<send, queue, row, paid, scraped>>
<1>1. ASSUME NEW o \in Asking, NEW c \in {"create", "deduct", "done"}, Submit(r, o, n, c)
      PROVE  /\ pc[r] = "idle" /\ pc'[r] = c /\ op'[r] = o
             /\ c # "done" => num'[r] = n /\ gen'[r] = row[n].gen
             /\ Pending(n) /\ Stuck(n) => LiveTokens(n) \subseteq disowned'
             /\ c = "done" => num'[r] = NoNumber
             /\ RequestMoves(r) /\ disowned \subseteq disowned'
             /\ UNCHANGED <<send, queue, row, paid, scraped>>
  <2>1. \A q \in Procs \ {r} :
          pc'[q] = pc[q] /\ num'[q] = num[q] /\ gen'[q] = gen[q] /\ snap'[q] = snap[q]
    BY <1>1, LeaveFacts DEF Submit, TypeInv, TypeOK, Procs
  <2>2. RequestMoves(r)
    BY <1>1, <2>1, Alone DEF Submit, RequestMoves, TypeInv, TypeOK, jobVars
  <2>3. /\ pc[r] = "idle" /\ pc'[r] = c /\ op'[r] = o
        /\ c # "done" => num'[r] = n /\ gen'[r] = row[n].gen
        /\ c = "done" => num'[r] = NoNumber
    BY <1>1, InProcs, LeaveFacts DEF Submit, TypeInv, TypeOK
  <2> QED
    BY <1>1, <2>2, <2>3 DEF Submit, credits, jobVars
<1>2. CASE Track(r, n)
  <2> DEFINE c == IF ~row[n].here THEN "create"
                  ELSE IF NeedsLiveLookup(n) THEN "deduct" ELSE "done"
  <2>1. Submit(r, "track", n, c) /\ c \in {"create", "deduct", "done"} /\ "track" \in Asking
    BY <1>2 DEF Track, Asking
  <2>2. /\ c = "create" => ~row[n].here
        /\ c = "deduct" => row[n].here /\ (Pending(n) => Stuck(n))
    BY DEF NeedsLiveLookup, IsPending
  <2> HIDE DEF c
  <2> QED
    BY <1>1, <2>1, <2>2
<1>3. CASE GetOrRefresh(r, n)
  <2> DEFINE c == IF row[n].here /\ NeedsLiveLookup(n) THEN "deduct" ELSE "done"
  <2>1. Submit(r, "get", n, c) /\ c \in {"create", "deduct", "done"} /\ "get" \in Asking
    BY <1>3 DEF GetOrRefresh, Asking
  <2>2. /\ c # "create"
        /\ c = "deduct" => row[n].here /\ (Pending(n) => Stuck(n))
    BY DEF NeedsLiveLookup, IsPending
  <2> HIDE DEF c
  <2> QED
    BY <1>1, <2>1, <2>2
<1>4. CASE RequestRefresh(r, n)
  <2> DEFINE c == IF row[n].here /\ row[n].active /\ ~IsPending(n) THEN "deduct" ELSE "done"
  <2>1. Submit(r, "refresh", n, c) /\ c \in {"create", "deduct", "done"} /\ "refresh" \in Asking
    BY <1>4 DEF RequestRefresh, Asking
  <2>2. /\ c # "create"
        /\ c = "deduct" => row[n].here /\ (Pending(n) => Stuck(n))
    BY DEF IsPending
  <2> HIDE DEF c
  <2> QED
    BY <1>1, <2>1, <2>2
<1> QED
  BY <1>2, <1>3, <1>4

LEMMA QueueBulkFacts ==
    ASSUME TypeInv, OneServer, NEW r \in Requests, NEW S \in SUBSET Numbers, QueueBulk(r, S)
    PROVE  /\ pc[r] = "idle" /\ pc'[r] = "next" /\ op'[r] = "bulk"
           /\ num'[r] = num[r]
           /\ RequestMoves(r)
           /\ UNCHANGED <<send, queue, row, paid, scraped, disowned>>
<1>1. \A q \in Procs \ {r} :
        pc'[q] = pc[q] /\ num'[q] = num[q] /\ gen'[q] = gen[q] /\ snap'[q] = snap[q]
  BY DEF QueueBulk, TypeInv, TypeOK
<1>2. RequestMoves(r)
  BY <1>1, Alone DEF QueueBulk, RequestMoves, TypeInv, TypeOK, jobVars, envVars
<1> QED
  BY <1>2, InProcs DEF QueueBulk, TypeInv, TypeOK, credits, jobVars, envVars

LEMMA StopFacts ==
    ASSUME TypeInv, OneServer, NEW r \in Requests, NEW n \in Numbers, StopTracking(r, n)
    PROVE  /\ pc[r] = "idle" /\ pc'[r] = "done" /\ num'[r] = num[r]
           /\ RequestMoves(r)
           /\ UNCHANGED <<send, queue, paid, scraped, disowned>>
           /\ \A m \in Numbers :
                 /\ row'[m].here = row[m].here /\ row'[m].gen = row[m].gen
                 /\ row'[m].status = row[m].status /\ row'[m].msg = row[m].msg
                 /\ row'[m].age \in {row[m].age, 0}
                 /\ row'[m].active = row[m].active \/ (row[m].here /\ ~row'[m].active)
<1>1. \A q \in Procs \ {r} :
        pc'[q] = pc[q] /\ num'[q] = num[q] /\ gen'[q] = gen[q] /\ snap'[q] = snap[q]
  BY DEF StopTracking, TypeInv, TypeOK
<1>2. RequestMoves(r)
  BY <1>1, Alone DEF StopTracking, RequestMoves, TypeInv, TypeOK, jobVars, envVars
<1>3. \/ row' = row
      \/ /\ row' = [row EXCEPT ![n] = [row[n] EXCEPT !.active = FALSE, !.age = 0]]
         /\ row[n].here
  BY DEF StopTracking, TypeInv, TypeOK
<1>4. \A m \in Numbers :
        /\ row'[m].here = row[m].here /\ row'[m].gen = row[m].gen
        /\ row'[m].status = row[m].status /\ row'[m].msg = row[m].msg
        /\ row'[m].age \in {row[m].age, 0}
        /\ row'[m].active = row[m].active \/ (row[m].here /\ ~row'[m].active)
  <2> SUFFICES ASSUME NEW m \in Numbers, m = n, row' # row
               PROVE  /\ row'[m].here = row[m].here /\ row'[m].gen = row[m].gen
                      /\ row'[m].status = row[m].status /\ row'[m].msg = row[m].msg
                      /\ row'[m].age \in {row[m].age, 0}
                      /\ row'[m].active = row[m].active \/ (row[m].here /\ ~row'[m].active)
    BY <1>3 DEF TypeInv, TypeOK
  <2>1. row[n] \in Row
    BY DEF TypeInv, TypeOK
  <2>2. row'[n] = [row[n] EXCEPT !.active = FALSE, !.age = 0] /\ row[n].here
    BY <1>3 DEF TypeInv, TypeOK
  <2> QED
    BY <2>1, <2>2 DEF Row
<1> QED
  BY <1>2, <1>4, InProcs DEF StopTracking, TypeInv, TypeOK, credits, jobVars, envVars

\* The row of number n is inserted.
Inserted(n) ==
    /\ \A m \in Numbers \ {n} : row'[m] = row[m]
    /\ row'[n].here /\ row'[n].gen = row[n].gen + 1 /\ row'[n].active
    /\ row'[n].status = "queued" /\ row'[n].msg = "none"

LEMMA InsertFacts ==
    ASSUME TypeInv, NEW n \in Numbers, row' = [row EXCEPT ![n] = NewRow(@.gen + 1)]
    PROVE  Inserted(n)
<1>1. row[n].gen + 1 \in Nat
  BY RowFields DEF TypeInv, TypeOK
<1>2. row'[n] = NewRow(row[n].gen + 1) /\ \A m \in Numbers \ {n} : row'[m] = row[m]
  BY DEF TypeInv, TypeOK
<1> QED
  BY <1>1, <1>2, NewRowFacts DEF Inserted

LEMMA CreateFacts ==
    ASSUME TypeInv, OneServer, RowsOK, NEW r \in Requests, NEW n \in Numbers, num[r] = n,
           CreateAndDeduct(r)
    PROVE  /\ pc[r] = "create" /\ ~row[n].here /\ Inserted(n)
           /\ num'[r] = n /\ gen'[r] = row[n].gen + 1
           /\ RequestMoves(r)
           /\ UNCHANGED <<op, send, queue, scraped, disowned>>
           /\ \/ pc'[r] = "record" /\ paid' = paid \cup {<<r, n>>}
              \/ pc'[r] = "undo" /\ paid' = paid
<1>1. pc[r] = "create" /\ ~row[n].here
  BY DEF CreateAndDeduct, RowsOK
<1>2. /\ row' = [row EXCEPT ![n] = NewRow(@.gen + 1)]
      /\ gen' = [gen EXCEPT ![r] = row[n].gen + 1]
      /\ UNCHANGED <<num, snap>>
      /\ \/ pc' = [pc EXCEPT ![r] = "record"] /\ paid' = paid \cup {<<r, n>>}
         \/ pc' = [pc EXCEPT ![r] = "undo"] /\ paid' = paid
  BY <1>1 DEF CreateAndDeduct, DeductCredit, QuotaExceeded, Token
<1>3. \A q \in Procs \ {r} :
        pc'[q] = pc[q] /\ num'[q] = num[q] /\ gen'[q] = gen[q] /\ snap'[q] = snap[q]
  BY <1>2 DEF TypeInv, TypeOK
<1>4. RequestMoves(r)
  BY <1>3, Alone DEF CreateAndDeduct, RequestMoves, TypeInv, TypeOK, jobVars, envVars, reqVars
<1> QED
  BY <1>1, <1>2, <1>4, InProcs, InsertFacts
  DEF CreateAndDeduct, TypeInv, TypeOK, jobVars, envVars, reqVars

LEMMA DeductFacts ==
    ASSUME TypeInv, OneServer, NEW r \in Requests, NEW n \in Numbers, num[r] = n, Deduct(r)
    PROVE  /\ pc[r] = "deduct"
           /\ RequestMoves(r)
           /\ UNCHANGED <<op, send, queue, row, scraped, disowned>>
           /\ \/ /\ pc'[r] = "record" /\ paid' = paid \cup {<<r, n>>}
                 /\ num'[r] = n /\ gen'[r] = gen[r]
              \/ /\ pc'[r] = IF op[r] = "bulk" THEN "next" ELSE "done"
                 /\ paid' = paid /\ num'[r] = NoNumber
<1>1. \/ /\ pc' = [pc EXCEPT ![r] = "record"] /\ paid' = paid \cup {<<r, n>>}
         /\ UNCHANGED <<num, gen, snap>>
      \/ /\ pc' = [pc EXCEPT ![r] = IF op[r] = "bulk" THEN "next" ELSE "done"]
         /\ paid' = paid /\ Leave(r)
  BY DEF Deduct, DeductCredit, QuotaExceeded, Token
<1>2. \A q \in Procs \ {r} :
        pc'[q] = pc[q] /\ num'[q] = num[q] /\ gen'[q] = gen[q] /\ snap'[q] = snap[q]
  BY <1>1, LeaveFacts DEF TypeInv, TypeOK
<1>3. RequestMoves(r)
  BY <1>2, Alone DEF Deduct, RequestMoves, TypeInv, TypeOK, jobVars, envVars, reqVars
<1>4. \/ /\ pc'[r] = "record" /\ paid' = paid \cup {<<r, n>>}
         /\ num'[r] = n /\ gen'[r] = gen[r]
      \/ /\ pc'[r] = IF op[r] = "bulk" THEN "next" ELSE "done"
         /\ paid' = paid /\ num'[r] = NoNumber
  BY <1>1, InProcs, LeaveFacts DEF TypeInv, TypeOK
<1> QED
  BY <1>3, <1>4 DEF Deduct, jobVars, envVars, reqVars

LEMMA DeleteFacts ==
    ASSUME TypeInv, OneServer, RowsOK, NEW r \in Requests, NEW n \in Numbers, num[r] = n,
           DeleteUncharged(r)
    PROVE  /\ pc[r] = "undo" /\ pc'[r] = "done" /\ num'[r] = NoNumber
           /\ RequestMoves(r)
           /\ UNCHANGED <<op, send, queue, paid, scraped, disowned>>
           /\ ~row'[n].here /\ row'[n].active /\ row'[n].status = "queued"
           /\ \A m \in Numbers \ {n} : row'[m] = row[m]
<1>1. pc[r] = "undo" /\ Exists(n, gen[r])
  BY DEF DeleteUncharged, RowsOK, Relies
<1>2. row' = [row EXCEPT ![n] = NoRow(@.gen)] /\ row[n].gen \in Nat
  BY <1>1, RowFields DEF DeleteUncharged, TypeInv, TypeOK
<1>3. \A q \in Procs \ {r} :
        pc'[q] = pc[q] /\ num'[q] = num[q] /\ gen'[q] = gen[q] /\ snap'[q] = snap[q]
  BY LeaveFacts DEF DeleteUncharged, TypeInv, TypeOK
<1>4. RequestMoves(r)
  BY <1>3, Alone DEF DeleteUncharged, RequestMoves, TypeInv, TypeOK, jobVars, envVars, reqVars
<1>5. row'[n] = NoRow(row[n].gen) /\ \A m \in Numbers \ {n} : row'[m] = row[m]
  BY <1>2 DEF TypeInv, TypeOK
<1>6. pc'[r] = "done" /\ num'[r] = NoNumber
  BY InProcs, LeaveFacts DEF DeleteUncharged, TypeInv, TypeOK
<1> QED
  BY <1>1, <1>2, <1>4, <1>5, <1>6, NewRowFacts
  DEF DeleteUncharged, credits, jobVars, envVars, reqVars

LEMMA RecordFacts ==
    ASSUME TypeInv, OneServer, OpOK, NEW r \in Requests, RecordEvent(r)
    PROVE  /\ pc[r] = "record" /\ num'[r] = num[r] /\ gen'[r] = gen[r]
           /\ \/ pc'[r] = "mark" /\ op[r] \in {"track", "get"}
              \/ pc'[r] = "queue" /\ op[r] = "refresh"
              \/ pc'[r] = "look" /\ op[r] = "bulk"
           /\ RequestMoves(r)
           /\ UNCHANGED <<op, send, queue, row, paid, scraped, disowned>>
<1>1. pc[r] = "record" /\ op[r] \in Asking \cup {"bulk"}
  BY DEF RecordEvent, OpOK, Sync
<1>2. \/ AfterCharge(r) = "mark" /\ op[r] \in {"track", "get"}
      \/ AfterCharge(r) = "queue" /\ op[r] = "refresh"
      \/ AfterCharge(r) = "look" /\ op[r] = "bulk"
  BY <1>1 DEF AfterCharge, Asking
<1>3. \A q \in Procs \ {r} :
        pc'[q] = pc[q] /\ num'[q] = num[q] /\ gen'[q] = gen[q] /\ snap'[q] = snap[q]
  BY DEF RecordEvent, TypeInv, TypeOK
<1>4. RequestMoves(r)
  BY <1>3, Alone DEF RecordEvent, RequestMoves, TypeInv, TypeOK, jobVars, envVars, reqVars
<1>5. pc'[r] = AfterCharge(r)
  BY InProcs DEF RecordEvent, TypeInv, TypeOK
<1> QED
  BY <1>1, <1>2, <1>4, <1>5 DEF RecordEvent, jobVars, envVars, reqVars

LEMMA MarkInProgressFacts ==
    ASSUME TypeInv, OneServer, RowsOK, NEW r \in Requests, NEW n \in Numbers, num[r] = n,
           MarkInProgress(r)
    PROVE  /\ pc[r] = "mark" /\ pc'[r] = "scrape" /\ num'[r] = n /\ gen'[r] = gen[r]
           /\ row[n].here /\ row[n].gen = gen[r]
           /\ snap'[r].status = "in_progress" /\ snap'[r].msg = row[n].msg
           /\ scraped' = [scraped EXCEPT ![<<r, n>>] = @ + 1]
           /\ RequestMoves(r)
           /\ UNCHANGED <<op, send, queue, paid, disowned>>
           /\ Write(n, "in_progress", row[n].msg)
<1>1. pc[r] = "mark" /\ Exists(n, gen[r])
  BY DEF MarkInProgress, RowsOK, Relies
<1>2. /\ Write(n, "in_progress", row[n].msg)
      /\ scraped' = [scraped EXCEPT ![<<r, n>>] = @ + 1]
      /\ snap' = [snap EXCEPT ![r] = [status |-> "in_progress", msg |-> row[n].msg]]
      /\ pc' = [pc EXCEPT ![r] = "scrape"]
      /\ UNCHANGED <<num, gen>>
  BY <1>1 DEF MarkInProgress, BeginScrape, Token
<1>3. \A q \in Procs \ {r} :
        pc'[q] = pc[q] /\ num'[q] = num[q] /\ gen'[q] = gen[q] /\ snap'[q] = snap[q]
  BY <1>2 DEF TypeInv, TypeOK
<1>4. RequestMoves(r)
  BY <1>3, Alone DEF MarkInProgress, RequestMoves, TypeInv, TypeOK, jobVars, envVars, reqVars
<1>5. /\ pc'[r] = "scrape" /\ num'[r] = n /\ gen'[r] = gen[r]
      /\ snap'[r] = [status |-> "in_progress", msg |-> row[n].msg]
  BY <1>2, InProcs DEF TypeInv, TypeOK
<1> QED
  BY <1>1, <1>2, <1>4, <1>5 DEF MarkInProgress, Exists, credits, jobVars, envVars, reqVars

LEMMA MarkQueuedFacts ==
    ASSUME TypeInv, OneServer, RowsOK, NEW r \in Requests, NEW n \in Numbers, num[r] = n,
           MarkQueued(r)
    PROVE  /\ pc[r] = "queue" /\ op[r] = "refresh" /\ pc'[r] = "enqueue"
           /\ num'[r] = NoNumber
           /\ row[n].here /\ row[n].gen = gen[r]
           /\ send'[r] = {<<n, gen[r]>>}
           /\ RequestMoves(r)
           /\ UNCHANGED <<op, queue, paid, scraped, disowned>>
           /\ Write(n, "queued", "none")
<1>1. pc[r] = "queue" /\ op[r] = "refresh" /\ Exists(n, gen[r])
  BY DEF MarkQueued, RowsOK, Relies
<1>2. /\ Write(n, "queued", "none")
      /\ send' = [send EXCEPT ![r] = {<<n, gen[r]>>}]
      /\ pc' = [pc EXCEPT ![r] = "enqueue"]
  BY <1>1 DEF MarkQueued
<1>3. \A q \in Procs \ {r} :
        pc'[q] = pc[q] /\ num'[q] = num[q] /\ gen'[q] = gen[q] /\ snap'[q] = snap[q]
  BY <1>2, LeaveFacts DEF MarkQueued, TypeInv, TypeOK
<1>4. RequestMoves(r)
  BY <1>2, <1>3, Alone DEF MarkQueued, RequestMoves, TypeInv, TypeOK, jobVars, envVars
<1>5. pc'[r] = "enqueue" /\ num'[r] = NoNumber /\ send'[r] = {<<n, gen[r]>>}
  BY <1>2, InProcs, LeaveFacts DEF MarkQueued, TypeInv, TypeOK
<1> QED
  BY <1>1, <1>2, <1>4, <1>5 DEF MarkQueued, Exists, credits, jobVars, envVars

LEMMA BulkNextFacts ==
    ASSUME TypeInv, OneServer, NEW r \in Requests, BulkNext(r)
    PROVE  /\ pc[r] = "next"
           /\ RequestMoves(r)
           /\ UNCHANGED <<op, send, queue, row, paid, scraped, disowned>>
           /\ \/ pc'[r] = "deduct" /\ num'[r] \in todo[r]
              \/ pc'[r] = "done" /\ send[r] = {} /\ num'[r] = num[r]
              \/ pc'[r] = "enqueue" /\ num'[r] = num[r]
<1>1. \A q \in Procs \ {r} :
        pc'[q] = pc[q] /\ num'[q] = num[q] /\ gen'[q] = gen[q] /\ snap'[q] = snap[q]
  BY DEF BulkNext, TypeInv, TypeOK
<1>2. RequestMoves(r)
  BY <1>1, Alone DEF BulkNext, RequestMoves, TypeInv, TypeOK, jobVars, envVars
<1>3. \/ pc'[r] = "deduct" /\ num'[r] \in todo[r]
      \/ pc'[r] = "done" /\ send[r] = {} /\ num'[r] = num[r]
      \/ pc'[r] = "enqueue" /\ num'[r] = num[r]
  BY InProcs DEF BulkNext, TypeInv, TypeOK
<1> QED
  BY <1>2, <1>3 DEF BulkNext, credits, jobVars, envVars

LEMMA BulkLookFacts ==
    ASSUME TypeInv, OneServer, NEW r \in Requests, NEW n \in Numbers, num[r] = n, BulkLook(r)
    PROVE  /\ pc[r] = "look" /\ num'[r] = n /\ gen'[r] = row[n].gen
           /\ pc'[r] = IF row[n].here THEN "queue" ELSE "insert"
           /\ snap'[r].status = row[n].status /\ snap'[r].msg = row[n].msg
           /\ RequestMoves(r)
           /\ UNCHANGED <<op, send, queue, row, paid, scraped, disowned>>
<1>1. \A q \in Procs \ {r} :
        pc'[q] = pc[q] /\ num'[q] = num[q] /\ gen'[q] = gen[q] /\ snap'[q] = snap[q]
  BY DEF BulkLook, TypeInv, TypeOK
<1>2. RequestMoves(r)
  BY <1>1, Alone DEF BulkLook, RequestMoves, TypeInv, TypeOK, jobVars, envVars, reqVars
<1>3. /\ pc'[r] = IF row[n].here THEN "queue" ELSE "insert"
      /\ snap'[r] = [status |-> row[n].status, msg |-> row[n].msg]
      /\ gen'[r] = row[n].gen
  BY InProcs DEF BulkLook, TypeInv, TypeOK
<1> QED
  BY <1>2, <1>3 DEF BulkLook, credits, jobVars, envVars, reqVars

LEMMA BulkInsertFacts ==
    ASSUME TypeInv, OneServer, RowsOK, NEW r \in Requests, NEW n \in Numbers, num[r] = n,
           BulkInsert(r)
    PROVE  /\ pc[r] = "insert" /\ pc'[r] = "next" /\ num'[r] = NoNumber
           /\ ~row[n].here /\ Inserted(n)
           /\ send'[r] = send[r] \cup {<<n, row[n].gen + 1>>}
           /\ RequestMoves(r)
           /\ UNCHANGED <<op, queue, paid, scraped, disowned>>
<1>1. pc[r] = "insert" /\ ~row[n].here
  BY DEF BulkInsert, RowsOK
<1>2. /\ row' = [row EXCEPT ![n] = NewRow(@.gen + 1)]
      /\ send' = [send EXCEPT ![r] = @ \cup {<<n, row[n].gen + 1>>}]
  BY <1>1 DEF BulkInsert, Accept
<1>3. \A q \in Procs \ {r} :
        pc'[q] = pc[q] /\ num'[q] = num[q] /\ gen'[q] = gen[q] /\ snap'[q] = snap[q]
  BY LeaveFacts DEF BulkInsert, TypeInv, TypeOK
<1>4. RequestMoves(r)
  BY <1>2, <1>3, Alone DEF BulkInsert, RequestMoves, TypeInv, TypeOK, jobVars, envVars
<1>5. /\ pc'[r] = "next" /\ num'[r] = NoNumber
      /\ send'[r] = send[r] \cup {<<n, row[n].gen + 1>>}
  BY <1>2, InProcs, LeaveFacts DEF BulkInsert, TypeInv, TypeOK
<1> QED
  BY <1>1, <1>2, <1>4, <1>5, InsertFacts DEF BulkInsert, credits, jobVars, envVars

LEMMA BulkQueueFacts ==
    ASSUME TypeInv, OneServer, RowsOK, NEW r \in Requests, NEW n \in Numbers, num[r] = n,
           BulkQueue(r)
    PROVE  /\ pc[r] = "queue" /\ op[r] = "bulk" /\ pc'[r] = "next" /\ num'[r] = NoNumber
           /\ row[n].here /\ row[n].gen = gen[r]
           /\ send'[r] = send[r] \cup {<<n, gen[r]>>}
           /\ RequestMoves(r)
           /\ UNCHANGED <<op, queue, paid, scraped, disowned>>
           /\ \/ row' = row /\ snap[r].status = "queued"
              \/ Write(n, IF snap[r].status = "queued" THEN row[n].status ELSE "queued",
                          IF snap[r].msg = "none" THEN row[n].msg ELSE "none")
<1>1. pc[r] = "queue" /\ op[r] = "bulk" /\ Exists(n, gen[r])
  BY DEF BulkQueue, RowsOK, Relies
<1>2. /\ \/ row' = row /\ snap[r].status = "queued"
         \/ Write(n, IF snap[r].status = "queued" THEN row[n].status ELSE "queued",
                     IF snap[r].msg = "none" THEN row[n].msg ELSE "none")
      /\ send' = [send EXCEPT ![r] = @ \cup {<<n, gen[r]>>}]
  BY <1>1 DEF BulkQueue, Accept, NoSnap
<1>3. \A q \in Procs \ {r} :
        pc'[q] = pc[q] /\ num'[q] = num[q] /\ gen'[q] = gen[q] /\ snap'[q] = snap[q]
  BY LeaveFacts DEF BulkQueue, TypeInv, TypeOK
<1>4. RequestMoves(r)
  BY <1>2, <1>3, Alone DEF BulkQueue, RequestMoves, TypeInv, TypeOK, jobVars, envVars
<1>5. /\ pc'[r] = "next" /\ num'[r] = NoNumber
      /\ send'[r] = send[r] \cup {<<n, gen[r]>>}
  BY <1>2, InProcs, LeaveFacts DEF BulkQueue, TypeInv, TypeOK
<1> QED
  BY <1>1, <1>2, <1>4, <1>5 DEF BulkQueue, Exists, credits, jobVars, envVars

LEMMA EnqueueFacts ==
    ASSUME TypeInv, OneServer, RowsOK, NEW r \in Requests, EnqueueScrape(r)
    PROVE  /\ pc[r] = "enqueue" /\ num'[r] = num[r] /\ gen'[r] = gen[r]
           /\ RequestMoves(r)
           /\ UNCHANGED <<op, row, paid, scraped, disowned>>
           /\ pc'[r] = IF send'[r] = {} THEN "done" ELSE "enqueue"
           /\ \E id \in send[r] :
                 /\ Exists(id[1], id[2])
                 /\ send'[r] = send[r] \ {id}
                 /\ \/ queue' = queue \cup {[num |-> id[1], gen |-> id[2], by |-> r]}
                    \/ RedisMayFail /\ queue' = queue
<1>1. pc[r] = "enqueue" /\ \A id \in send[r] : Exists(id[1], id[2])
  BY DEF EnqueueScrape, RowsOK
<1>2. \E id \in send[r] :
        /\ Exists(id[1], id[2])
        /\ send' = [send EXCEPT ![r] = @ \ {id}]
        /\ \/ queue' = queue \cup {[num |-> id[1], gen |-> id[2], by |-> r]}
           \/ RedisMayFail /\ queue' = queue
  BY <1>1 DEF EnqueueScrape
<1>3. pc' = IF send'[r] = {} THEN [pc EXCEPT ![r] = "done"] ELSE pc
  BY DEF EnqueueScrape
<1>4. \A q \in Procs \ {r} :
        pc'[q] = pc[q] /\ num'[q] = num[q] /\ gen'[q] = gen[q] /\ snap'[q] = snap[q]
  BY <1>3 DEF EnqueueScrape, TypeInv, TypeOK
<1>5. \A q \in Requests \ {r} : send'[q] = send[q]
  BY <1>2 DEF TypeInv, TypeOK
<1>6. RequestMoves(r)
  BY <1>4, <1>5, Alone DEF EnqueueScrape, RequestMoves, TypeInv, TypeOK, envVars
<1>7. \E id \in send[r] :
        /\ Exists(id[1], id[2])
        /\ send'[r] = send[r] \ {id}
        /\ \/ queue' = queue \cup {[num |-> id[1], gen |-> id[2], by |-> r]}
           \/ RedisMayFail /\ queue' = queue
  BY <1>2 DEF TypeInv, TypeOK
<1>8. pc'[r] = IF send'[r] = {} THEN "done" ELSE "enqueue"
  BY <1>1, <1>3, InProcs DEF TypeInv, TypeOK
<1> QED
  BY <1>1, <1>6, <1>7, <1>8 DEF EnqueueScrape, credits, envVars

\* Nobody moves but process p.
OnlyMoves(p) ==
    /\ \A q \in Procs \ {p} :
          pc'[q] = pc[q] /\ num'[q] = num[q] /\ gen'[q] = gen[q] /\ snap'[q] = snap[q]
    /\ \A s \in Slots \ {p} : by'[s] = by[s]
    /\ UNCHANGED <<op, send, sweep>>

\* Slot s takes job j and scrapes.
Takes(s, j) ==
    /\ row[j.num].here /\ row[j.num].gen = j.gen
    /\ pc'[s] = "scrape" /\ num'[s] = j.num /\ gen'[s] = j.gen /\ by'[s] = j.by
    /\ snap'[s].status = "in_progress" /\ snap'[s].msg = row[j.num].msg
    /\ scraped' = [scraped EXCEPT ![<<j.by, j.num>>] = @ + 1]
    /\ \/ row' = row /\ row[j.num].status = "in_progress"
       \/ Write(j.num, "in_progress", row[j.num].msg)

LEMMA StartJobFacts ==
    ASSUME TypeInv, RowsOK, NEW s \in Slots, StartJob(s)
    PROVE  /\ pc[s] = "idle" /\ OnlyMoves(s)
           /\ UNCHANGED <<paid, disowned, jobAge>>
           /\ \E j \in queue :
                 /\ queue' = queue \ {j}
                 /\ \/ Takes(s, j)
                    \/ /\ UNCHANGED <<row, scraped, pc, num, gen, snap, by>>
                       /\ ~row[j.num].active
<1>1. PICK j \in queue : StartJob(s)!2!(j)
  BY DEF StartJob
<1>2. Exists(j.num, j.gen)
  BY DEF RowsOK, QueuedRowSurvives
<1>3. \/ /\ RowFound(j)
         /\ \/ row' = row /\ row[j.num].status = "in_progress"
            \/ Write(j.num, "in_progress", row[j.num].msg)
         /\ scraped' = [scraped EXCEPT ![<<j.by, j.num>>] = @ + 1]
         /\ snap' = [snap EXCEPT ![s] = [status |-> "in_progress", msg |-> row[j.num].msg]]
         /\ pc' = [pc EXCEPT ![s] = "scrape"]
         /\ num' = [num EXCEPT ![s] = j.num]
         /\ gen' = [gen EXCEPT ![s] = j.gen]
         /\ by' = [by EXCEPT ![s] = j.by]
      \/ ~RowFound(j) /\ UNCHANGED <<row, scraped, pc, num, gen, snap, by>>
  BY <1>1 DEF BeginScrape, JobToken
<1>4. OnlyMoves(s)
  <2>1. \A q \in Procs \ {s} :
          pc'[q] = pc[q] /\ num'[q] = num[q] /\ gen'[q] = gen[q] /\ snap'[q] = snap[q]
    BY <1>3 DEF TypeInv, TypeOK
  <2>2. \A t \in Slots \ {s} : by'[t] = by[t]
    BY <1>3 DEF TypeInv, TypeOK
  <2> QED
    BY <2>1, <2>2 DEF StartJob, OnlyMoves, envVars, reqVars
<1>5. Takes(s, j) \/ (~row[j.num].active /\ UNCHANGED <<row, scraped, pc, num, gen, snap, by>>)
  <2>1. CASE RowFound(j)
    <3>1. /\ pc'[s] = "scrape" /\ num'[s] = j.num /\ gen'[s] = j.gen /\ by'[s] = j.by
          /\ snap'[s] = [status |-> "in_progress", msg |-> row[j.num].msg]
      BY <1>3, <2>1, InProcs DEF TypeInv, TypeOK
    <3>2. snap'[s].status = "in_progress" /\ snap'[s].msg = row[j.num].msg
      BY <3>1
    <3> QED
      BY <1>2, <1>3, <2>1, <3>1, <3>2 DEF Takes, Exists
  <2>2. CASE ~RowFound(j)
    BY <1>2, <1>3, <2>2 DEF RowFound
  <2> QED
    BY <2>1, <2>2
<1> QED
  BY <1>1, <1>4, <1>5 DEF StartJob, credits, envVars

\* A scrape settles the row of number n.
Settles(p, n) ==
    /\ \A m \in Numbers \ {n} : row'[m] = row[m]
    /\ row'[n].here = row[n].here /\ row'[n].gen = row[n].gen
    /\ row'[n].active = row[n].active
    /\ \/ /\ pc[p] = "scrape"
          /\ row'[n].status = IF snap[p].status = "no_data" THEN row[n].status ELSE "no_data"
          /\ row'[n].msg = IF snap[p].msg = "no_data" THEN row[n].msg ELSE "no_data"
       \/ /\ pc[p] = "scrape"
          /\ row'[n].status = IF snap[p].status = "completed" THEN row[n].status ELSE "completed"
          /\ row'[n].msg = IF snap[p].msg = "none" THEN row[n].msg ELSE "none"
       \/ row'[n].status = "failed" /\ row'[n].msg = "failed"

LEMMA EndsFacts ==
    ASSUME TypeInv, RowsOK, NEW p \in Procs, NEW n \in Numbers, num[p] = n, ScrapeEnds(p)
    PROVE  /\ pc[p] \in Working /\ OnlyMoves(p)
           /\ UNCHANGED <<paid, scraped, queue>>
           /\ \A s \in Slots \ {p} : jobAge'[s] = jobAge[s]
           /\ \/ /\ pc[p] = "scrape" /\ pc'[p] = "notify"
                 /\ num'[p] = num[p] /\ gen'[p] = gen[p] /\ by' = by
              \/ pc'[p] = IF p \in Slots THEN "idle" ELSE "done"
           /\ \/ pc[p] = "notify" /\ UNCHANGED <<row, disowned>>
              \/ /\ Settles(p, n)
                 /\ disowned' = disowned \cup (LiveTokens(n) \ {OwnToken(p)})
<1>1. /\ pc[p] \in Working
      /\ UNCHANGED <<paid, scraped, queue, op, send, sweep>>
      /\ \/ Finish(p)
         \/ pc[p] = "scrape" /\ pc' = [pc EXCEPT ![p] = "notify"]
            /\ UNCHANGED <<num, gen, snap, by, jobAge>>
  BY DEF ScrapeEnds, ProviderMiss, ProviderHit, ProviderHitNotify, Notified, ScrapeRaises,
    Working, credits, reqVars, jobVars, envVars
<1>2. Exists(n, gen[p])
  BY <1>1 DEF RowsOK
<1>3. \A q \in Procs \ {p} :
        pc'[q] = pc[q] /\ num'[q] = num[q] /\ gen'[q] = gen[q] /\ snap'[q] = snap[q]
  BY <1>1 DEF Finish, TypeInv, TypeOK
<1>4. \A s \in Slots \ {p} : by'[s] = by[s] /\ jobAge'[s] = jobAge[s]
  BY <1>1 DEF Finish, TypeInv, TypeOK
<1>5. \/ /\ pc[p] = "scrape" /\ pc'[p] = "notify"
         /\ num'[p] = num[p] /\ gen'[p] = gen[p] /\ by' = by
      \/ pc'[p] = IF p \in Slots THEN "idle" ELSE "done"
  BY <1>1 DEF Finish, TypeInv, TypeOK
<1>6. \/ pc[p] = "notify" /\ UNCHANGED <<row, disowned>>
      \/ /\ Disown(p)
         /\ \/ pc[p] = "scrape" /\ Apply(p, "no_data", "no_data")
            \/ pc[p] = "scrape" /\ Apply(p, "completed", "none")
            \/ Write(n, "failed", "failed")
  BY <1>2 DEF ScrapeEnds, ProviderMiss, ProviderHit, ProviderHitNotify, Notified,
    ScrapeRaises, envVars
<1>7. CASE pc[p] = "scrape" /\ Apply(p, "no_data", "no_data")
  BY <1>7, <1>6, <1>1, <1>3, <1>4, <1>5, ApplyFacts DEF Settles, Disown, OnlyMoves
<1>8. CASE pc[p] = "scrape" /\ Apply(p, "completed", "none")
  BY <1>8, <1>6, <1>1, <1>3, <1>4, <1>5, ApplyFacts DEF Settles, Disown, OnlyMoves
<1>9. CASE Write(n, "failed", "failed")
  BY <1>9, <1>6, <1>1, <1>3, <1>4, <1>5, WriteFacts DEF Settles, Disown, OnlyMoves
<1>10. CASE pc[p] = "notify" /\ UNCHANGED <<row, disowned>>
  BY <1>10, <1>1, <1>3, <1>4, <1>5 DEF OnlyMoves
<1> QED
  BY <1>6, <1>7, <1>8, <1>9, <1>10

\* No process moves and no row is inserted or deleted.
NobodyMoved ==
    /\ UNCHANGED <<pc, num, gen, snap, by, op, send, queue, paid, scraped>>
    /\ \A n \in Numbers :
          /\ row'[n].here = row[n].here /\ row'[n].gen = row[n].gen
          /\ row'[n].active = row[n].active

LEMMA SweepReadFacts ==
    ASSUME TypeInv, SweepRead
    PROVE  /\ NobodyMoved /\ UNCHANGED <<row, disowned, jobAge>>
           /\ \A id \in sweep', n \in Numbers :
                 id[1] = n => Pending(n) /\ Stuck(n) /\ id[3] = row[n].msg
<1>1. NobodyMoved /\ UNCHANGED <<row, disowned, jobAge>>
  BY DEF SweepRead, NobodyMoved, credits, jobVars, reqVars
<1>2. \A id \in sweep' : \E m \in Numbers :
        id[1] = m /\ id[3] = row[m].msg /\ Pending(m) /\ Stuck(m)
  BY DEF SweepRead, FindStuck
<1> QED
  BY <1>1, <1>2

LEMMA SweepWriteFacts ==
    ASSUME TypeInv, SweepWrite
    PROVE  /\ NobodyMoved /\ sweep' = {} /\ jobAge' = jobAge /\ disowned \subseteq disowned'
           /\ \A id \in sweep : Contradicted(id) \subseteq disowned'
           /\ \A n \in Numbers :
                 \/ row'[n] = row[n]
                 \/ \E id \in sweep :
                       /\ id[1] = n /\ row'[n].status = "failed"
                       /\ row'[n].msg = IF id[3] = "timeout" THEN row[n].msg ELSE "timeout"
<1>1. \A id \in sweep : Contradicted(id) \subseteq disowned'
  BY DEF SweepWrite
<1>2. ASSUME NEW n \in Numbers
      PROVE  \/ row'[n] = row[n]
             \/ \E id \in sweep : id[1] = n /\ row'[n] = SweptRow(id)
  <2>1. CASE \E id \in sweep : id[1] = n
    <3> DEFINE id == CHOOSE id \in sweep : id[1] = n
    <3>1. id \in sweep /\ id[1] = n
      BY <2>1
    <3>2. row'[n] = SweptRow(id) \/ row'[n] = row[n]
      BY <2>1 DEF SweepWrite
    <3> QED
      BY <3>1, <3>2
  <2>2. CASE ~\E id \in sweep : id[1] = n
    BY <2>2 DEF SweepWrite
  <2> QED
    BY <2>1, <2>2
<1>3. ASSUME NEW id \in sweep
      PROVE  /\ SweptRow(id).here = row[id[1]].here /\ SweptRow(id).gen = row[id[1]].gen
             /\ SweptRow(id).active = row[id[1]].active
             /\ SweptRow(id).status = "failed"
             /\ SweptRow(id).msg = IF id[3] = "timeout" THEN row[id[1]].msg ELSE "timeout"
  <2>1. row[id[1]] \in Row
    BY DEF TypeInv, TypeOK
  <2> QED
    BY <2>1 DEF SweptRow, Row
<1>4. NobodyMoved
  BY <1>2, <1>3 DEF SweepWrite, NobodyMoved, credits, jobVars, reqVars
<1>5. ASSUME NEW n \in Numbers, row'[n] # row[n]
      PROVE  \E id \in sweep :
                /\ id[1] = n /\ row'[n].status = "failed"
                /\ row'[n].msg = IF id[3] = "timeout" THEN row[n].msg ELSE "timeout"
  <2>1. PICK id \in sweep : id[1] = n /\ row'[n] = SweptRow(id)
    BY <1>2, <1>5
  <2> QED
    BY <2>1, <1>3
<1> QED
  BY <1>1, <1>4, <1>5 DEF SweepWrite, jobVars

LEMMA TickFacts ==
    ASSUME TypeInv, Tick
    PROVE  /\ NobodyMoved /\ UNCHANGED <<disowned, sweep>>
           /\ \A s \in Slots : jobAge'[s] = IF pc[s] = "idle" THEN 0 ELSE jobAge[s] + 1
           /\ \A n \in Numbers :
                 /\ row'[n].status = row[n].status /\ row'[n].msg = row[n].msg
                 /\ row'[n].age \in {row[n].age, row[n].age + 1}
<1>1. ASSUME NEW n \in Numbers
      PROVE  /\ row'[n].here = row[n].here /\ row'[n].gen = row[n].gen
             /\ row'[n].active = row[n].active
             /\ row'[n].status = row[n].status /\ row'[n].msg = row[n].msg
             /\ row'[n].age \in {row[n].age, row[n].age + 1}
  <2>1. row[n] \in Row
    BY DEF TypeInv, TypeOK
  <2>2. row'[n] = row[n] \/ row'[n] = [row[n] EXCEPT !.age = row[n].age + 1]
    BY <2>1 DEF Tick, Row
  <2> QED
    BY <2>1, <2>2 DEF Row
<1> QED
  BY <1>1 DEF Tick, NobodyMoved, credits, envVars, reqVars

\* The cache period ends, a purchase is made, or a tracking id is saved.
LEMMA ElseFacts ==
    ASSUME TypeInv, \/ AddCredits \/ \E n \in Numbers : CacheExpires(n)
                    \/ \E id \in creating : TrackingIdSaved(id)
    PROVE  /\ NobodyMoved /\ UNCHANGED <<disowned, sweep, jobAge>>
           /\ \A n \in Numbers :
                 /\ row'[n].status = row[n].status /\ row'[n].msg = row[n].msg
                 /\ row'[n].age \in {row[n].age, 0}
<1>1. CASE AddCredits
  BY <1>1 DEF AddCredits, NobodyMoved, jobVars, envVars, reqVars
<1>2. ASSUME NEW n \in Numbers, CacheExpires(n)
      PROVE  /\ NobodyMoved /\ UNCHANGED <<disowned, sweep, jobAge>>
             /\ \A m \in Numbers :
                   /\ row'[m].status = row[m].status /\ row'[m].msg = row[m].msg
                   /\ row'[m].age \in {row[m].age, 0}
  <2>1. row[n] \in Row /\ row' = [row EXCEPT ![n] = [row[n] EXCEPT !.fresh = FALSE]]
    BY <1>2 DEF CacheExpires, TypeInv, TypeOK
  <2>2. /\ \A m \in Numbers \ {n} : row'[m] = row[m]
        /\ row'[n] = [row[n] EXCEPT !.fresh = FALSE]
    BY <2>1 DEF TypeInv, TypeOK
  <2>3. /\ row'[n].here = row[n].here /\ row'[n].gen = row[n].gen
        /\ row'[n].active = row[n].active /\ row'[n].age = row[n].age
        /\ row'[n].status = row[n].status /\ row'[n].msg = row[n].msg
    BY <2>1, <2>2 DEF Row
  <2> QED
    BY <1>2, <2>2, <2>3 DEF CacheExpires, NobodyMoved, credits, jobVars, envVars, reqVars
<1>3. ASSUME NEW id \in creating, TrackingIdSaved(id)
      PROVE  /\ NobodyMoved /\ UNCHANGED <<disowned, sweep, jobAge>>
             /\ \A m \in Numbers :
                   /\ row'[m].status = row[m].status /\ row'[m].msg = row[m].msg
                   /\ row'[m].age \in {row[m].age, 0}
  <2>1. PICK n \in Numbers : n = id[1]
    BY DEF TypeInv, TypeOK, RowId
  <2>2. row[n] \in Row /\ (row' = row \/ row' = [row EXCEPT ![n] = [row[n] EXCEPT !.age = 0]])
    BY <1>3, <2>1 DEF TrackingIdSaved, TypeInv, TypeOK
  <2>3. /\ \A m \in Numbers \ {n} : row'[m] = row[m]
        /\ row'[n] = row[n] \/ row'[n] = [row[n] EXCEPT !.age = 0]
    BY <2>2 DEF TypeInv, TypeOK
  <2>4. /\ row'[n].here = row[n].here /\ row'[n].gen = row[n].gen
        /\ row'[n].active = row[n].active /\ row'[n].age \in {row[n].age, 0}
        /\ row'[n].status = row[n].status /\ row'[n].msg = row[n].msg
    BY <2>2, <2>3 DEF Row
  <2> QED
    BY <1>3, <2>3, <2>4 DEF TrackingIdSaved, NobodyMoved, credits, jobVars, envVars, reqVars
<1> QED
  BY <1>1, <1>2, <1>3

LEMMA CrashFacts ==
    ASSUME TypeInv, CrashWorker \/ (\E h \in Servers : CrashApi(h))
    PROVE  /\ UNCHANGED <<row, op, queue, paid, scraped, disowned>>
           /\ sweep' \subseteq sweep
           /\ \A p \in Procs :
                 \/ /\ pc'[p] = pc[p] /\ num'[p] = num[p]
                    /\ gen'[p] = gen[p] /\ snap'[p] = snap[p]
                 \/ pc'[p] \in {"idle", "dead", "lost"} /\ (p \in Requests => pc'[p] # "idle")
           /\ \A s \in Slots : pc'[s] # "idle" => by'[s] = by[s] /\ jobAge'[s] = jobAge[s]
           /\ \A r \in Requests :
                 send'[r] = send[r] \/ (send'[r] = {} /\ pc'[r] \notin Sync \cup Await)
<1>1. CASE CrashWorker
  <2>1. \A s \in Slots : pc'[s] = "idle"
    BY <1>1, InProcs DEF CrashWorker
  <2>2. \A r \in Requests :
          pc'[r] = pc[r] /\ num'[r] = num[r] /\ gen'[r] = gen[r] /\ snap'[r] = snap[r]
    BY <1>1, ConstantsAssumption, InProcs DEF CrashWorker
  <2> QED
    BY <1>1, <2>1, <2>2, ConstantsAssumption
    DEF CrashWorker, RetriedJobs, Procs, credits, reqVars
<1>2. ASSUME NEW h \in Servers, CrashApi(h)
      PROVE  /\ UNCHANGED <<row, op, queue, paid, scraped, disowned, sweep, by, jobAge>>
             /\ \A p \in Procs :
                   \/ /\ pc'[p] = pc[p] /\ num'[p] = num[p]
                      /\ gen'[p] = gen[p] /\ snap'[p] = snap[p]
                   \/ pc'[p] \in {"dead", "lost"}
             /\ \A r \in Requests :
                   send'[r] = send[r] \/ (send'[r] = {} /\ pc'[r] \notin Sync \cup Await)
  <2>1. \A p \in Procs :
          /\ pc'[p] = pc[p] \/ pc'[p] \in {"dead", "lost"}
          /\ pc'[p] # "dead" => num'[p] = num[p] /\ gen'[p] = gen[p] /\ snap'[p] = snap[p]
    BY <1>2 DEF CrashApi
  <2>2. \A r \in Requests : send'[r] = send[r] \/ (send'[r] = {} /\ host[r] = h)
    BY <1>2 DEF CrashApi
  <2>3. \A r \in Requests : host[r] = h => pc'[r] \notin Sync \cup Await
    BY <1>2, InProcs DEF CrashApi, Sync, Await
  <2> QED
    BY <1>2, <2>1, <2>2, <2>3 DEF CrashApi, credits, jobVars
<1> QED
  BY <1>1, <1>2

-----------------------------------------------------------------------------
(* OpOK and RowsOK are kept.                                               *)

\* What OpOK says of request r in the next state.
LEMMA OpOne ==
    ASSUME OpOK, NEW r \in Requests, RequestMoves(r),
           pc'[r] \in Sync => op'[r] \in Asking \cup {"bulk"},
           pc'[r] \in {"next", "look", "insert"} => op'[r] = "bulk",
           pc'[r] \in {"create", "undo", "mark"} => op'[r] # "bulk",
           send'[r] # {} => pc'[r] = "enqueue" \/ (pc'[r] \in Sync /\ op'[r] = "bulk")
    PROVE  OpOK'
<1>1. \A q \in Requests \ {r} :
        pc'[q] = pc[q] /\ op'[q] = op[q] /\ send'[q] = send[q]
  BY InProcs DEF RequestMoves
<1> QED
  BY <1>1 DEF OpOK

LEMMA OpRequest ==
    ASSUME TypeInv, OneServer, OpOK, RowsOK, NEW r \in Requests, ClientCalls(r) \/ RequestStep(r)
    PROVE  OpOK'
<1>1. ASSUME NEW n \in Numbers, Track(r, n) \/ GetOrRefresh(r, n) \/ RequestRefresh(r, n)
      PROVE  OpOK'
  <2>1. PICK o \in Asking, c \in {"create", "deduct", "done"} :
          /\ pc[r] = "idle" /\ pc'[r] = c /\ op'[r] = o
          /\ RequestMoves(r) /\ UNCHANGED send
    BY <1>1, AskFacts
  <2> QED
    BY <2>1, OpOne DEF OpOK, Sync, Asking
<1>2. ASSUME NEW n \in Numbers, StopTracking(r, n)
      PROVE  OpOK'
  BY <1>2, StopFacts, OpOne DEF OpOK, Sync
<1>3. ASSUME NEW S \in SUBSET Numbers, QueueBulk(r, S)
      PROVE  OpOK'
  BY <1>3, QueueBulkFacts, OpOne DEF OpOK, Sync
<1> DEFINE n == num[r]
<1>num. pc[r] \in {"create", "deduct", "undo", "record", "mark", "look", "insert", "queue"}
        => n \in Numbers
  BY DEF TypeInv, PlaceOK
<1>4. CASE CreateAndDeduct(r)
  <2>1. pc[r] = "create" /\ n \in Numbers
    BY <1>4, <1>num DEF CreateAndDeduct
  <2> HIDE DEF n
  <2>2. pc[r] = "create" /\ pc'[r] \in {"record", "undo"} /\ RequestMoves(r) /\ UNCHANGED <<op, send>>
    BY <1>4, <2>1, CreateFacts DEF n
  <2> QED
    BY <2>2, OpOne DEF OpOK, Sync
<1>5. CASE Deduct(r)
  <2>1. n \in Numbers
    BY <1>5, <1>num DEF Deduct
  <2> HIDE DEF n
  <2>2. /\ pc[r] = "deduct" /\ pc'[r] \in {"record", IF op[r] = "bulk" THEN "next" ELSE "done"}
        /\ RequestMoves(r) /\ UNCHANGED <<op, send>>
    BY <1>5, <2>1, DeductFacts DEF n
  <2> QED
    BY <2>2, OpOne DEF OpOK, Sync
<1>6. CASE DeleteUncharged(r)
  <2>1. n \in Numbers
    BY <1>6, <1>num DEF DeleteUncharged
  <2> HIDE DEF n
  <2>2. pc[r] = "undo" /\ pc'[r] = "done" /\ RequestMoves(r) /\ UNCHANGED <<op, send>>
    BY <1>6, <2>1, DeleteFacts DEF n
  <2> QED
    BY <2>2, OpOne DEF OpOK, Sync
<1>7. CASE RecordEvent(r)
  BY <1>7, RecordFacts, OpOne DEF OpOK, Sync, Asking
<1>8. CASE MarkInProgress(r)
  <2>1. n \in Numbers
    BY <1>8, <1>num DEF MarkInProgress
  <2> HIDE DEF n
  <2>2. pc[r] = "mark" /\ pc'[r] = "scrape" /\ RequestMoves(r) /\ UNCHANGED <<op, send>>
    BY <1>8, <2>1, MarkInProgressFacts DEF n
  <2> QED
    BY <2>2, OpOne DEF OpOK, Sync
<1>9. CASE MarkQueued(r)
  <2>1. n \in Numbers
    BY <1>9, <1>num DEF MarkQueued
  <2> HIDE DEF n
  <2>2. pc'[r] = "enqueue" /\ RequestMoves(r)
    BY <1>9, <2>1, MarkQueuedFacts DEF n
  <2> QED
    BY <2>2, OpOne DEF OpOK, Sync
<1>10. CASE BulkNext(r)
  BY <1>10, BulkNextFacts, OpOne DEF OpOK, Sync
<1>11. CASE BulkLook(r)
  <2>1. n \in Numbers
    BY <1>11, <1>num DEF BulkLook
  <2> HIDE DEF n
  <2>2. pc[r] = "look" /\ pc'[r] \in {"queue", "insert"} /\ RequestMoves(r) /\ UNCHANGED <<op, send>>
    BY <1>11, <2>1, BulkLookFacts DEF n
  <2> QED
    BY <2>2, OpOne DEF OpOK, Sync
<1>12. CASE BulkInsert(r)
  <2>1. n \in Numbers
    BY <1>12, <1>num DEF BulkInsert
  <2> HIDE DEF n
  <2>2. pc[r] = "insert" /\ pc'[r] = "next" /\ RequestMoves(r) /\ UNCHANGED op
    BY <1>12, <2>1, BulkInsertFacts DEF n
  <2> QED
    BY <2>2, OpOne DEF OpOK, Sync
<1>13. CASE BulkQueue(r)
  <2>1. n \in Numbers
    BY <1>13, <1>num DEF BulkQueue
  <2> HIDE DEF n
  <2>2. op[r] = "bulk" /\ pc'[r] = "next" /\ RequestMoves(r) /\ UNCHANGED op
    BY <1>13, <2>1, BulkQueueFacts DEF n
  <2> QED
    BY <2>2, OpOne DEF OpOK, Sync
<1>14. CASE EnqueueScrape(r)
  <2>1. pc[r] = "enqueue" /\ pc'[r] = (IF send'[r] = {} THEN "done" ELSE "enqueue") /\ RequestMoves(r)
    BY <1>14, EnqueueFacts
  <2> QED
    BY <2>1, OpOne DEF Sync
<1> QED
  BY <1>1, <1>2, <1>3, <1>4, <1>5, <1>6, <1>7, <1>8, <1>9, <1>10, <1>11, <1>12, <1>13, <1>14
  DEF ClientCalls, RequestStep

LEMMA OpNext ==
    ASSUME TypeInv, OneServer, OpOK, RowsOK, [Next]_vars
    PROVE  OpOK'
<1>1. CASE \E r \in Requests : ClientCalls(r) \/ RequestStep(r)
  BY <1>1, OpRequest
<1>2. ASSUME NEW p \in Procs, ScrapeEnds(p)
      PROVE  OpOK'
  <2>1. /\ UNCHANGED <<op, send>> /\ pc[p] \in Working
        /\ Finish(p) \/ pc' = [pc EXCEPT ![p] = "notify"]
    BY <1>2 DEF ScrapeEnds, ProviderMiss, ProviderHit, ProviderHitNotify, Notified, ScrapeRaises,
      reqVars, Working
  <2>2. \A r \in Requests : pc'[r] = pc[r] \/ (r = p /\ pc'[r] \in {"done", "notify"})
    BY <2>1, ConstantsAssumption DEF Finish, TypeInv, TypeOK, Procs
  <2>3. p \in Requests => send[p] = {}
    BY <2>1 DEF OpOK, Working, Sync
  <2> QED
    BY <2>1, <2>2, <2>3 DEF OpOK, Sync
<1>3. ASSUME NEW s \in Slots, StartJob(s)
      PROVE  OpOK'
  <2>1. OnlyMoves(s)
    BY <1>3, StartJobFacts
  <2>2. \A r \in Requests : pc'[r] = pc[r]
    BY <2>1, ConstantsAssumption, InProcs DEF OnlyMoves
  <2> QED
    BY <2>1, <2>2 DEF OpOK, OnlyMoves
<1>4. CASE NobodyMoved
  BY <1>4 DEF NobodyMoved, OpOK
<1>5. CASE CrashWorker \/ (\E h \in Servers : CrashApi(h))
  <2>1. /\ UNCHANGED op
        /\ \A r \in Requests : pc'[r] = pc[r] \/ pc'[r] \in {"dead", "lost"}
        /\ \A r \in Requests :
              send'[r] = send[r] \/ (send'[r] = {} /\ pc'[r] \notin Sync \cup Await)
    BY <1>5, InProcs, CrashFacts
  <2>2. \A r \in Requests : pc'[r] \in {"dead", "lost"} => send'[r] = {}
    <3>1. SUFFICES ASSUME NEW r \in Requests, pc'[r] \in {"dead", "lost"}, send[r] # {}
                   PROVE  send'[r] = {}
      BY <2>1
    <3>2. pc[r] \in Sync \cup Await
      BY <3>1 DEF OpOK, Await
    <3>3. CASE CrashWorker
      BY <3>1, <3>2, <3>3, ConstantsAssumption, InProcs DEF CrashWorker, Sync, Await
    <3>4. CASE \E h \in Servers : CrashApi(h)
      BY <3>1, <3>2, <3>4, InProcs DEF CrashApi, Sync, Await
    <3> QED
      BY <1>5, <3>3, <3>4
  <2> QED
    BY <2>1, <2>2 DEF OpOK, Sync
<1>6. CASE UNCHANGED vars
  BY <1>6 DEF vars, OpOK
<1> QED
  BY <1>1, <1>2, <1>3, <1>4, <1>5, <1>6, SweepReadFacts, SweepWriteFacts, TickFacts, ElseFacts
  DEF Next, Environment

\* Whatever a step of request r does to the rows, those that somebody waits
\* for persist.
LEMMA RowsOne ==
    ASSUME TypeInv, RowsOK, NEW r \in Requests, RequestMoves(r),
           \A n \in Numbers : row[n].here /\ Awaited(n) =>
              row'[n].here /\ row'[n].gen = row[n].gen,
           \A n \in Numbers : ~row'[n].here => row'[n].active,
           \A j \in queue' : j \in queue \/ (row'[j.num].here /\ row'[j.num].gen = j.gen),
           \A id \in send'[r] : id \in send[r] \/ (row'[id[1]].here /\ row'[id[1]].gen = id[2]),
           \A n \in Numbers : num'[r] = n =>
              /\ Relies(r)' \/ pc'[r] \in Working => row'[n].here /\ row'[n].gen = gen'[r]
              /\ pc'[r] \in {"create", "insert"} => ~row'[n].here
              /\ pc'[r] = "undo" => row'[n].active /\ ~Awaited(n)'
    PROVE  RowsOK'
<1>1. \A j \in queue : row'[j.num].here /\ row'[j.num].gen = j.gen
  BY DEF RowsOK, QueuedRowSurvives, Exists, Awaited, TypeInv, TypeOK, Job
<1>2. \A q \in Requests : \A id \in send[q] : row'[id[1]].here /\ row'[id[1]].gen = id[2]
  <2> SUFFICES ASSUME NEW q \in Requests, NEW id \in send[q]
               PROVE  row'[id[1]].here /\ row'[id[1]].gen = id[2]
    OBVIOUS
  <2>1. PICK n \in Numbers : id[1] = n
    BY DEF TypeInv, TypeOK, RowId
  <2>2. row[n].here /\ row[n].gen = id[2] /\ Awaited(n)
    BY <2>1 DEF RowsOK, Exists, Awaited
  <2> QED
    BY <2>1, <2>2
<1>3. \A p \in Procs, n \in Numbers :
        pc[p] \in Working /\ num[p] = n => row'[n].here /\ row'[n].gen = gen[p]
  BY DEF RowsOK, Exists, Awaited
<1>4. \A q \in Requests \ {r} : pc'[q] \notin Sync /\ send'[q] = send[q]
  BY InProcs DEF RequestMoves
<1>5. QueuedRowSurvives'
  BY <1>1 DEF QueuedRowSurvives, Exists
<1>6. \A q \in Requests : \A id \in send'[q] : Exists(id[1], id[2])'
  BY <1>2, <1>4 DEF Exists
<1>7. \A p \in Procs, n \in Numbers :
        pc'[p] \in Working /\ num'[p] = n => row'[n].here /\ row'[n].gen = gen'[p]
  BY <1>3 DEF RequestMoves
<1>8. \A q \in Requests, n \in Numbers : num'[q] = n =>
          /\ Relies(q)' => row'[n].here /\ row'[n].gen = gen'[q]
          /\ pc'[q] \in {"create", "insert"} => ~row'[n].here
          /\ pc'[q] = "undo" => row'[n].active /\ ~Awaited(n)'
  BY <1>4 DEF Relies, Sync
<1> QED
  BY <1>5, <1>6, <1>7, <1>8 DEF RowsOK, Exists

\* A step that inserts no row and has no request between two awaits.
LEMMA RowsShrink ==
    ASSUME TypeInv, RowsOK, UNCHANGED op,
           \A n \in Numbers : /\ row'[n].here = row[n].here /\ row'[n].gen = row[n].gen
                              /\ row'[n].active = row[n].active,
           queue' \subseteq queue, \A r \in Requests : send'[r] \subseteq send[r],
           \A p \in Procs :
              \/ pc'[p] = pc[p] /\ num'[p] = num[p] /\ gen'[p] = gen[p]
              \/ /\ pc'[p] \notin Sync
                 /\ \A n \in Numbers : pc'[p] \in Working /\ num'[p] = n =>
                       Awaited(n) /\ row[n].here /\ row[n].gen = gen'[p]
    PROVE  RowsOK'
<1>1. \A n, g : n \in Numbers => Exists(n, g)' = Exists(n, g)
  BY DEF Exists
<1>2. QueuedRowSurvives'
  BY <1>1 DEF RowsOK, QueuedRowSurvives, TypeInv, TypeOK, Job
<1>3. \A r \in Requests : \A id \in send'[r] : Exists(id[1], id[2])'
  <2> SUFFICES ASSUME NEW r \in Requests, NEW id \in send'[r]
               PROVE  Exists(id[1], id[2])'
    OBVIOUS
  <2>1. id \in send[r] /\ id[1] \in Numbers
    BY DEF TypeInv, TypeOK, RowId
  <2> QED
    BY <1>1, <2>1 DEF RowsOK
<1>4. \A p \in Procs, n \in Numbers :
        pc'[p] \in Working /\ num'[p] = n => row'[n].here /\ row'[n].gen = gen'[p]
  BY DEF RowsOK, Exists
<1>5. \A n \in Numbers : Awaited(n)' => Awaited(n)
  BY DEF Awaited
<1>6. \A r \in Requests, n \in Numbers : num'[r] = n =>
          /\ Relies(r)' => row'[n].here /\ row'[n].gen = gen'[r]
          /\ pc'[r] \in {"create", "insert"} => ~row'[n].here
          /\ pc'[r] = "undo" => row'[n].active /\ ~Awaited(n)'
  BY <1>5, InProcs DEF RowsOK, Relies, Sync, Exists
<1> QED
  BY <1>2, <1>3, <1>4, <1>6 DEF RowsOK, Exists

LEMMA RowsClient ==
    ASSUME TypeInv, OneServer, RowsOK, NEW r \in Requests, ClientCalls(r)
    PROVE  RowsOK'
<1>1. ASSUME NEW n \in Numbers, Track(r, n) \/ GetOrRefresh(r, n) \/ RequestRefresh(r, n)
      PROVE  RowsOK'
  <2>1. PICK o \in Asking, c \in {"create", "deduct", "done"} :
          /\ pc'[r] = c
          /\ c # "done" => num'[r] = n /\ gen'[r] = row[n].gen
          /\ c = "create" => ~row[n].here
          /\ c = "deduct" => row[n].here
          /\ c = "done" => num'[r] = NoNumber
          /\ RequestMoves(r) /\ UNCHANGED <<send, queue, row>>
    BY <1>1, AskFacts
  <2>2. \A m \in Numbers : num'[r] = m =>
              /\ Relies(r)' \/ pc'[r] \in Working => row'[m].here /\ row'[m].gen = gen'[r]
              /\ pc'[r] \in {"create", "insert"} => ~row'[m].here
              /\ pc'[r] # "undo"
    BY <2>1 DEF Relies, Working
  <2>3. \A m \in Numbers : ~row'[m].here => row'[m].active
    BY <2>1 DEF RowsOK
  <2> QED
    BY <2>1, <2>2, <2>3, RowsOne
<1>2. ASSUME NEW n \in Numbers, StopTracking(r, n)
      PROVE  RowsOK'
  <2>1. /\ pc'[r] = "done" /\ RequestMoves(r) /\ UNCHANGED <<send, queue>>
        /\ \A m \in Numbers :
              /\ row'[m].here = row[m].here /\ row'[m].gen = row[m].gen
              /\ row'[m].active = row[m].active \/ (row[m].here /\ ~row'[m].active)
    BY <1>2, StopFacts
  <2>2. \A m \in Numbers : ~row'[m].here => row'[m].active
    BY <2>1 DEF RowsOK
  <2>3. pc'[r] \notin {"create", "insert", "undo"} /\ ~Relies(r)' /\ pc'[r] \notin Working
    BY <2>1 DEF Relies, Working
  <2> QED
    BY <2>1, <2>2, <2>3, RowsOne
<1>3. ASSUME NEW S \in SUBSET Numbers, QueueBulk(r, S)
      PROVE  RowsOK'
  <2>1. pc'[r] = "next" /\ RequestMoves(r) /\ UNCHANGED <<send, queue, row>>
    BY <1>3, QueueBulkFacts
  <2>2. \A m \in Numbers : ~row'[m].here => row'[m].active
    BY <2>1 DEF RowsOK
  <2>3. pc'[r] \notin {"create", "insert", "undo"} /\ ~Relies(r)' /\ pc'[r] \notin Working
    BY <2>1 DEF Relies, Working
  <2> QED
    BY <2>1, <2>2, <2>3, RowsOne
<1> QED
  BY <1>1, <1>2, <1>3 DEF ClientCalls

\* The number a request works on, at the steps that work on one.
LEMMA OnNumber ==
    ASSUME TypeInv, NEW r \in Requests,
           \/ CreateAndDeduct(r) \/ Deduct(r) \/ DeleteUncharged(r) \/ RecordEvent(r)
           \/ MarkInProgress(r) \/ MarkQueued(r)
           \/ BulkLook(r) \/ BulkInsert(r) \/ BulkQueue(r)
    PROVE  \E n \in Numbers : num[r] = n
<1>1. pc[r] \in {"create", "deduct", "undo", "record", "mark", "look", "insert", "queue"}
  BY DEF CreateAndDeduct, Deduct, DeleteUncharged, RecordEvent, MarkInProgress, MarkQueued,
    BulkLook, BulkInsert, BulkQueue
<1> QED
  BY <1>1 DEF TypeInv, PlaceOK

LEMMA RowsRequest ==
    ASSUME TypeInv, OneServer, OpOK, RowsOK, NEW r \in Requests, RequestStep(r)
    PROVE  RowsOK'
<1> DEFINE Here(q, n) == row'[n].here /\ row'[n].gen = gen'[q]
           Own(q) == \A m \in Numbers : num'[q] = m =>
                        /\ Relies(q)' \/ pc'[q] \in Working => Here(q, m)
                        /\ pc'[q] \in {"create", "insert"} => ~row'[m].here
                        /\ pc'[q] = "undo" => row'[m].active /\ ~Awaited(m)'
<1>1. CASE CreateAndDeduct(r)
  <2>1. PICK n \in Numbers : num[r] = n
    BY <1>1, OnNumber
  <2>2. /\ ~row[n].here /\ Inserted(n)
        /\ num'[r] = n /\ gen'[r] = row[n].gen + 1
        /\ RequestMoves(r) /\ UNCHANGED <<send, queue>>
        /\ pc'[r] \in {"record", "undo"}
    BY <1>1, <2>1, CreateFacts
  <2>3. \A q \in Procs : pc'[q] \in Working => pc[q] \in Working /\ num'[q] = num[q]
    BY <2>2 DEF RequestMoves, Working
  <2>4. ~Awaited(n)
    BY <2>2 DEF Awaited, RowsOK, QueuedRowSurvives, Exists
  <2>5. ~Awaited(n)'
    BY <2>2, <2>3, <2>4 DEF Awaited
  <2>6. Own(r)
    BY <2>2, <2>5 DEF Inserted, Working
  <2> QED
    BY <2>2, <2>6, RowsOne DEF Inserted, RowsOK
<1>2. CASE Deduct(r)
  <2>1. PICK n \in Numbers : num[r] = n
    BY <1>2, OnNumber
  <2>2. /\ pc[r] = "deduct" /\ RequestMoves(r) /\ UNCHANGED <<op, send, queue, row>>
        /\ \/ pc'[r] = "record" /\ num'[r] = n /\ gen'[r] = gen[r]
           \/ pc'[r] \in {"next", "done"}
    BY <1>2, <2>1, DeductFacts
  <2>3. pc'[r] = "record" /\ op'[r] # "bulk" => Exists(n, gen[r])
    BY <2>1, <2>2 DEF RowsOK, Relies
  <2>4. Own(r)
    BY <2>2, <2>3 DEF Relies, Working, Exists
  <2> QED
    BY <2>2, <2>4, RowsOne DEF RowsOK
<1>3. CASE DeleteUncharged(r)
  <2>1. PICK n \in Numbers : num[r] = n
    BY <1>3, OnNumber
  <2>2. /\ pc[r] = "undo" /\ pc'[r] = "done" /\ RequestMoves(r) /\ UNCHANGED <<send, queue>>
        /\ ~row'[n].here /\ row'[n].active
        /\ \A m \in Numbers \ {n} : row'[m] = row[m]
    BY <1>3, <2>1, DeleteFacts
  <2>3. ~Awaited(n)
    BY <2>1, <2>2 DEF RowsOK
  <2>4. Own(r)
    BY <2>2 DEF Relies, Working
  <2> QED
    BY <2>2, <2>3, <2>4, RowsOne DEF RowsOK
<1>4. CASE RecordEvent(r)
  <2>1. PICK n \in Numbers : num[r] = n
    BY <1>4, OnNumber
  <2>2. /\ pc[r] = "record" /\ RequestMoves(r) /\ UNCHANGED <<op, send, queue, row>>
        /\ num'[r] = n /\ gen'[r] = gen[r]
        /\ \/ pc'[r] \in {"mark", "queue"} /\ op[r] # "bulk"
           \/ pc'[r] = "look"
    BY <1>4, <2>1, RecordFacts
  <2>3. op[r] # "bulk" => Exists(n, gen[r])
    BY <2>1, <2>2 DEF RowsOK, Relies
  <2>4. Own(r)
    BY <2>2, <2>3 DEF Relies, Working, Exists
  <2> QED
    BY <2>2, <2>4, RowsOne DEF RowsOK
<1>5. CASE MarkInProgress(r)
  <2>1. PICK n \in Numbers : num[r] = n
    BY <1>5, OnNumber
  <2>2. /\ pc'[r] = "scrape" /\ num'[r] = n /\ gen'[r] = gen[r]
        /\ row[n].here /\ row[n].gen = gen[r]
        /\ RequestMoves(r) /\ UNCHANGED <<send, queue>>
        /\ Write(n, "in_progress", row[n].msg)
    BY <1>5, <2>1, MarkInProgressFacts
  <2>3. \A m \in Numbers : /\ row'[m].here = row[m].here /\ row'[m].gen = row[m].gen
                           /\ row'[m].active = row[m].active
    BY <2>2, WriteFacts
  <2>4. Own(r)
    BY <2>2, <2>3
  <2> QED
    BY <2>2, <2>3, <2>4, RowsOne DEF RowsOK
<1>6. CASE MarkQueued(r) \/ BulkQueue(r)
  <2>1. PICK n \in Numbers : num[r] = n
    BY <1>6, OnNumber
  <2>2. /\ pc'[r] \in {"enqueue", "next"}
        /\ row[n].here /\ row[n].gen = gen[r]
        /\ RequestMoves(r) /\ UNCHANGED queue
        /\ send'[r] \subseteq send[r] \cup {<<n, gen[r]>>}
        /\ row' = row \/ \E status, msg : Write(n, status, msg)
    BY <1>6, <2>1, MarkQueuedFacts, BulkQueueFacts
  <2>3. \A m \in Numbers : /\ row'[m].here = row[m].here /\ row'[m].gen = row[m].gen
                           /\ row'[m].active = row[m].active
    BY <2>2, WriteFacts
  <2>4. Own(r)
    BY <2>2 DEF Relies, Working
  <2> QED
    BY <2>2, <2>3, <2>4, RowsOne DEF RowsOK
<1>7. CASE BulkNext(r)
  <2>1. /\ RequestMoves(r) /\ UNCHANGED <<op, send, queue, row>>
        /\ pc'[r] \in {"deduct", "done", "enqueue"} /\ op[r] = "bulk"
    BY <1>7, BulkNextFacts DEF OpOK
  <2>2. Own(r)
    BY <2>1 DEF Relies, Working
  <2> QED
    BY <2>1, <2>2, RowsOne DEF RowsOK
<1>8. CASE BulkLook(r)
  <2>1. PICK n \in Numbers : num[r] = n
    BY <1>8, OnNumber
  <2>2. /\ num'[r] = n /\ gen'[r] = row[n].gen
        /\ pc'[r] = IF row[n].here THEN "queue" ELSE "insert"
        /\ RequestMoves(r) /\ UNCHANGED <<send, queue, row>>
    BY <1>8, <2>1, BulkLookFacts
  <2>3. Own(r)
    BY <2>2 DEF Relies, Working
  <2> QED
    BY <2>2, <2>3, RowsOne DEF RowsOK
<1>9. CASE BulkInsert(r)
  <2>1. PICK n \in Numbers : num[r] = n
    BY <1>9, OnNumber
  <2>2. /\ pc'[r] = "next" /\ ~row[n].here /\ Inserted(n)
        /\ send'[r] = send[r] \cup {<<n, row[n].gen + 1>>}
        /\ RequestMoves(r) /\ UNCHANGED queue
    BY <1>9, <2>1, BulkInsertFacts
  <2>3. Own(r)
    BY <2>2 DEF Relies, Working
  <2> QED
    BY <2>2, <2>3, RowsOne DEF RowsOK, Inserted
<1>10. CASE EnqueueScrape(r)
  <2>1. /\ RequestMoves(r) /\ UNCHANGED row
        /\ pc'[r] \in {"done", "enqueue"}
        /\ \E id \in send[r] :
                 /\ Exists(id[1], id[2])
                 /\ send'[r] = send[r] \ {id}
                 /\ \/ queue' = queue \cup {[num |-> id[1], gen |-> id[2], by |-> r]}
                    \/ queue' = queue
    BY <1>10, EnqueueFacts
  <2>2. Own(r)
    BY <2>1 DEF Relies, Working
  <2>3. \A j \in queue' : j \in queue \/ (row'[j.num].here /\ row'[j.num].gen = j.gen)
    BY <2>1 DEF Exists
  <2>4. \A id \in send'[r] : id \in send[r]
    BY <2>1
  <2> QED
    BY <2>1, <2>2, <2>3, <2>4, RowsOne DEF RowsOK
<1> QED
  BY <1>1, <1>2, <1>3, <1>4, <1>5, <1>6, <1>7, <1>8, <1>9, <1>10 DEF RequestStep

LEMMA RowsNext ==
    ASSUME TypeInv, OneServer, OpOK, RowsOK, [Next]_vars
    PROVE  RowsOK'
<1>1. CASE \E r \in Requests : ClientCalls(r) \/ RequestStep(r)
  BY <1>1, RowsClient, RowsRequest
<1>2. ASSUME NEW p \in Procs, ScrapeEnds(p)
      PROVE  RowsOK'
  <2>1. PICK n \in Numbers : num[p] = n
    BY <1>2 DEF ScrapeEnds, ProviderMiss, ProviderHit, ProviderHitNotify, Notified,
      ScrapeRaises, TypeInv, PlaceOK, Procs
  <2>2. /\ pc[p] \in Working /\ OnlyMoves(p) /\ UNCHANGED queue
        /\ \/ pc'[p] = "notify" /\ num'[p] = n /\ gen'[p] = gen[p]
           \/ pc'[p] \in {"idle", "done"}
        /\ row' = row \/ Settles(p, n)
    BY <1>2, <2>1, EndsFacts
  <2>3. \A m \in Numbers : /\ row'[m].here = row[m].here /\ row'[m].gen = row[m].gen
                           /\ row'[m].active = row[m].active
    BY <2>2 DEF Settles
  <2>4. /\ pc'[p] \notin Sync
        /\ pc'[p] \in Working => num'[p] = n /\ gen'[p] = gen[p]
    BY <2>2 DEF Working, Sync
  <2>5. Awaited(n) /\ row[n].here /\ row[n].gen = gen[p]
    BY <2>1, <2>2 DEF Awaited, RowsOK, Exists
  <2> QED
    BY <2>2, <2>3, <2>4, <2>5, RowsShrink DEF OnlyMoves
<1>3. ASSUME NEW s \in Slots, StartJob(s)
      PROVE  RowsOK'
  <2>1. /\ OnlyMoves(s)
        /\ \E j \in queue :
              /\ queue' = queue \ {j}
              /\ Takes(s, j) \/ UNCHANGED <<row, pc, num, gen>>
    BY <1>3, StartJobFacts
  <2>2. PICK j \in queue : /\ queue' = queue \ {j}
                           /\ Takes(s, j) \/ UNCHANGED <<row, pc, num, gen>>
    BY <2>1
  <2>3. j.num \in Numbers
    BY DEF TypeInv, TypeOK, Job
  <2>4. \A m \in Numbers : /\ row'[m].here = row[m].here /\ row'[m].gen = row[m].gen
                           /\ row'[m].active = row[m].active
    BY <2>2, <2>3, WriteFacts DEF Takes
  <2>5. Awaited(j.num)
    BY DEF Awaited
  <2> QED
    BY <2>1, <2>2, <2>3, <2>4, <2>5, RowsShrink, InProcs DEF OnlyMoves, Takes, Sync
<1>4. CASE NobodyMoved
  BY <1>4, RowsShrink DEF NobodyMoved
<1>5. CASE CrashWorker \/ (\E h \in Servers : CrashApi(h))
  <2>1. /\ UNCHANGED <<row, op, queue>>
        /\ \A p \in Procs : \/ pc'[p] = pc[p] /\ num'[p] = num[p] /\ gen'[p] = gen[p]
                            \/ pc'[p] \in {"idle", "dead", "lost"}
        /\ \A r \in Requests : send'[r] \subseteq send[r]
    BY <1>5, CrashFacts
  <2>2. \A p \in Procs : pc'[p] \in {"idle", "dead", "lost"} =>
           pc'[p] \notin Sync /\ pc'[p] \notin Working
    BY DEF Sync, Working
  <2> QED
    BY <2>1, <2>2, RowsShrink
<1>6. CASE UNCHANGED vars
  BY <1>6, RowsShrink DEF vars
<1> QED
  BY <1>1, <1>2, <1>3, <1>4, <1>5, <1>6, SweepReadFacts, SweepWriteFacts, TickFacts, ElseFacts
  DEF Next, Environment

LEMMA OpRowsInit == Init => OpOK /\ RowsOK
<1> SUFFICES ASSUME Init PROVE OpOK /\ RowsOK
  OBVIOUS
<1>1. \A p \in Procs : pc[p] = "idle"
  BY DEF Init
<1>2. \A r \in Requests : pc[r] = "idle" /\ send[r] = {}
  BY <1>1, InProcs DEF Init
<1>3. \A n \in Numbers : row[n].active
  BY DEF Init, NoRow
<1>4. OpOK
  BY <1>2 DEF OpOK, Sync
<1>5. RowsOK
  BY <1>1, <1>2, <1>3 DEF Init, RowsOK, QueuedRowSurvives, Relies, Working
<1> QED
  BY <1>4, <1>5

-----------------------------------------------------------------------------
(* Queued rows survive. *)

RowsInv == TypeInv /\ OpOK /\ RowsOK

LEMMA RowsInvariant == OneServer => (Spec => []RowsInv)
<1>1. Init => RowsInv
  BY TypeInvInit, OpRowsInit DEF RowsInv
<1>2. ASSUME OneServer
      PROVE  RowsInv /\ [Next]_vars => RowsInv'
  BY <1>2, TypeInvNext, OpNext, RowsNext DEF RowsInv
<1>3. CASE OneServer
  <2>1. RowsInv /\ [Next]_vars => RowsInv'
    BY <1>2, <1>3
  <2> QED
    BY <1>1, <2>1, PTL DEF Spec
<1> QED
  BY <1>3

\* A job that waits in Redis finds the row it was paid for: while one process
\* serves the API, track's cleanup of an unpaid row (db.delete in the except
\* branch of ContainerService.track) never takes a row that another request
\* has queued, that a scrape is working on or that a handler relies on.
THEOREM QueuedRowsSurvive == OneServer => (Spec => []QueuedRowSurvives)
<1>1. RowsInv => QueuedRowSurvives
  BY DEF RowsInv, RowsOK
<1> QED
  BY <1>1, RowsInvariant, PTL

-----------------------------------------------------------------------------
(* No charge is lost while Redis answers. *)

\* What a step of request r must do with the charges it holds.
LEMMA PlacedOne ==
    ASSUME TypeInv, Placed, NEW r \in Requests, RequestMoves(r),
           queue \subseteq queue',
           \A n \in Numbers : ~row[n].active => ~row'[n].active,
           \A t \in Tokens : scraped[t] > 0 => scraped'[t] > 0,
           \A q \in Requests \ {r}, n \in Numbers : <<q, n>> \in paid' => <<q, n>> \in paid,
           pc[r] \notin {"dead", "lost"},
           \A n \in Numbers : <<r, n>> \in paid' => <<r, n>> \in paid \/ InHand(r, n)',
           \A n \in Numbers : InHand(r, n) =>
              InHand(r, n)' \/ ToSend(r, n)' \/ scraped'[<<r, n>>] > 0,
           \A n \in Numbers : ToSend(r, n) => ToSend(r, n)' \/ Queued(r, n)'
    PROVE  Placed'
<1>1. ASSUME NEW q \in Requests, NEW n \in Numbers, <<q, n>> \in paid'
      PROVE  PlacedAt(q, n)'
  <2>1. Queued(q, n) => Queued(q, n)'
    BY DEF Queued
  <2>2. <<q, n>> \in Tokens
    BY DEF Tokens
  <2>3. CASE q = r
    BY <1>1, <2>1, <2>2, <2>3 DEF Placed, PlacedAt
  <2>4. CASE q # r
    <3>1. /\ InHand(q, n) => InHand(q, n)'
          /\ ToSend(q, n) => ToSend(q, n)'
          /\ pc'[q] = pc[q]
      BY <2>4, InProcs DEF RequestMoves, InHand, ToSend
    <3> QED
      BY <1>1, <2>1, <2>2, <2>4, <3>1 DEF Placed, PlacedAt
  <2> QED
    BY <2>3, <2>4
<1> QED
  BY <1>1 DEF Placed

\* A charge that is spent stays spent.
LEMMA StaysSpent ==
    ASSUME TypeInv, NEW u \in Tokens, scraped' = [scraped EXCEPT ![u] = @ + 1]
    PROVE  scraped'[u] > 0 /\ \A t \in Tokens : scraped'[t] >= scraped[t]
  BY DEF TypeInv, TypeOK

LEMMA PlacedClient ==
    ASSUME TypeInv, OneServer, Placed, NEW r \in Requests, ClientCalls(r)
    PROVE  Placed'
<1>1. ASSUME NEW n \in Numbers, Track(r, n) \/ GetOrRefresh(r, n) \/ RequestRefresh(r, n)
      PROVE  Placed'
  <2>1. /\ pc[r] = "idle" /\ RequestMoves(r)
        /\ UNCHANGED <<send, queue, row, paid, scraped>>
    BY <1>1, AskFacts
  <2>2. \A m \in Numbers : ~InHand(r, m)
    BY <2>1 DEF InHand, Holding
  <2>3. \A m \in Numbers : ToSend(r, m)' = ToSend(r, m)
    BY <2>1 DEF ToSend
  <2> QED
    BY <2>1, <2>2, <2>3, PlacedOne
<1>2. ASSUME NEW n \in Numbers, StopTracking(r, n)
      PROVE  Placed'
  <2>1. /\ pc[r] = "idle" /\ RequestMoves(r)
        /\ UNCHANGED <<send, queue, paid, scraped>>
        /\ \A m \in Numbers : ~row[m].active => ~row'[m].active
    BY <1>2, StopFacts
  <2>2. \A m \in Numbers : ~InHand(r, m)
    BY <2>1 DEF InHand, Holding
  <2>3. \A m \in Numbers : ToSend(r, m)' = ToSend(r, m)
    BY <2>1 DEF ToSend
  <2> QED
    BY <2>1, <2>2, <2>3, PlacedOne
<1>3. ASSUME NEW S \in SUBSET Numbers, QueueBulk(r, S)
      PROVE  Placed'
  <2>1. /\ pc[r] = "idle" /\ RequestMoves(r)
        /\ UNCHANGED <<send, queue, row, paid, scraped>>
    BY <1>3, QueueBulkFacts
  <2>2. \A m \in Numbers : ~InHand(r, m)
    BY <2>1 DEF InHand, Holding
  <2>3. \A m \in Numbers : ToSend(r, m)' = ToSend(r, m)
    BY <2>1 DEF ToSend
  <2> QED
    BY <2>1, <2>2, <2>3, PlacedOne
<1> QED
  BY <1>1, <1>2, <1>3 DEF ClientCalls

LEMMA PlacedRequest ==
    ASSUME TypeInv, OneServer, ~RedisMayFail, OpOK, RowsOK, Placed,
           NEW r \in Requests, RequestStep(r)
    PROVE  Placed'
<1> DEFINE Keeps == /\ \A m \in Numbers : InHand(r, m) =>
                          InHand(r, m)' \/ ToSend(r, m)' \/ scraped'[<<r, m>>] > 0
                    /\ \A m \in Numbers : ToSend(r, m) => ToSend(r, m)' \/ Queued(r, m)'
           Pays == /\ \A q \in Requests \ {r}, m \in Numbers : <<q, m>> \in paid' => <<q, m>> \in paid
                   /\ \A m \in Numbers : <<r, m>> \in paid' => <<r, m>> \in paid \/ InHand(r, m)'
           Rows == \A m \in Numbers : ~row[m].active => ~row'[m].active
<1>1. CASE CreateAndDeduct(r)
  <2>1. PICK n \in Numbers : num[r] = n
    BY <1>1, OnNumber
  <2>2. /\ pc[r] = "create" /\ ~row[n].here /\ Inserted(n)
        /\ num'[r] = n
        /\ RequestMoves(r) /\ UNCHANGED <<send, queue, scraped>>
        /\ paid' = paid \/ (pc'[r] = "record" /\ paid' = paid \cup {<<r, n>>})
    BY <1>1, <2>1, CreateFacts
  <2>3. Keeps /\ Pays
    BY <2>2 DEF InHand, Holding, ToSend
  <2>4. Rows
    BY <2>2 DEF RowsOK, Inserted
  <2> QED
    BY <2>2, <2>3, <2>4, PlacedOne
<1>2. CASE Deduct(r)
  <2>1. PICK n \in Numbers : num[r] = n
    BY <1>2, OnNumber
  <2>2. /\ pc[r] = "deduct" /\ RequestMoves(r) /\ UNCHANGED <<send, queue, row, scraped>>
        /\ paid' = paid \/ (pc'[r] = "record" /\ paid' = paid \cup {<<r, n>>} /\ num'[r] = n)
    BY <1>2, <2>1, DeductFacts
  <2>3. Keeps /\ Pays
    BY <2>2 DEF InHand, Holding, ToSend
  <2> QED
    BY <2>2, <2>3, PlacedOne
<1>3. CASE DeleteUncharged(r)
  <2>1. PICK n \in Numbers : num[r] = n
    BY <1>3, OnNumber
  <2>2. /\ pc[r] = "undo" /\ RequestMoves(r) /\ UNCHANGED <<send, queue, paid, scraped>>
        /\ \A m \in Numbers \ {n} : row'[m] = row[m]
    BY <1>3, <2>1, DeleteFacts
  <2>3. Keeps
    BY <2>2 DEF InHand, Holding, ToSend
  <2>4. Rows
    BY <2>1, <2>2 DEF RowsOK
  <2> QED
    BY <2>2, <2>3, <2>4, PlacedOne
<1>4. CASE RecordEvent(r)
  <2>1. /\ pc[r] = "record" /\ RequestMoves(r) /\ UNCHANGED <<send, queue, row, paid, scraped>>
        /\ num'[r] = num[r] /\ pc'[r] \in {"mark", "queue", "look"}
    BY <1>4, RecordFacts
  <2>2. Keeps
    BY <2>1 DEF InHand, Holding, ToSend
  <2> QED
    BY <2>1, <2>2, PlacedOne
<1>5. CASE MarkInProgress(r)
  <2>1. PICK n \in Numbers : num[r] = n
    BY <1>5, OnNumber
  <2>2. /\ pc[r] = "mark" /\ RequestMoves(r) /\ UNCHANGED <<send, queue, paid>>
        /\ scraped' = [scraped EXCEPT ![<<r, n>>] = @ + 1]
        /\ Write(n, "in_progress", row[n].msg)
    BY <1>5, <2>1, MarkInProgressFacts
  <2>3. scraped'[<<r, n>>] > 0 /\ \A t \in Tokens : scraped'[t] >= scraped[t]
    <3>1. <<r, n>> \in Tokens
      BY DEF Tokens
    <3> QED
      BY <2>2, <3>1, StaysSpent
  <2>4. \A t \in Tokens : scraped[t] > 0 => scraped'[t] > 0
    BY <2>3, <2>2 DEF TypeInv, TypeOK
  <2>5. Keeps
    <3>1. \A m \in Numbers : InHand(r, m) => m = n
      BY <2>1 DEF InHand
    <3>2. \A m \in Numbers : ToSend(r, m)' = ToSend(r, m)
      BY <2>2 DEF ToSend
    <3> QED
      BY <2>3, <3>1, <3>2
  <2>6. Rows
    BY <2>2, WriteFacts
  <2> QED
    BY <2>2, <2>4, <2>5, <2>6, PlacedOne
<1>6. CASE MarkQueued(r) \/ BulkInsert(r) \/ BulkQueue(r)
  <2>1. PICK n \in Numbers : num[r] = n
    BY <1>6, OnNumber
  <2>2. /\ pc[r] \in {"queue", "insert"} /\ RequestMoves(r) /\ UNCHANGED <<queue, paid, scraped>>
        /\ \E g : send'[r] \in {send[r] \cup {<<n, g>>}, {<<n, g>>}}
        /\ send'[r] = send[r] \cup send'[r] \/ op[r] = "refresh"
        /\ row' = row \/ (\E status, msg : Write(n, status, msg)) \/ (Inserted(n) /\ ~row[n].here)
    BY <1>6, <2>1, MarkQueuedFacts, BulkInsertFacts, BulkQueueFacts, ZenonT(40)
  <2>3. op[r] = "refresh" => send[r] = {}
    BY <2>2 DEF OpOK
  <2>4. Keeps
    <3>1. \A m \in Numbers : InHand(r, m) => m = n
      BY <2>1 DEF InHand
    <3>2. PICK g : send'[r] \in {send[r] \cup {<<n, g>>}, {<<n, g>>}}
      BY <2>2
    <3>3. <<n, g>> \in send'[r] /\ <<n, g>>[1] = n
      BY <3>2
    <3>4. ToSend(r, n)'
      BY <3>3 DEF ToSend
    <3>5. \A m \in Numbers : ToSend(r, m) => ToSend(r, m)'
      BY <2>2, <2>3 DEF ToSend
    <3> QED
      BY <3>1, <3>4, <3>5
  <2>5. Rows
    BY <2>2, WriteFacts DEF RowsOK, Inserted
  <2> QED
    BY <2>2, <2>4, <2>5, PlacedOne
<1>7. CASE BulkNext(r)
  <2>1. /\ pc[r] = "next" /\ RequestMoves(r) /\ UNCHANGED <<send, queue, row, paid, scraped>>
    BY <1>7, BulkNextFacts
  <2>2. Keeps
    BY <2>1 DEF InHand, Holding, ToSend
  <2> QED
    BY <2>1, <2>2, PlacedOne
<1>8. CASE BulkLook(r)
  <2>1. PICK n \in Numbers : num[r] = n
    BY <1>8, OnNumber
  <2>2. /\ pc[r] = "look" /\ RequestMoves(r) /\ UNCHANGED <<send, queue, row, paid, scraped>>
        /\ num'[r] = n /\ pc'[r] \in {"queue", "insert"}
    BY <1>8, <2>1, BulkLookFacts
  <2>3. Keeps
    BY <2>1, <2>2 DEF InHand, Holding, ToSend
  <2> QED
    BY <2>2, <2>3, PlacedOne
<1>9. CASE EnqueueScrape(r)
  <2>1. /\ pc[r] = "enqueue" /\ RequestMoves(r) /\ UNCHANGED <<row, paid, scraped>>
        /\ \E id \in send[r] :
              /\ send'[r] = send[r] \ {id}
              /\ queue' = queue \cup {[num |-> id[1], gen |-> id[2], by |-> r]}
    BY <1>9, EnqueueFacts
  <2>2. PICK id \in send[r] : /\ send'[r] = send[r] \ {id}
                              /\ queue' = queue \cup {[num |-> id[1], gen |-> id[2], by |-> r]}
    BY <2>1
  <2>3. Queued(r, id[1])'
    <3> DEFINE j == [num |-> id[1], gen |-> id[2], by |-> r]
    <3>1. j \in queue' /\ j.by = r /\ j.num = id[1]
      BY <2>2
    <3> HIDE DEF j
    <3> QED
      BY <3>1 DEF Queued
  <2>4. ASSUME NEW m \in Numbers, ToSend(r, m)
        PROVE  ToSend(r, m)' \/ Queued(r, m)'
    <3>1. PICK a \in send[r] : a[1] = m
      BY <2>4 DEF ToSend
    <3> QED
      BY <2>2, <2>3, <3>1 DEF ToSend
  <2>5. Keeps
    BY <2>1, <2>4 DEF InHand, Holding
  <2> QED
    BY <2>1, <2>2, <2>5, PlacedOne
<1> QED
  BY <1>1, <1>2, <1>3, <1>4, <1>5, <1>6, <1>7, <1>8, <1>9 DEF RequestStep

LEMMA PlacedNext ==
    ASSUME TypeInv, OneServer, ~RedisMayFail, OpOK, RowsOK, Placed, [Next]_vars
    PROVE  Placed'
<1>1. CASE \E r \in Requests : ClientCalls(r) \/ RequestStep(r)
  BY <1>1, PlacedClient, PlacedRequest
<1>2. ASSUME NEW p \in Procs, ScrapeEnds(p)
      PROVE  Placed'
  <2>1. PICK n \in Numbers : num[p] = n
    BY <1>2 DEF ScrapeEnds, ProviderMiss, ProviderHit, ProviderHitNotify, Notified,
      ScrapeRaises, TypeInv, PlaceOK, Procs
  <2>2. /\ pc[p] \in Working /\ OnlyMoves(p) /\ UNCHANGED <<paid, scraped, queue>>
        /\ row' = row \/ Settles(p, n)
    BY <1>2, <2>1, EndsFacts
  <2>3. \A m \in Numbers : row'[m].active = row[m].active
    BY <2>2 DEF Settles
  <2>4. \A r \in Requests : pc[r] \in Holding \cup {"dead", "lost"} => pc'[r] = pc[r] /\ num'[r] = num[r]
    BY <2>2, InProcs DEF OnlyMoves, Working, Holding
  <2> QED
    BY <2>2, <2>3, <2>4 DEF Placed, PlacedAt, InHand, ToSend, Queued, OnlyMoves
<1>3. ASSUME NEW s \in Slots, StartJob(s)
      PROVE  Placed'
  <2>1. /\ OnlyMoves(s) /\ UNCHANGED paid
        /\ \E j \in queue :
              /\ queue' = queue \ {j}
              /\ Takes(s, j) \/ (UNCHANGED <<row, scraped>> /\ ~row[j.num].active)
    BY <1>3, StartJobFacts
  <2>2. PICK j \in queue :
          /\ queue' = queue \ {j}
          /\ Takes(s, j) \/ (UNCHANGED <<row, scraped>> /\ ~row[j.num].active)
    BY <2>1
  <2>3. j.num \in Numbers /\ <<j.by, j.num>> \in Tokens
    BY DEF TypeInv, TypeOK, Job, Tokens
  <2>4. \A m \in Numbers : row'[m].active = row[m].active
    BY <2>2, <2>3, WriteFacts DEF Takes
  <2>5. \A t \in Tokens : scraped[t] > 0 => scraped'[t] > 0
    <3>1. CASE Takes(s, j)
      <4>1. \A t \in Tokens : scraped'[t] >= scraped[t] /\ scraped[t] \in Nat /\ scraped'[t] \in Nat
        BY <3>1, <2>3, StaysSpent DEF Takes, TypeInv, TypeOK
      <4> QED
        BY <4>1
    <3> QED
      BY <2>2, <3>1
  <2>6. ~row'[j.num].active \/ scraped'[<<j.by, j.num>>] > 0
    BY <2>2, <2>3, StaysSpent DEF Takes
  <2>7. \A r \in Requests : pc'[r] = pc[r] /\ num'[r] = num[r]
    BY <2>1, InProcs, ConstantsAssumption DEF OnlyMoves
  <2>8. ASSUME NEW r \in Requests, NEW n \in Numbers, <<r, n>> \in paid'
        PROVE  PlacedAt(r, n)'
    <3>1. <<r, n>> \in Tokens /\ PlacedAt(r, n)
      BY <2>1, <2>8 DEF Placed, Tokens
    <3>2. InHand(r, n) => InHand(r, n)'
      BY <2>7 DEF InHand
    <3>3. ToSend(r, n) => ToSend(r, n)'
      BY <2>1 DEF ToSend, OnlyMoves
    <3>4. Queued(r, n) => Queued(r, n)' \/ scraped'[<<r, n>>] > 0 \/ ~row'[n].active
      BY <2>2, <2>6 DEF Queued
    <3> QED
      BY <2>4, <2>5, <2>7, <3>1, <3>2, <3>3, <3>4 DEF PlacedAt
  <2> QED
    BY <2>8 DEF Placed
<1>4. CASE NobodyMoved
  BY <1>4 DEF NobodyMoved, Placed, PlacedAt, InHand, ToSend, Queued
<1>5. CASE CrashWorker \/ (\E h \in Servers : CrashApi(h))
  <2>1. /\ UNCHANGED <<row, queue, paid, scraped>>
        /\ \A r \in Requests : \/ pc'[r] = pc[r] /\ num'[r] = num[r]
                               \/ pc'[r] \in {"dead", "lost"}
        /\ \A r \in Requests :
              send'[r] = send[r] \/ (send'[r] = {} /\ pc'[r] \notin Sync \cup Await)
    BY <1>5, CrashFacts, InProcs
  <2>2. ASSUME NEW r \in Requests, NEW n \in Numbers, ToSend(r, n)
        PROVE  ToSend(r, n)' \/ pc'[r] \in {"dead", "lost"}
    <3>1. pc[r] \in Sync \cup Await
      BY <2>2 DEF ToSend, OpOK, Await
    <3> QED
      BY <2>1, <2>2, <3>1 DEF ToSend
  <2> QED
    BY <2>1, <2>2 DEF Placed, PlacedAt, InHand, Queued
<1>6. CASE UNCHANGED vars
  BY <1>6 DEF vars, credits, jobVars, reqVars, Placed, PlacedAt, InHand, ToSend, Queued
<1> QED
  BY <1>1, <1>2, <1>3, <1>4, <1>5, <1>6, SweepReadFacts, SweepWriteFacts, TickFacts, ElseFacts
  DEF Next, Environment

\* A request that has answered has handed every lookup it charged over: while
\* Redis takes the jobs and one process serves the API, the provider was
\* called for it, or its job waits in Redis, or the customer stopped tracking
\* (ContainerService.track, request_refresh and queue_bulk up to
\* _enqueue_scrapes).
THEOREM ChargesAreHandedOver == OneServer /\ ~RedisMayFail => (Spec => []HandedOver)
<1>1. Init => Placed
  BY DEF Init, Placed
<1>2. ASSUME OneServer, ~RedisMayFail
      PROVE  RowsInv /\ Placed /\ [Next]_vars => Placed'
  BY <1>2, PlacedNext DEF RowsInv
<1>3. RowsInv /\ Placed => HandedOver
  <2> SUFFICES ASSUME RowsInv, Placed, NEW t \in paid, pc[t[1]] = "done"
               PROVE  \/ scraped[t] > 0
                      \/ \E j \in queue : JobToken(j) = t
                      \/ ~row[t[2]].active
    BY DEF HandedOver
  <2>1. PICK r \in Requests, n \in Numbers : t = <<r, n>>
    BY DEF RowsInv, TypeInv, TypeOK, Tokens
  <2>2. PlacedAt(r, n) /\ pc[r] = "done"
    BY <2>1 DEF Placed
  <2>3. ~InHand(r, n) /\ ~ToSend(r, n)
    BY <2>2 DEF RowsInv, OpOK, InHand, ToSend, Holding, Sync
  <2>4. Queued(r, n) => \E j \in queue : JobToken(j) = t
    BY <2>1 DEF Queued, JobToken
  <2> QED
    BY <2>1, <2>2, <2>3, <2>4 DEF PlacedAt
<1>4. CASE OneServer /\ ~RedisMayFail
  <2>1. RowsInv /\ Placed /\ [Next]_vars => Placed'
    BY <1>2, <1>4
  <2>2. Spec => []RowsInv
    BY <1>4, RowsInvariant
  <2> QED
    BY <1>1, <1>3, <2>1, <2>2, PTL DEF Spec
<1> QED
  BY <1>4

-----------------------------------------------------------------------------
(* Whoever scrapes spends a charge of its own. *)

\* Process p takes no new scrape.
StaysBusy(p) ==
    pc'[p] \in Working =>
        /\ pc[p] \in Working /\ num'[p] = num[p]
        /\ p \in Slots => by'[p] = by[p]

LEMMA SpentShrinks ==
    ASSUME SpentOK, \A p \in Procs : StaysBusy(p), scraped' = scraped
    PROVE  SpentOK'
<1>1. \A p \in Procs, r \in Requests, n \in Numbers : Spends(p, r, n)' => Spends(p, r, n)
  BY DEF Spends, StaysBusy
<1> QED
  BY <1>1 DEF SpentOK

LEMMA SpentGrows ==
    ASSUME TypeInv, SpentOK, NEW p \in Procs, NEW r \in Requests, NEW n \in Numbers,
           \A q \in Procs \ {p} : StaysBusy(q),
           num'[p] = n, IF p \in Slots THEN by'[p] = r ELSE p = r,
           scraped[<<r, n>>] = 0, scraped' = [scraped EXCEPT ![<<r, n>>] = @ + 1]
    PROVE  SpentOK'
<1>1. \A q \in Procs \ {p}, k \in Requests, m \in Numbers :
        Spends(q, k, m)' => Spends(q, k, m)
  BY DEF Spends, StaysBusy
<1>2. \A k \in Requests, m \in Numbers : Spends(p, k, m)' => k = r /\ m = n
  BY DEF Spends
<1>3. \A q \in Procs : ~Spends(q, r, n)
  BY DEF SpentOK
<1>4. <<r, n>> \in Tokens
  BY DEF Tokens
<1>5. scraped'[<<r, n>>] > 0 /\ \A t \in Tokens : scraped'[t] >= scraped[t]
  BY <1>4, StaysSpent
<1>6. ASSUME NEW q \in Procs, NEW k \in Requests, NEW m \in Numbers, Spends(q, k, m)'
      PROVE  scraped'[<<k, m>>] > 0
  <2>1. CASE q = p
    BY <1>2, <1>5, <1>6, <2>1
  <2>2. CASE q # p
    <3>1. <<k, m>> \in Tokens /\ scraped[<<k, m>>] > 0
      BY <1>1, <1>6, <2>2 DEF SpentOK, Tokens
    <3>2. scraped'[<<k, m>>] >= scraped[<<k, m>>]
      BY <1>5, <3>1
    <3>3. scraped[<<k, m>>] \in Nat /\ scraped'[<<k, m>>] \in Nat
      BY <3>1, <1>4 DEF TypeInv, TypeOK
    <3> QED
      BY <3>1, <3>2, <3>3
  <2> QED
    BY <2>1, <2>2
<1>7. ASSUME NEW a \in Procs, NEW b \in Procs, NEW k \in Requests, NEW m \in Numbers,
             Spends(a, k, m)', Spends(b, k, m)'
      PROVE  a = b
  BY <1>1, <1>2, <1>3, <1>7 DEF SpentOK
<1> QED
  BY <1>6, <1>7 DEF SpentOK

LEMMA SpentRequest ==
    ASSUME ChargeInv, OneServer, OpOK, RowsOK, SpentOK, NEW r \in Requests,
           ClientCalls(r) \/ RequestStep(r)
    PROVE  SpentOK'
<1>t. TypeInv
  BY DEF ChargeInv
<1>s. r \in Procs /\ r \notin Slots
  BY InProcs, ConstantsAssumption
<1>m. RequestMoves(r) => \A q \in Procs \ {r} : StaysBusy(q)
  BY DEF RequestMoves, StaysBusy
<1>1. ASSUME RequestMoves(r), pc'[r] \notin Working, UNCHANGED scraped
      PROVE  SpentOK'
  BY <1>1, <1>m, SpentShrinks DEF StaysBusy
<1>2. ASSUME NEW n \in Numbers, Track(r, n) \/ GetOrRefresh(r, n) \/ RequestRefresh(r, n)
      PROVE  SpentOK'
  BY <1>2, <1>1, <1>t, AskFacts DEF Working
<1>3. ASSUME NEW n \in Numbers, StopTracking(r, n)
      PROVE  SpentOK'
  BY <1>3, <1>1, <1>t, StopFacts DEF Working
<1>4. ASSUME NEW S \in SUBSET Numbers, QueueBulk(r, S)
      PROVE  SpentOK'
  BY <1>4, <1>1, <1>t, QueueBulkFacts DEF Working
<1>5. CASE MarkInProgress(r)
  <2>1. PICK n \in Numbers : num[r] = n
    BY <1>5, <1>t, OnNumber
  <2>2. /\ pc[r] = "mark" /\ num'[r] = n /\ RequestMoves(r)
        /\ scraped' = [scraped EXCEPT ![<<r, n>>] = @ + 1]
    BY <1>5, <1>t, <2>1, MarkInProgressFacts
  <2>3. scraped[<<r, n>>] = 0
    BY <2>1, <2>2 DEF ChargeInv, ChargeInOnePlace, HeldUnspent, InHand, Holding
  <2> QED
    BY <1>t, <1>s, <1>m, <2>2, <2>3, SpentGrows
<1>6. CASE CreateAndDeduct(r) \/ Deduct(r) \/ DeleteUncharged(r)
           \/ MarkQueued(r) \/ BulkLook(r) \/ BulkInsert(r) \/ BulkQueue(r)
  <2>1. PICK n \in Numbers : num[r] = n
    BY <1>6, <1>t, OnNumber
  <2>2. /\ RequestMoves(r) /\ UNCHANGED scraped
        /\ pc'[r] \in {"record", "undo", "next", "done", "enqueue", "queue", "insert"}
    BY <1>6, <1>t, <2>1, CreateFacts, DeductFacts, DeleteFacts, MarkQueuedFacts, BulkLookFacts,
      BulkInsertFacts, BulkQueueFacts
  <2> QED
    BY <1>1, <2>2 DEF Working
<1>7. CASE RecordEvent(r) \/ BulkNext(r) \/ EnqueueScrape(r)
  <2>1. /\ RequestMoves(r) /\ UNCHANGED scraped
        /\ pc'[r] \in {"mark", "queue", "look", "deduct", "done", "enqueue"}
    BY <1>7, <1>t, RecordFacts, BulkNextFacts, EnqueueFacts
  <2> QED
    BY <1>1, <2>1 DEF Working
<1> QED
  BY <1>2, <1>3, <1>4, <1>5, <1>6, <1>7 DEF ClientCalls, RequestStep

LEMMA SpentNext ==
    ASSUME ChargeInv, OneServer, OpOK, RowsOK, SpentOK, [Next]_vars
    PROVE  SpentOK'
<1>t. TypeInv
  BY DEF ChargeInv
<1>1. CASE \E r \in Requests : ClientCalls(r) \/ RequestStep(r)
  BY <1>1, SpentRequest
<1>2. ASSUME NEW p \in Procs, ScrapeEnds(p)
      PROVE  SpentOK'
  <2>1. PICK n \in Numbers : num[p] = n
    BY <1>2, <1>t DEF ScrapeEnds, ProviderMiss, ProviderHit, ProviderHitNotify, Notified,
      ScrapeRaises, TypeInv, PlaceOK, Procs
  <2>2. /\ pc[p] \in Working /\ OnlyMoves(p) /\ UNCHANGED scraped
        /\ \/ num'[p] = num[p] /\ by' = by
           \/ pc'[p] \in {"idle", "done"}
    BY <1>2, <1>t, <2>1, EndsFacts
  <2> QED
    BY <2>2, SpentShrinks DEF StaysBusy, OnlyMoves, Working
<1>3. ASSUME NEW s \in Slots, StartJob(s)
      PROVE  SpentOK'
  <2>1. /\ OnlyMoves(s) /\ pc[s] = "idle"
        /\ \E j \in queue : Takes(s, j) \/ UNCHANGED <<scraped, pc, num, by>>
    BY <1>3, <1>t, StartJobFacts
  <2>2. CASE UNCHANGED <<scraped, pc, num, by>>
    BY <2>2, SpentShrinks DEF StaysBusy
  <2>3. ASSUME NEW j \in queue, Takes(s, j)
        PROVE  SpentOK'
    <3>1. PICK n \in Numbers, r \in Requests : n = j.num /\ r = j.by
      BY <1>t DEF TypeInv, TypeOK, Job
    <3>2. scraped[<<r, n>>] = 0
      BY <3>1 DEF ChargeInv, ChargeInOnePlace, HeldUnspent, Queued
    <3>3. /\ num'[s] = n /\ by'[s] = r
          /\ scraped' = [scraped EXCEPT ![<<r, n>>] = @ + 1]
      BY <2>3, <3>1 DEF Takes
    <3>4. \A q \in Procs \ {s} : StaysBusy(q)
      BY <2>1 DEF OnlyMoves, StaysBusy
    <3> QED
      BY <1>t, <3>2, <3>3, <3>4, InProcs, SpentGrows
  <2> QED
    BY <2>1, <2>2, <2>3
<1>4. CASE NobodyMoved
  BY <1>4, SpentShrinks DEF NobodyMoved, StaysBusy
<1>5. CASE CrashWorker \/ (\E h \in Servers : CrashApi(h))
  <2>1. /\ UNCHANGED scraped
        /\ \A p \in Procs : \/ pc'[p] = pc[p] /\ num'[p] = num[p]
                            \/ pc'[p] \in {"idle", "dead", "lost"}
        /\ \A s \in Slots : pc'[s] # "idle" => by'[s] = by[s]
    BY <1>5, <1>t, CrashFacts
  <2> QED
    BY <2>1, SpentShrinks DEF StaysBusy, Working
<1>6. CASE UNCHANGED vars
  BY <1>6, SpentShrinks DEF vars, jobVars, StaysBusy
<1> QED
  BY <1>t, <1>1, <1>2, <1>3, <1>4, <1>5, <1>6, SweepReadFacts, SweepWriteFacts, TickFacts, ElseFacts
  DEF Next, Environment

-----------------------------------------------------------------------------
(* Live scrapes are announced by their row, or disowned. *)

LEMMA AwayIsLive ==
    ASSUME NEW r \in Requests, NEW n \in Numbers, Away(r, n)
    PROVE  <<r, n>> \in LiveTokens(n)
<1>1. CASE ToSend(r, n)
  BY <1>1 DEF ToSend, LiveTokens
<1>2. CASE Queued(r, n)
  BY <1>2 DEF Queued, LiveTokens, JobToken
<1>3. CASE Scraping(r, n)
  BY <1>3 DEF Scraping, LiveTokens
<1> QED
  BY <1>1, <1>2, <1>3 DEF Away

\* While nobody stands between a charge and its hand-over, the live scrapes
\* are those under way.
LEMMA LiveIsAway ==
    ASSUME TypeInv, NEW n \in Numbers, NEW t \in LiveTokens(n),
           \A r \in Requests : num[r] = n =>
              pc[r] \notin {"record", "mark", "look", "insert", "queue"}
    PROVE  \E r \in Requests : t = <<r, n>> /\ Away(r, n)
<1>1. CASE \E j \in queue : j.num = n /\ t = JobToken(j)
  BY <1>1 DEF JobToken, Away, Queued, TypeInv, TypeOK, Job
<1>2. CASE \E s \in Slots : pc[s] = "scrape" /\ num[s] = n /\ t = <<by[s], n>>
  BY <1>2 DEF Away, Scraping, TypeInv, PlaceOK
<1>3. CASE \E r \in Requests :
             /\ t = <<r, n>>
             /\ \/ num[r] = n /\ pc[r] = "scrape"
                \/ \E id \in send[r] : id[1] = n
  BY <1>3 DEF Away, Scraping, ToSend
<1> QED
  BY <1>1, <1>2, <1>3 DEF LiveTokens

\* Which charges a step of request r sends away.
LEMMA AwayOne ==
    ASSUME TypeInv, NEW r \in Requests, RequestMoves(r), queue' \subseteq queue,
           NEW q \in Requests, NEW n \in Numbers, Away(q, n)'
    PROVE  \/ Away(q, n)
           \/ q = r /\ pc'[r] = "scrape" /\ num'[r] = n
           \/ q = r /\ \E id \in send'[r] : id \notin send[r] /\ id[1] = n
<1>1. \A s \in Slots : pc'[s] = pc[s] /\ num'[s] = num[s] /\ by'[s] = by[s]
  BY InProcs, ConstantsAssumption DEF RequestMoves
<1>2. q # r => pc'[q] = pc[q] /\ num'[q] = num[q] /\ send'[q] = send[q]
  BY InProcs DEF RequestMoves
<1>3. CASE Queued(q, n)'
  BY <1>3 DEF Queued, Away
<1>4. CASE ToSend(q, n)'
  BY <1>2, <1>4 DEF ToSend, Away
<1>5. CASE Scraping(q, n)'
  BY <1>1, <1>2, <1>5 DEF Scraping, Away
<1> QED
  BY <1>3, <1>4, <1>5 DEF Away

\* What a step of request r must see to.
LEMMA FlightOne ==
    ASSUME TypeInv, FlightOK, NEW r \in Requests, RequestMoves(r),
           disowned \subseteq disowned',
           \A q \in Requests, n \in Numbers : Away(q, n)' =>
              Away(q, n) \/ (q = r /\ (Pending(n)' \/ <<q, n>> \in disowned')),
           \A n \in Numbers : Pending(n) =>
              Pending(n)' \/ \A q \in Requests : ~Away(q, n)',
           \A n \in Numbers : pc'[r] = "deduct" /\ op'[r] # "bulk" /\ num'[r] = n =>
              \A q \in Requests : Away(q, n)' => <<q, n>> \in disowned',
           \A n \in Numbers : pc'[r] = "queue" /\ op'[r] = "bulk" /\ num'[r] = n
              /\ snap'[r].status = "queued" => Pending(n)' \/ <<r, n>> \in disowned'
    PROVE  FlightOK'
<1>1. \A q \in Requests \ {r} : pc'[q] \notin {"deduct", "queue"}
  BY InProcs DEF RequestMoves, Sync
<1>2. ASSUME NEW q \in Requests, NEW n \in Numbers, Away(q, n)', ~Pending(n)'
      PROVE  <<q, n>> \in disowned'
  BY <1>2 DEF FlightOK
<1> QED
  BY <1>1, <1>2 DEF FlightOK

LEMMA FlightClient ==
    ASSUME TypeInv, OneServer, OpOK, RowsOK, FlightOK, NEW r \in Requests, ClientCalls(r)
    PROVE  FlightOK'
<1>1. ASSUME NEW n \in Numbers, Track(r, n) \/ GetOrRefresh(r, n) \/ RequestRefresh(r, n)
      PROVE  FlightOK'
  <2>1. PICK o \in Asking, c \in {"create", "deduct", "done"} :
          /\ pc[r] = "idle" /\ pc'[r] = c
          /\ c # "done" => num'[r] = n
          /\ c = "deduct" /\ Pending(n) => LiveTokens(n) \subseteq disowned'
          /\ RequestMoves(r) /\ disowned \subseteq disowned'
          /\ UNCHANGED <<send, queue, row>>
    BY <1>1, AskFacts
  <2>2. \A q \in Requests, m \in Numbers : Away(q, m)' => Away(q, m)
    BY <2>1, AwayOne
  <2>3. \A m \in Numbers : Pending(m)' = Pending(m)
    BY <2>1 DEF Pending
  <2>4. ASSUME NEW q \in Requests, c = "deduct", Away(q, n)'
        PROVE  <<q, n>> \in disowned'
    BY <2>1, <2>2, <2>4, AwayIsLive DEF FlightOK
  <2>5. \A m \in Numbers : pc'[r] = "deduct" /\ op'[r] # "bulk" /\ num'[r] = m =>
           \A q \in Requests : Away(q, m)' => <<q, m>> \in disowned'
    BY <2>1, <2>4
  <2>6. pc'[r] # "queue"
    BY <2>1
  <2> QED
    BY <2>1, <2>2, <2>3, <2>5, <2>6, FlightOne
<1>2. ASSUME NEW n \in Numbers, StopTracking(r, n)
      PROVE  FlightOK'
  <2>1. /\ pc'[r] = "done" /\ RequestMoves(r) /\ UNCHANGED <<send, queue, disowned>>
        /\ \A m \in Numbers : row'[m].here = row[m].here /\ row'[m].status = row[m].status
    BY <1>2, StopFacts
  <2>2. \A q \in Requests, m \in Numbers : Away(q, m)' => Away(q, m)
    BY <2>1, AwayOne
  <2>3. \A m \in Numbers : Pending(m)' = Pending(m)
    BY <2>1 DEF Pending
  <2> QED
    BY <2>1, <2>2, <2>3, FlightOne
<1>3. ASSUME NEW S \in SUBSET Numbers, QueueBulk(r, S)
      PROVE  FlightOK'
  <2>1. pc'[r] = "next" /\ RequestMoves(r) /\ UNCHANGED <<send, queue, row, disowned>>
    BY <1>3, QueueBulkFacts
  <2>2. \A q \in Requests, m \in Numbers : Away(q, m)' => Away(q, m)
    BY <2>1, AwayOne
  <2>3. \A m \in Numbers : Pending(m)' = Pending(m)
    BY <2>1 DEF Pending
  <2> QED
    BY <2>1, <2>2, <2>3, FlightOne
<1> QED
  BY <1>1, <1>2, <1>3 DEF ClientCalls

LEMMA FlightRequest ==
    ASSUME TypeInv, OneServer, OpOK, RowsOK, FlightOK, NEW r \in Requests, RequestStep(r)
    PROVE  FlightOK'
<1> DEFINE SendsNone == \A q \in Requests, m \in Numbers : Away(q, m)' => Away(q, m)
           SendsIts(n) == \A q \in Requests, m \in Numbers : Away(q, m)' =>
                             Away(q, m) \/ (q = r /\ m = n)
           Rows == \A m \in Numbers : Pending(m) => Pending(m)'
<1>1. ASSUME RequestMoves(r), disowned' = disowned, SendsNone, Rows,
             pc'[r] = "deduct" => op'[r] = "bulk", pc'[r] = "queue" => op'[r] # "bulk"
      PROVE  FlightOK'
  BY <1>1, FlightOne
<1>2. ASSUME NEW n \in Numbers, RequestMoves(r), disowned' = disowned, SendsIts(n), Rows,
             pc'[r] \notin {"deduct", "queue"},
             Pending(n)' \/ <<r, n>> \in disowned'
      PROVE  FlightOK'
  BY <1>2, FlightOne
<1>3. CASE CreateAndDeduct(r)
  <2>1. PICK n \in Numbers : num[r] = n
    BY <1>3, OnNumber
  <2>2. /\ ~row[n].here /\ Inserted(n)
        /\ RequestMoves(r) /\ UNCHANGED <<send, queue, disowned>>
        /\ pc'[r] \in {"record", "undo"}
    BY <1>3, <2>1, CreateFacts
  <2>3. SendsNone
    BY <2>2, AwayOne
  <2>4. Rows
    BY <2>2 DEF Inserted, Pending
  <2> QED
    BY <1>1, <2>2, <2>3, <2>4
<1>4. CASE Deduct(r)
  <2>1. PICK n \in Numbers : num[r] = n
    BY <1>4, OnNumber
  <2>2. /\ RequestMoves(r) /\ UNCHANGED <<send, queue, row, disowned>>
        /\ pc'[r] \in {"record", "next", "done"}
    BY <1>4, <2>1, DeductFacts
  <2>3. SendsNone
    BY <2>2, AwayOne
  <2>4. Rows
    BY <2>2 DEF Pending
  <2> QED
    BY <1>1, <2>2, <2>3, <2>4
<1>5. CASE DeleteUncharged(r)
  <2>1. PICK n \in Numbers : num[r] = n
    BY <1>5, OnNumber
  <2>2. /\ pc[r] = "undo" /\ pc'[r] = "done" /\ RequestMoves(r) /\ UNCHANGED <<send, queue, disowned>>
        /\ \A m \in Numbers \ {n} : row'[m] = row[m]
    BY <1>5, <2>1, DeleteFacts
  <2>3. SendsNone
    BY <2>2, AwayOne
  <2>4. ~Awaited(n)
    BY <2>1, <2>2 DEF RowsOK
  <2>5. \A q \in Requests : ~Away(q, n)
    BY <2>4, InProcs DEF Awaited, Away, ToSend, Queued, Scraping, Working
  <2>6. \A m \in Numbers : Pending(m) => Pending(m)' \/ \A q \in Requests : ~Away(q, m)'
    BY <2>2, <2>3, <2>5 DEF Pending
  <2> QED
    BY <2>2, <2>3, <2>6, FlightOne
<1>6. CASE RecordEvent(r)
  <2>1. /\ RequestMoves(r) /\ UNCHANGED <<op, send, queue, row, disowned>>
        /\ pc'[r] \in {"mark", "look"} \/ (pc'[r] = "queue" /\ op[r] = "refresh")
    BY <1>6, RecordFacts
  <2>2. SendsNone
    BY <2>1, AwayOne
  <2>3. Rows
    BY <2>1 DEF Pending
  <2> QED
    BY <1>1, <2>1, <2>2, <2>3
<1>7. CASE MarkInProgress(r)
  <2>1. PICK n \in Numbers : num[r] = n
    BY <1>7, OnNumber
  <2>2. /\ pc'[r] = "scrape" /\ num'[r] = n /\ row[n].here
        /\ RequestMoves(r) /\ UNCHANGED <<send, queue, disowned>>
        /\ Write(n, "in_progress", row[n].msg)
    BY <1>7, <2>1, MarkInProgressFacts
  <2>3. SendsIts(n)
    BY <2>2, AwayOne
  <2>4. Rows /\ Pending(n)'
    BY <2>2, WriteFacts DEF Pending
  <2> QED
    BY <1>2, <2>2, <2>3, <2>4
<1>8. CASE MarkQueued(r)
  <2>1. PICK n \in Numbers : num[r] = n
    BY <1>8, OnNumber
  <2>2. /\ pc'[r] = "enqueue" /\ row[n].here
        /\ send'[r] = {<<n, gen[r]>>}
        /\ RequestMoves(r) /\ UNCHANGED <<queue, disowned>>
        /\ Write(n, "queued", "none")
    BY <1>8, <2>1, MarkQueuedFacts
  <2>3. SendsIts(n)
    BY <2>2, AwayOne
  <2>4. Rows /\ Pending(n)'
    BY <2>2, WriteFacts DEF Pending
  <2> QED
    BY <1>2, <2>2, <2>3, <2>4
<1>9. CASE BulkNext(r)
  <2>1. /\ RequestMoves(r) /\ UNCHANGED <<op, send, queue, row, disowned>>
        /\ op[r] = "bulk" /\ pc'[r] # "queue"
    BY <1>9, BulkNextFacts DEF OpOK
  <2>2. SendsNone
    BY <1>9, <2>1, AwayOne, BulkNextFacts
  <2>3. Rows
    BY <2>1 DEF Pending
  <2> QED
    BY <1>1, <2>1, <2>2, <2>3
<1>10. CASE BulkLook(r)
  <2>1. PICK n \in Numbers : num[r] = n
    BY <1>10, OnNumber
  <2>2. /\ num'[r] = n /\ snap'[r].status = row[n].status
        /\ pc'[r] = IF row[n].here THEN "queue" ELSE "insert"
        /\ RequestMoves(r) /\ UNCHANGED <<send, queue, row, disowned>>
    BY <1>10, <2>1, BulkLookFacts
  <2>3. SendsNone
    BY <2>2, AwayOne
  <2>4. Rows
    BY <2>2 DEF Pending
  <2>5. \A m \in Numbers : pc'[r] = "queue" /\ num'[r] = m /\ snap'[r].status = "queued" =>
           Pending(m)'
    BY <2>2 DEF Pending
  <2>6. pc'[r] # "deduct"
    BY <2>2
  <2> QED
    BY <2>2, <2>3, <2>4, <2>5, <2>6, FlightOne
<1>11. CASE BulkInsert(r)
  <2>1. PICK n \in Numbers : num[r] = n
    BY <1>11, OnNumber
  <2>2. /\ pc'[r] = "next" /\ ~row[n].here /\ Inserted(n)
        /\ send'[r] = send[r] \cup {<<n, row[n].gen + 1>>}
        /\ RequestMoves(r) /\ UNCHANGED <<queue, disowned>>
    BY <1>11, <2>1, BulkInsertFacts
  <2>3. SendsIts(n)
    BY <2>2, AwayOne
  <2>4. Rows /\ Pending(n)'
    BY <2>2 DEF Inserted, Pending
  <2> QED
    BY <1>2, <2>2, <2>3, <2>4
<1>12. CASE BulkQueue(r)
  <2>1. PICK n \in Numbers : num[r] = n
    BY <1>12, OnNumber
  <2>2. /\ pc[r] = "queue" /\ op[r] = "bulk" /\ pc'[r] = "next" /\ row[n].here
        /\ send'[r] = send[r] \cup {<<n, gen[r]>>}
        /\ RequestMoves(r) /\ UNCHANGED <<queue, disowned>>
        /\ \/ row' = row /\ snap[r].status = "queued"
           \/ \E msg : Write(n, IF snap[r].status = "queued" THEN row[n].status ELSE "queued", msg)
    BY <1>12, <2>1, BulkQueueFacts
  <2>3. SendsIts(n)
    BY <2>2, AwayOne
  <2>4. CASE snap[r].status = "queued"
    <3>1. \A m \in Numbers : Pending(m)' = Pending(m)
      BY <2>2, <2>4, WriteFacts DEF Pending
    <3>2. Pending(n) \/ <<r, n>> \in disowned
      BY <2>1, <2>2, <2>4 DEF FlightOK
    <3> QED
      BY <1>2, <2>2, <2>3, <3>1, <3>2
  <2>5. CASE snap[r].status # "queued"
    <3>1. \E msg : Write(n, "queued", msg)
      BY <2>2, <2>5
    <3>2. Rows /\ Pending(n)'
      BY <2>2, <3>1, WriteFacts DEF Pending
    <3> QED
      BY <1>2, <2>2, <2>3, <3>2
  <2> QED
    BY <2>4, <2>5
<1>13. CASE EnqueueScrape(r)
  <2>1. /\ RequestMoves(r) /\ UNCHANGED <<row, disowned>>
        /\ pc'[r] \in {"done", "enqueue"}
        /\ \E id \in send[r] :
              /\ send'[r] = send[r] \ {id}
              /\ \/ queue' = queue \cup {[num |-> id[1], gen |-> id[2], by |-> r]}
                 \/ queue' = queue
    BY <1>13, EnqueueFacts
  <2>2. SendsNone
    <3>1. \A s \in Slots : pc'[s] = pc[s] /\ num'[s] = num[s] /\ by'[s] = by[s]
      BY <2>1, InProcs, ConstantsAssumption DEF RequestMoves
    <3>2. \A q \in Requests \ {r} : pc'[q] = pc[q] /\ num'[q] = num[q] /\ send'[q] = send[q]
      BY <2>1, InProcs DEF RequestMoves
    <3>3. \A q \in Requests, m \in Numbers : Scraping(q, m)' => Scraping(q, m)
      BY <2>1, <3>1, <3>2 DEF Scraping
    <3>4. \A q \in Requests, m \in Numbers : ToSend(q, m)' => ToSend(q, m)
      BY <2>1, <3>2 DEF ToSend
    <3>5. \A q \in Requests, m \in Numbers : Queued(q, m)' => Queued(q, m) \/ ToSend(q, m)
      BY <2>1 DEF Queued, ToSend
    <3> QED
      BY <3>3, <3>4, <3>5 DEF Away
  <2>3. Rows
    BY <2>1 DEF Pending
  <2> QED
    BY <1>1, <2>1, <2>2, <2>3
<1> QED
  BY <1>3, <1>4, <1>5, <1>6, <1>7, <1>8, <1>9, <1>10, <1>11, <1>12, <1>13 DEF RequestStep

\* What every other step must see to.
LEMMA FlightRest ==
    ASSUME FlightOK, UNCHANGED op, disowned \subseteq disowned',
           \A r \in Requests : pc'[r] \in {"deduct", "queue"} =>
              pc'[r] = pc[r] /\ num'[r] = num[r] /\ snap'[r] = snap[r],
           \A q \in Requests, n \in Numbers : Away(q, n)' => Away(q, n),
           \A n \in Numbers : Pending(n) =>
              \/ Pending(n)'
              \/ /\ \A q \in Requests : Away(q, n)' => <<q, n>> \in disowned'
                 /\ \A r \in Requests : pc'[r] = "queue" /\ num'[r] = n =>
                       <<r, n>> \in disowned'
    PROVE  FlightOK'
<1>1. ASSUME NEW q \in Requests, NEW n \in Numbers, Away(q, n)', ~Pending(n)'
      PROVE  <<q, n>> \in disowned'
  BY <1>1 DEF FlightOK
<1>2. ASSUME NEW r \in Requests, NEW q \in Requests, NEW n \in Numbers,
             pc'[r] = "deduct", op'[r] # "bulk", num'[r] = n, Away(q, n)'
      PROVE  <<q, n>> \in disowned'
  BY <1>2 DEF FlightOK
<1>3. ASSUME NEW r \in Requests, NEW n \in Numbers, pc'[r] = "queue", op'[r] = "bulk",
             num'[r] = n, snap'[r].status = "queued", ~Pending(n)'
      PROVE  <<r, n>> \in disowned'
  BY <1>3 DEF FlightOK
<1> QED
  BY <1>1, <1>2, <1>3 DEF FlightOK

\* Which charges are away after a step of a slot, or of a request that scrapes.
LEMMA AwayShrinks ==
    ASSUME queue' \subseteq queue, \A r \in Requests : send'[r] \subseteq send[r],
           \A p \in Procs : pc'[p] = "scrape" =>
              /\ pc[p] = "scrape" /\ num'[p] = num[p]
              /\ p \in Slots => by'[p] = by[p]
    PROVE  \A q \in Requests, n \in Numbers : Away(q, n)' => Away(q, n)
  BY InProcs DEF Away, ToSend, Queued, Scraping

\* Every charge under way was paid, and so was one about to be queued.
LEMMA AwayIsPaid ==
    ASSUME ChargeInv, SpentOK, NEW q \in Requests, NEW n \in Numbers,
           Away(q, n) \/ InHand(q, n)
    PROVE  <<q, n>> \in paid
<1>1. CASE Scraping(q, n)
  <2>1. \E p \in Procs : Spends(p, q, n)
    BY <1>1, InProcs, ConstantsAssumption DEF Scraping, Spends, Working
  <2>2. scraped[<<q, n>>] > 0 /\ <<q, n>> \in Tokens
    BY <2>1 DEF SpentOK, Tokens
  <2> QED
    BY <2>2 DEF ChargeInv, ChargeInOnePlace
<1> QED
  BY <1>1 DEF Away, ChargeInv, ChargeInOnePlace, HeldUnspent

\* The scrape that settles a row hides every other, and is over itself.
LEMMA FlightSettles ==
    ASSUME ChargeInv, RowsOK, OpOK, SpentOK, FlightOK, NEW p \in Procs, NEW n \in Numbers,
           num[p] = n, ScrapeEnds(p)
    PROVE  FlightOK'
<1>t. TypeInv
  BY DEF ChargeInv
<1>1. /\ pc[p] \in Working /\ OnlyMoves(p) /\ UNCHANGED <<scraped, queue>>
      /\ pc'[p] \in {"notify", "idle", "done"}
      /\ \/ UNCHANGED <<row, disowned>>
         \/ /\ Settles(p, n)
            /\ disowned' = disowned \cup (LiveTokens(n) \ {OwnToken(p)})
  BY <1>t, EndsFacts
<1>2. \A q \in Requests, m \in Numbers : Away(q, m)' => Away(q, m)
  BY <1>1, AwayShrinks DEF OnlyMoves
<1>3. \A r \in Requests : pc'[r] \in {"deduct", "queue"} =>
         pc'[r] = pc[r] /\ num'[r] = num[r] /\ snap'[r] = snap[r]
  BY <1>1, InProcs DEF OnlyMoves
<1>4. UNCHANGED op /\ disowned \subseteq disowned'
  BY <1>1 DEF OnlyMoves
<1>5. CASE UNCHANGED row
  <2>1. \A m \in Numbers : Pending(m)' = Pending(m)
    BY <1>5 DEF Pending
  <2> QED
    BY <1>2, <1>3, <1>4, <2>1, FlightRest
<1>6. CASE /\ Settles(p, n)
           /\ disowned' = disowned \cup (LiveTokens(n) \ {OwnToken(p)})
  <2>1. PICK k \in Requests : Spends(p, k, n) /\ OwnToken(p) = <<k, n>>
    BY <1>1, <1>t, ConstantsAssumption
    DEF Spends, OwnToken, Procs, Working, TypeInv, PlaceOK
  <2>2. scraped[<<k, n>>] > 0
    BY <2>1 DEF SpentOK
  <2>3. ~ToSend(k, n) /\ ~Queued(k, n) /\ ~InHand(k, n)
    BY <2>2 DEF ChargeInv, ChargeInOnePlace, HeldUnspent
  <2>4. ~Away(k, n)'
    <3>1. ~ToSend(k, n)' /\ ~Queued(k, n)'
      BY <1>1, <2>3 DEF OnlyMoves, ToSend, Queued
    <3>2. \A q \in Procs \ {p} : ~Spends(q, k, n)
      BY <2>1 DEF SpentOK
    <3>3. ASSUME Scraping(k, n)'
          PROVE  FALSE
      <4>1. PICK q \in Procs : pc'[q] = "scrape" /\ num'[q] = n
                               /\ (IF q \in Slots THEN by'[q] = k ELSE q = k)
        BY <3>3, InProcs, ConstantsAssumption DEF Scraping
      <4>2. q # p
        BY <1>1, <4>1
      <4>3. Spends(q, k, n)
        BY <1>1, <4>1, <4>2 DEF OnlyMoves, Spends, Working
      <4> QED
        BY <3>2, <4>2, <4>3
    <3> QED
      BY <3>1, <3>3 DEF Away
  <2>5. \A q \in Requests : Away(q, n)' => <<q, n>> \in disowned'
    <3>1. SUFFICES ASSUME NEW q \in Requests, Away(q, n)'
                   PROVE  <<q, n>> \in disowned'
      OBVIOUS
    <3>2. <<q, n>> \in LiveTokens(n) /\ q # k
      BY <1>2, <2>4, <3>1, AwayIsLive
    <3>3. <<q, n>> # <<k, n>>
      BY <3>2
    <3> QED
      BY <1>6, <2>1, <3>2, <3>3
  <2>6. \A r \in Requests : pc'[r] = "queue" /\ num'[r] = n => <<r, n>> \in disowned'
    <3>1. SUFFICES ASSUME NEW r \in Requests, pc'[r] = "queue", num'[r] = n
                   PROVE  <<r, n>> \in disowned'
      OBVIOUS
    <3>2. pc[r] = "queue" /\ num[r] = n
      BY <1>3, <3>1
    <3>3. <<r, n>> \in LiveTokens(n) /\ InHand(r, n)
      BY <3>2 DEF LiveTokens, InHand, Holding
    <3>4. r # k
      BY <2>3, <3>3
    <3>5. <<r, n>> # <<k, n>>
      BY <3>4
    <3> QED
      BY <1>6, <2>1, <3>3, <3>5
  <2>7. \A m \in Numbers \ {n} : Pending(m)' = Pending(m)
    BY <1>6 DEF Settles, Pending
  <2>8. \A m \in Numbers : Pending(m) =>
              \/ Pending(m)'
              \/ /\ \A q \in Requests : Away(q, m)' => <<q, m>> \in disowned'
                 /\ \A r \in Requests : pc'[r] = "queue" /\ num'[r] = m =>
                       <<r, m>> \in disowned'
    BY <2>5, <2>6, <2>7
  <2> QED
    BY <1>2, <1>3, <1>4, <2>8, FlightRest
<1> QED
  BY <1>1, <1>5, <1>6

\* The sweep hides the live scrapes of the rows it fails.
LEMMA FlightSwept ==
    ASSUME ChargeInv, SpentOK, FlightOK, SweepWrite
    PROVE  FlightOK'
<1>t. TypeInv
  BY DEF ChargeInv
<1>1. /\ NobodyMoved /\ disowned \subseteq disowned'
      /\ \A id \in sweep : Contradicted(id) \subseteq disowned'
      /\ \A n \in Numbers : row'[n] = row[n] \/ \E id \in sweep : id[1] = n
  BY <1>t, SweepWriteFacts
<1>2. \A q \in Requests, m \in Numbers : Away(q, m)' => Away(q, m)
  BY <1>1, AwayShrinks DEF NobodyMoved
<1>3. ASSUME NEW n \in Numbers, row'[n] # row[n], NEW q \in Requests,
             Away(q, n) \/ (pc[q] = "queue" /\ num[q] = n)
      PROVE  <<q, n>> \in disowned'
  <2>1. PICK id \in sweep : id[1] = n
    BY <1>1, <1>3
  <2>2. <<q, n>> \in LiveTokens(n)
    BY <1>3, AwayIsLive DEF LiveTokens
  <2>3. <<q, n>> \in paid
    BY <1>3, AwayIsPaid DEF InHand, Holding
  <2>4. <<q, n>> \in Contradicted(id)
    BY <2>1, <2>2, <2>3 DEF Contradicted
  <2> QED
    BY <1>1, <2>4
<1>4. \A m \in Numbers : row'[m] = row[m] => Pending(m)' = Pending(m)
  BY DEF Pending
<1> QED
  BY <1>1, <1>2, <1>3, <1>4, FlightRest DEF NobodyMoved

LEMMA FlightNext ==
    ASSUME ChargeInv, OneServer, OpOK, RowsOK, SpentOK, FlightOK, [Next]_vars
    PROVE  FlightOK'
<1>t. TypeInv
  BY DEF ChargeInv
<1>1. CASE \E r \in Requests : ClientCalls(r) \/ RequestStep(r)
  BY <1>t, <1>1, FlightClient, FlightRequest
<1>2. ASSUME NEW p \in Procs, ScrapeEnds(p)
      PROVE  FlightOK'
  <2>1. PICK n \in Numbers : num[p] = n
    BY <1>2, <1>t DEF ScrapeEnds, ProviderMiss, ProviderHit, ProviderHitNotify, Notified,
      ScrapeRaises, TypeInv, PlaceOK, Procs
  <2> QED
    BY <1>2, <2>1, FlightSettles
<1>3. ASSUME NEW s \in Slots, StartJob(s)
      PROVE  FlightOK'
  <2>1. /\ OnlyMoves(s) /\ pc[s] = "idle" /\ UNCHANGED disowned
        /\ \E j \in queue :
              /\ queue' = queue \ {j}
              /\ Takes(s, j) \/ UNCHANGED <<row, pc, num, snap, by>>
    BY <1>3, <1>t, StartJobFacts
  <2>2. PICK j \in queue : /\ queue' = queue \ {j}
                           /\ Takes(s, j) \/ UNCHANGED <<row, pc, num, snap, by>>
    BY <2>1
  <2>3. j.num \in Numbers /\ j.by \in Requests
    BY <1>t DEF TypeInv, TypeOK, Job
  <2>4. \A m \in Numbers : Pending(m) => Pending(m)'
    BY <1>t, <2>2, <2>3, WriteFacts DEF Takes, Pending
  <2>5. \A r \in Requests : pc'[r] = pc[r] /\ num'[r] = num[r] /\ snap'[r] = snap[r]
    BY <2>1, InProcs, ConstantsAssumption DEF OnlyMoves
  <2>6. \A q \in Requests, m \in Numbers : Scraping(q, m)' => Scraping(q, m) \/ Queued(q, m)
    <3>1. ASSUME NEW q \in Requests, NEW m \in Numbers, NEW t \in Slots,
                 pc'[t] = "scrape", num'[t] = m, by'[t] = q, t = s
          PROVE  Queued(q, m)
      BY <2>1, <2>2, <3>1 DEF Takes, Queued
    <3> QED
      BY <2>1, <2>5, <3>1, InProcs DEF Scraping, OnlyMoves
  <2>7. \A q \in Requests, m \in Numbers : Away(q, m)' => Away(q, m)
    BY <2>1, <2>2, <2>6 DEF Away, ToSend, Queued, OnlyMoves
  <2> QED
    BY <2>1, <2>4, <2>5, <2>7, FlightRest DEF OnlyMoves
<1>4. ASSUME NobodyMoved, disowned' = disowned, \A n \in Numbers : row'[n].status = row[n].status
      PROVE  FlightOK'
  <2>1. \A q \in Requests, m \in Numbers : Away(q, m)' => Away(q, m)
    BY <1>4, AwayShrinks DEF NobodyMoved
  <2>2. \A m \in Numbers : Pending(m)' = Pending(m)
    BY <1>4 DEF Pending, NobodyMoved
  <2> QED
    BY <1>4, <2>1, <2>2, FlightRest DEF NobodyMoved
<1>5. CASE CrashWorker \/ (\E h \in Servers : CrashApi(h))
  <2>1. /\ UNCHANGED <<row, op, queue, disowned>>
        /\ \A p \in Procs :
              \/ pc'[p] = pc[p] /\ num'[p] = num[p] /\ snap'[p] = snap[p]
              \/ pc'[p] \in {"idle", "dead", "lost"}
        /\ \A s \in Slots : pc'[s] # "idle" => by'[s] = by[s]
        /\ \A r \in Requests : send'[r] \subseteq send[r]
    BY <1>5, <1>t, CrashFacts
  <2>2. \A q \in Requests, m \in Numbers : Away(q, m)' => Away(q, m)
    BY <2>1, AwayShrinks
  <2>3. \A r \in Requests : pc'[r] \in {"deduct", "queue"} =>
           pc'[r] = pc[r] /\ num'[r] = num[r] /\ snap'[r] = snap[r]
    BY <2>1, InProcs
  <2>4. \A m \in Numbers : Pending(m)' = Pending(m)
    BY <2>1 DEF Pending
  <2> QED
    BY <2>1, <2>2, <2>3, <2>4, FlightRest
<1>6. CASE UNCHANGED vars
  BY <1>4, <1>6 DEF vars, credits, jobVars, reqVars, envVars, NobodyMoved
<1>7. CASE SweepRead
  BY <1>t, <1>4, <1>7, SweepReadFacts
<1>8. CASE Tick
  BY <1>t, <1>4, <1>8, TickFacts
<1>9. CASE AddCredits \/ (\E n \in Numbers : CacheExpires(n))
           \/ (\E id \in creating : TrackingIdSaved(id))
  BY <1>t, <1>4, <1>9, ElseFacts
<1> QED
  BY <1>1, <1>2, <1>3, <1>5, <1>6, <1>7, <1>8, <1>9, FlightSwept DEF Next, Environment

-----------------------------------------------------------------------------
(* One scrape at a time. *)

FlightInv == ChargeInv /\ OpOK /\ RowsOK /\ SpentOK /\ FlightOK

LEMMA FlightInvariant == OneServer => (Spec => []FlightInv)
<1>1. Init => FlightInv
  <2> SUFFICES ASSUME Init PROVE FlightInv
    OBVIOUS
  <2>1. \A p \in Procs : pc[p] = "idle"
    BY DEF Init
  <2>2. \A p \in Procs, r \in Requests, n \in Numbers : ~Spends(p, r, n)
    BY <2>1 DEF Spends, Working
  <2>3. \A r \in Requests, n \in Numbers : ~Away(r, n)
    BY <2>1, InProcs DEF Init, Away, ToSend, Queued, Scraping
  <2>4. SpentOK /\ FlightOK
    BY <2>1, <2>2, <2>3, InProcs DEF SpentOK, FlightOK
  <2> QED
    BY <2>4, ChargeInvInit, OpRowsInit DEF FlightInv
<1>2. ASSUME OneServer
      PROVE  FlightInv /\ [Next]_vars => FlightInv'
  BY <1>2, ChargeInvNext, OpNext, RowsNext, SpentNext, FlightNext DEF FlightInv, ChargeInv
<1>3. CASE OneServer
  <2>1. FlightInv /\ [Next]_vars => FlightInv'
    BY <1>2, <1>3
  <2> QED
    BY <1>1, <2>1, PTL DEF Spec
<1> QED
  BY <1>3

\* The only steps that pay.
LEMMA WhoPays ==
    ASSUME TypeInv, OneServer, OpOK, RowsOK, [Next]_vars, paid' # paid
    PROVE  \E r \in Requests, n \in Numbers :
              /\ num[r] = n /\ paid' = paid \cup {<<r, n>>}
              /\ \A q \in Requests \ {r} : pc[q] \notin Sync
              /\ \/ pc[r] = "create" /\ ~row[n].here
                 \/ pc[r] = "deduct" /\ UNCHANGED <<op, disowned>>
<1>1. ASSUME NEW r \in Requests, NEW n \in Numbers, num[r] = n, CreateAndDeduct(r) \/ Deduct(r)
      PROVE  /\ paid' = paid \cup {<<r, n>>}
             /\ \A q \in Requests \ {r} : pc[q] \notin Sync
             /\ \/ pc[r] = "create" /\ ~row[n].here
                \/ pc[r] = "deduct" /\ UNCHANGED <<op, disowned>>
  <2>1. RequestMoves(r) /\ (paid' = paid \/ paid' = paid \cup {<<r, n>>})
    BY <1>1, CreateFacts, DeductFacts
  <2>2. \/ pc[r] = "create" /\ ~row[n].here
        \/ pc[r] = "deduct" /\ UNCHANGED <<op, disowned>>
    BY <1>1, CreateFacts, DeductFacts
  <2> QED
    BY <2>1, <2>2 DEF RequestMoves
<1>2. ASSUME NEW r \in Requests, CreateAndDeduct(r) \/ Deduct(r)
      PROVE  \E n \in Numbers :
              /\ num[r] = n /\ paid' = paid \cup {<<r, n>>}
              /\ \A q \in Requests \ {r} : pc[q] \notin Sync
              /\ \/ pc[r] = "create" /\ ~row[n].here
                 \/ pc[r] = "deduct" /\ UNCHANGED <<op, disowned>>
  <2>1. PICK n \in Numbers : num[r] = n
    BY <1>2, OnNumber
  <2> QED
    BY <1>1, <1>2, <2>1
<1>3. ASSUME NEW r \in Requests, ClientCalls(r)
      PROVE  FALSE
  BY <1>3 DEF ClientCalls, Track, GetOrRefresh, RequestRefresh, Submit, StopTracking,
    QueueBulk, credits
<1>4. ASSUME NEW r \in Requests,
             \/ DeleteUncharged(r) \/ RecordEvent(r) \/ MarkInProgress(r) \/ MarkQueued(r)
             \/ BulkNext(r) \/ BulkLook(r) \/ BulkInsert(r) \/ BulkQueue(r) \/ EnqueueScrape(r)
      PROVE  FALSE
  BY <1>4 DEF DeleteUncharged, RecordEvent, MarkInProgress, MarkQueued, BulkNext, BulkLook,
    BulkInsert, BulkQueue, EnqueueScrape, credits
<1>5. ASSUME NEW p \in Procs, ScrapeEnds(p)
      PROVE  FALSE
  BY <1>5 DEF ScrapeEnds, ProviderMiss, ProviderHit, ProviderHitNotify, Notified, ScrapeRaises,
    credits
<1>6. ASSUME NEW s \in Slots, StartJob(s)
      PROVE  FALSE
  BY <1>6 DEF StartJob, credits
<1>7. ASSUME SweepRead \/ SweepWrite \/ Environment \/ UNCHANGED vars
      PROVE  FALSE
  BY <1>7 DEF SweepRead, SweepWrite, Environment, AddCredits, Tick, CrashWorker, CacheExpires,
    TrackingIdSaved, CrashApi, credits, vars
<1> QED
  BY <1>2, <1>3, <1>4, <1>5, <1>6, <1>7 DEF Next, RequestStep

\* While one process serves the API, track, get and refresh do not charge for
\* a number whose scrape is already paid for and still to come or under way
\* (ContainerService._is_pending), unless the row stopped saying so because a
\* request found it stuck or because the sweep or another scrape settled it;
\* only queue_bulk, which does not ask, does.
THEOREM OneScrapeAtATime == OneServer => (Spec => SingleFlight)
<1>1. ASSUME OneServer, FlightInv, [Next]_vars
      PROVE  [\A t \in paid' \ paid :
                \/ op[t[1]] = "bulk"
                \/ LiveTokens(t[2]) \subseteq disowned]_vars
  <2>1. SUFFICES ASSUME NEW t \in paid' \ paid, op[t[1]] # "bulk"
                 PROVE  LiveTokens(t[2]) \subseteq disowned
    OBVIOUS
  <2>2. PICK r \in Requests, n \in Numbers :
              /\ num[r] = n /\ paid' = paid \cup {<<r, n>>}
              /\ \A q \in Requests \ {r} : pc[q] \notin Sync
              /\ \/ pc[r] = "create" /\ ~row[n].here
                 \/ pc[r] = "deduct" /\ UNCHANGED <<op, disowned>>
    BY <1>1, <2>1, WhoPays DEF FlightInv, ChargeInv
  <2>3. t = <<r, n>> /\ op[r] # "bulk"
    BY <2>1, <2>2
  <2>4. \A q \in Requests : pc[q] \notin {"record", "mark", "look", "insert", "queue"}
    BY <2>2 DEF Sync
  <2>5. ASSUME NEW u \in LiveTokens(n)
        PROVE  u \in disowned
    <3>1. PICK q \in Requests : u = <<q, n>> /\ Away(q, n)
      BY <1>1, <2>4, LiveIsAway DEF FlightInv, ChargeInv
    <3>2. CASE pc[r] = "deduct"
      BY <1>1, <2>2, <2>3, <3>1, <3>2 DEF FlightInv, FlightOK
    <3>3. CASE ~row[n].here
      BY <1>1, <3>1, <3>3 DEF FlightInv, FlightOK, Pending
    <3> QED
      BY <2>2, <3>2, <3>3
  <2> QED
    BY <2>3, <2>5
<1>2. CASE OneServer
  <2>1. Spec => []FlightInv
    BY <1>2, FlightInvariant
  <2>2. FlightInv /\ [Next]_vars =>
          [\A t \in paid' \ paid :
                \/ op[t[1]] = "bulk"
                \/ LiveTokens(t[2]) \subseteq disowned]_vars
    BY <1>1, <1>2
  <2> QED
    BY <2>1, <2>2, PTL DEF Spec, SingleFlight
<1> QED
  BY <1>2

-----------------------------------------------------------------------------
(* Holders: where the charges are. *)

\* Charges and contradictions accumulate, and a request calls one endpoint.
Grows ==
    /\ disowned \subseteq disowned' /\ paid \subseteq paid'
    /\ \A r \in Requests : pc[r] # "idle" => op'[r] = op[r]

LEMMA GrowsNext ==
    ASSUME TypeInv, [Next]_vars
    PROVE  Grows
<1>1. ASSUME NEW r \in Requests, ClientCalls(r)
      PROVE  Grows
  BY <1>1 DEF ClientCalls, Track, GetOrRefresh, RequestRefresh, Submit, StopTracking,
    QueueBulk, credits, envVars, Grows, TypeInv, TypeOK
<1>2. ASSUME NEW r \in Requests, RequestStep(r)
      PROVE  Grows
  BY <1>2 DEF RequestStep, CreateAndDeduct, Deduct, DeductCredit, QuotaExceeded, DeleteUncharged,
    RecordEvent, MarkInProgress, MarkQueued, BulkNext, BulkLook, BulkInsert, BulkQueue,
    EnqueueScrape, credits, envVars, reqVars, Grows
<1>3. ASSUME NEW p \in Procs, ScrapeEnds(p)
      PROVE  Grows
  BY <1>3 DEF ScrapeEnds, ProviderMiss, ProviderHit, ProviderHitNotify, Notified, ScrapeRaises,
    Disown, credits, envVars, reqVars, Grows
<1>4. ASSUME NEW s \in Slots, StartJob(s)
      PROVE  Grows
  BY <1>4 DEF StartJob, credits, envVars, reqVars, Grows
<1>5. CASE SweepRead \/ SweepWrite
  BY <1>5 DEF SweepRead, SweepWrite, credits, reqVars, Grows
<1>6. CASE Environment \/ UNCHANGED vars
  BY <1>6 DEF Environment, AddCredits, Tick, CrashWorker, CacheExpires, TrackingIdSaved,
    CrashApi, credits, envVars, reqVars, vars, Grows
<1> QED
  BY <1>1, <1>2, <1>3, <1>4, <1>5, <1>6 DEF Next

\* Clean numbers were clean before.
LEMMA CleanBefore ==
    ASSUME ChargeInv, Grows, NEW n \in Numbers, Clean(n)'
    PROVE  Clean(n)
<1>1. \A r \in Requests : <<r, n>> \in paid => op'[r] = op[r]
  BY DEF ChargeInv, ChargeInOnePlace, ChargedOnce, Grows
<1> QED
  BY <1>1 DEF Clean, Grows

\* No step but a payment makes a holder.
HoldersStay ==
    \A q \in Requests, n \in Numbers :
        Holder(q, n)' => Holder(q, n) \/ <<q, n>> \in paid' \ paid

LEMMA HolderOne ==
    ASSUME TypeInv, NEW r \in Requests, RequestMoves(r), queue' \subseteq queue,
           \A n \in Numbers : pc'[r] = "scrape" /\ num'[r] = n => InHand(r, n),
           \A id \in send'[r], n \in Numbers : id \notin send[r] /\ id[1] = n => InHand(r, n),
           \A n \in Numbers : InHand(r, n)' => InHand(r, n)
    PROVE  HoldersStay
<1>1. \A q \in Requests, n \in Numbers : Away(q, n)' => Holder(q, n)
  BY AwayOne DEF Holder
<1>2. \A q \in Requests, n \in Numbers : InHand(q, n)' => InHand(q, n)
  BY InProcs DEF InHand, RequestMoves
<1> QED
  BY <1>1, <1>2 DEF HoldersStay, Holder

LEMMA HolderRequest ==
    ASSUME ChargeInv, OneServer, OpOK, RowsOK, NEW r \in Requests, ClientCalls(r) \/ RequestStep(r)
    PROVE  HoldersStay
<1> TypeInv
  BY DEF ChargeInv
<1>1. ASSUME RequestMoves(r), UNCHANGED <<queue, send>>, pc'[r] \notin Holding \cup {"scrape"}
      PROVE  HoldersStay
  BY <1>1, HolderOne DEF InHand
<1>2. ASSUME NEW n \in Numbers, Track(r, n) \/ GetOrRefresh(r, n) \/ RequestRefresh(r, n)
      PROVE  HoldersStay
  <2>1. RequestMoves(r) /\ UNCHANGED <<queue, send>> /\ pc'[r] \in {"create", "deduct", "done"}
    BY <1>2, AskFacts
  <2> QED
    BY <1>1, <2>1 DEF Holding
<1>3. ASSUME NEW n \in Numbers, StopTracking(r, n)
      PROVE  HoldersStay
  BY <1>1, <1>3, StopFacts DEF Holding
<1>4. ASSUME NEW S \in SUBSET Numbers, QueueBulk(r, S)
      PROVE  HoldersStay
  BY <1>1, <1>4, QueueBulkFacts DEF Holding
<1>5. CASE CreateAndDeduct(r) \/ Deduct(r) \/ DeleteUncharged(r)
  <2>1. PICK n \in Numbers : num[r] = n
    BY <1>5, OnNumber
  <2>2. /\ RequestMoves(r) /\ UNCHANGED <<queue, send>>
        /\ pc'[r] \in {"undo", "next", "done"}
           \/ /\ paid' = paid \cup {<<r, n>>} /\ pc[r] \in {"create", "deduct"}
              /\ pc'[r] = "record" /\ num'[r] = n
    BY <1>5, <2>1, CreateFacts, DeductFacts, DeleteFacts
  <2>3. CASE pc'[r] \in {"undo", "next", "done"}
    BY <1>1, <2>2, <2>3 DEF Holding
  <2>4. CASE /\ paid' = paid \cup {<<r, n>>} /\ pc[r] \in {"create", "deduct"}
             /\ pc'[r] = "record" /\ num'[r] = n
    <3>1. <<r, n>> \notin paid
      BY <2>1, <2>4 DEF ChargeInv, ChargeInOnePlace, ChargedOnce
    <3>2. \A q \in Requests, m \in Numbers : Away(q, m)' => Away(q, m)
      BY <2>2, <2>4, AwayOne
    <3>3. \A q \in Requests, m \in Numbers :
            InHand(q, m)' => InHand(q, m) \/ (q = r /\ m = n)
      BY <2>2, <2>4, InProcs DEF InHand, RequestMoves
    <3>4. <<r, n>> \in paid' \ paid
      BY <2>4, <3>1
    <3> QED
      BY <3>2, <3>3, <3>4 DEF HoldersStay, Holder
  <2> QED
    BY <2>2, <2>3, <2>4
<1>6. CASE RecordEvent(r) \/ BulkLook(r)
  <2>1. PICK n \in Numbers : num[r] = n
    BY <1>6, OnNumber
  <2>2. /\ RequestMoves(r) /\ UNCHANGED <<queue, send>> /\ num'[r] = n
        /\ pc[r] \in {"record", "look"} /\ pc'[r] \in {"mark", "queue", "look", "insert"}
    BY <1>6, <2>1, RecordFacts, BulkLookFacts
  <2> QED
    BY <2>1, <2>2, HolderOne DEF InHand, Holding
<1>7. CASE MarkInProgress(r)
  <2>1. PICK n \in Numbers : num[r] = n
    BY <1>7, OnNumber
  <2>2. /\ RequestMoves(r) /\ UNCHANGED <<queue, send>> /\ num'[r] = n
        /\ pc[r] = "mark" /\ pc'[r] = "scrape"
    BY <1>7, <2>1, MarkInProgressFacts
  <2> QED
    BY <2>1, <2>2, HolderOne DEF InHand, Holding
<1>8. CASE MarkQueued(r) \/ BulkInsert(r) \/ BulkQueue(r)
  <2>1. PICK n \in Numbers : num[r] = n
    BY <1>8, OnNumber
  <2>2. /\ RequestMoves(r) /\ UNCHANGED queue
        /\ pc[r] \in {"queue", "insert"} /\ pc'[r] \in {"enqueue", "next"}
        /\ \E g : send'[r] \subseteq send[r] \cup {<<n, g>>}
    BY <1>8, <2>1, MarkQueuedFacts, BulkInsertFacts, BulkQueueFacts, SMTT(30)
  <2>3. \A id \in send'[r], m \in Numbers : id \notin send[r] /\ id[1] = m => InHand(r, m)
    BY <2>1, <2>2 DEF InHand, Holding
  <2> QED
    BY <2>2, <2>3, HolderOne DEF InHand, Holding
<1>9. CASE BulkNext(r)
  <2>1. /\ RequestMoves(r) /\ UNCHANGED <<queue, send>>
        /\ pc'[r] \in {"deduct", "done", "enqueue"}
    BY <1>9, BulkNextFacts
  <2> QED
    BY <1>1, <2>1 DEF Holding
<1>10. CASE EnqueueScrape(r)
  <2>1. /\ RequestMoves(r) /\ pc'[r] \in {"done", "enqueue"}
        /\ \E id \in send[r] :
              /\ send'[r] = send[r] \ {id}
              /\ \/ queue' = queue \cup {[num |-> id[1], gen |-> id[2], by |-> r]}
                 \/ queue' = queue
    BY <1>10, EnqueueFacts
  <2>2. \A s \in Slots : pc'[s] = pc[s] /\ num'[s] = num[s] /\ by'[s] = by[s]
    BY <2>1, InProcs, ConstantsAssumption DEF RequestMoves
  <2>3. \A q \in Requests \ {r} : pc'[q] = pc[q] /\ num'[q] = num[q] /\ send'[q] = send[q]
    BY <2>1, InProcs DEF RequestMoves
  <2>4. \A q \in Requests, m \in Numbers : Scraping(q, m)' => Scraping(q, m)
    BY <2>1, <2>2, <2>3 DEF Scraping
  <2>5. \A q \in Requests, m \in Numbers : ToSend(q, m)' => ToSend(q, m)
    BY <2>1, <2>3 DEF ToSend
  <2>6. \A q \in Requests, m \in Numbers : Queued(q, m)' => Queued(q, m) \/ ToSend(q, m)
    BY <2>1 DEF Queued, ToSend
  <2>7. \A q \in Requests, m \in Numbers : InHand(q, m)' => InHand(q, m)
    BY <2>1, <2>3 DEF InHand, Holding
  <2> QED
    BY <2>4, <2>5, <2>6, <2>7 DEF HoldersStay, Holder, Away
<1> QED
  BY <1>2, <1>3, <1>4, <1>5, <1>6, <1>7, <1>8, <1>9, <1>10 DEF ClientCalls, RequestStep

LEMMA HolderNext ==
    ASSUME ChargeInv, OneServer, OpOK, RowsOK, [Next]_vars
    PROVE  HoldersStay
<1> TypeInv
  BY DEF ChargeInv
<1>1. CASE \E r \in Requests : ClientCalls(r) \/ RequestStep(r)
  BY <1>1, HolderRequest
<1>2. ASSUME queue' \subseteq queue, \A r \in Requests : send'[r] \subseteq send[r],
             \A p \in Procs : pc'[p] \in Holding \cup {"scrape"} =>
                /\ pc[p] = pc'[p] /\ num'[p] = num[p]
                /\ p \in Slots => by'[p] = by[p]
      PROVE  HoldersStay
  <2>1. \A q \in Requests, n \in Numbers : Away(q, n)' => Away(q, n)
    BY <1>2, AwayShrinks
  <2>2. \A q \in Requests, n \in Numbers : InHand(q, n)' => InHand(q, n)
    BY <1>2, InProcs DEF InHand
  <2> QED
    BY <2>1, <2>2 DEF HoldersStay, Holder
<1>3. ASSUME NEW p \in Procs, ScrapeEnds(p)
      PROVE  HoldersStay
  <2>1. PICK n \in Numbers : num[p] = n
    BY <1>3 DEF ScrapeEnds, ProviderMiss, ProviderHit, ProviderHitNotify, Notified,
      ScrapeRaises, TypeInv, PlaceOK, Procs
  <2>2. /\ OnlyMoves(p) /\ UNCHANGED queue
        /\ pc'[p] \in {"notify", "idle", "done"}
    BY <1>3, <2>1, EndsFacts
  <2> QED
    BY <1>2, <2>2 DEF OnlyMoves, Holding
<1>4. ASSUME NEW s \in Slots, StartJob(s)
      PROVE  HoldersStay
  <2>1. /\ OnlyMoves(s) /\ pc[s] = "idle"
        /\ \E j \in queue :
              /\ queue' = queue \ {j}
              /\ Takes(s, j) \/ UNCHANGED <<pc, num, by>>
    BY <1>4, StartJobFacts
  <2>2. PICK j \in queue : /\ queue' = queue \ {j}
                           /\ Takes(s, j) \/ UNCHANGED <<pc, num, by>>
    BY <2>1
  <2>3. \A r \in Requests : pc'[r] = pc[r] /\ num'[r] = num[r]
    BY <2>1, InProcs, ConstantsAssumption DEF OnlyMoves
  <2>4. \A q \in Requests, m \in Numbers : Scraping(q, m)' => Scraping(q, m) \/ Queued(q, m)
    <3>1. ASSUME NEW q \in Requests, NEW m \in Numbers, NEW t \in Slots,
                 pc'[t] = "scrape", num'[t] = m, by'[t] = q, t = s
          PROVE  Queued(q, m)
      BY <2>1, <2>2, <3>1 DEF Takes, Queued
    <3> QED
      BY <2>1, <2>3, <3>1, InProcs DEF Scraping, OnlyMoves
  <2>5. \A q \in Requests, m \in Numbers : Away(q, m)' => Away(q, m)
    BY <2>1, <2>2, <2>4 DEF Away, ToSend, Queued, OnlyMoves
  <2> QED
    BY <2>3, <2>5 DEF HoldersStay, Holder, InHand
<1>5. CASE NobodyMoved
  BY <1>2, <1>5 DEF NobodyMoved
<1>6. CASE CrashWorker \/ (\E h \in Servers : CrashApi(h))
  <2>1. /\ UNCHANGED queue
        /\ \A p \in Procs : \/ pc'[p] = pc[p] /\ num'[p] = num[p]
                            \/ pc'[p] \in {"idle", "dead", "lost"}
        /\ \A s \in Slots : pc'[s] # "idle" => by'[s] = by[s]
        /\ \A r \in Requests : send'[r] \subseteq send[r]
    BY <1>6, CrashFacts
  <2> QED
    BY <1>2, <2>1 DEF Holding
<1>7. CASE UNCHANGED vars
  BY <1>2, <1>7 DEF vars, jobVars, reqVars
<1> QED
  BY <1>1, <1>3, <1>4, <1>5, <1>6, <1>7, SweepReadFacts, SweepWriteFacts, TickFacts, ElseFacts
  DEF Next, Environment

LEMMA OneHolderNext ==
    ASSUME FlightInv, OneServer, OneHolder, [Next]_vars
    PROVE  OneHolder'
<1>t. TypeInv /\ ChargeInv /\ OpOK /\ RowsOK
  BY DEF FlightInv, ChargeInv
<1>g. Grows
  BY <1>t, GrowsNext
<1>h. HoldersStay
  BY <1>t, HolderNext
<1>1. SUFFICES ASSUME NEW n \in Numbers, NEW q \in Requests, NEW r \in Requests,
                      Clean(n)', Holder(q, n)', Holder(r, n)'
               PROVE  q = r
  BY DEF OneHolder
<1>2. Clean(n)
  BY <1>t, <1>g, <1>1, CleanBefore
<1>3. CASE paid' = paid
  BY <1>h, <1>1, <1>2, <1>3 DEF HoldersStay, OneHolder
<1>4. CASE paid' # paid
  <2>1. PICK k \in Requests, m \in Numbers :
              /\ num[k] = m /\ paid' = paid \cup {<<k, m>>}
              /\ \A a \in Requests \ {k} : pc[a] \notin Sync
              /\ \/ pc[k] = "create" /\ ~row[m].here
                 \/ pc[k] = "deduct" /\ UNCHANGED <<op, disowned>>
    BY <1>t, <1>4, WhoPays
  <2>2. \A a \in Requests : Holder(a, n) => <<a, n>> \in paid /\ ~InHand(a, n)
    <3>1. \A a \in Requests : ~InHand(a, n)
      BY <2>1 DEF InHand, Holding, Sync
    <3> QED
      BY <3>1, AwayIsPaid DEF FlightInv, Holder
  <2>3. \A a \in Requests : Holder(a, n)' => Holder(a, n) \/ (a = k /\ m = n)
    <3>1. ASSUME NEW a \in Requests, <<a, n>> \in paid' \ paid
          PROVE  a = k /\ m = n
      BY <2>1, <3>1
    <3> QED
      BY <1>h, <3>1 DEF HoldersStay
  <2>4. ASSUME m = n, NEW a \in Requests, Holder(a, n)
        PROVE  a = k
    <3>1. Away(a, n) /\ <<a, n>> \in paid
      BY <2>2, <2>4 DEF Holder
    <3>2. <<a, n>> \notin disowned
      BY <1>2 DEF Clean
    <3>3. Pending(n)
      BY <3>1, <3>2 DEF FlightInv, FlightOK
    <3>4. op[k] = "bulk"
      BY <2>1, <2>4, <3>1, <3>2, <3>3 DEF FlightInv, FlightOK, Pending
    <3>5. op'[k] = "bulk"
      BY <1>g, <2>1, <3>4 DEF Grows
    <3>6. <<a, n>> \in paid' /\ <<k, n>> \in paid'
      BY <2>1, <2>4, <3>1
    <3> QED
      BY <1>1, <3>5, <3>6 DEF Clean
  <2> QED
    BY <1>1, <1>2, <2>3, <2>4 DEF OneHolder
<1> QED
  BY <1>3, <1>4

-----------------------------------------------------------------------------
(* The message of a row agrees with its status. *)

LEMMA LoadedNext ==
    ASSUME TypeInv, OneServer, OpOK, RowsOK, LoadedOK, [Next]_vars
    PROVE  LoadedOK'
<1>1. ASSUME \A p \in Procs : pc'[p] = "scrape" =>
                (pc[p] = "scrape" /\ snap'[p] = snap[p]) \/ snap'[p].status = "in_progress"
      PROVE  LoadedOK'
  BY <1>1 DEF LoadedOK
<1>2. ASSUME NEW r \in Requests, RequestMoves(r), pc'[r] # "scrape"
      PROVE  LoadedOK'
  BY <1>1, <1>2 DEF RequestMoves
<1>3. ASSUME NEW r \in Requests, ClientCalls(r)
      PROVE  LoadedOK'
  <2>1. ASSUME NEW n \in Numbers, Track(r, n) \/ GetOrRefresh(r, n) \/ RequestRefresh(r, n)
        PROVE  LoadedOK'
    BY <1>2, <2>1, AskFacts
  <2>2. ASSUME NEW n \in Numbers, StopTracking(r, n)
        PROVE  LoadedOK'
    BY <1>2, <2>2, StopFacts
  <2>3. ASSUME NEW S \in SUBSET Numbers, QueueBulk(r, S)
        PROVE  LoadedOK'
    BY <1>2, <2>3, QueueBulkFacts
  <2> QED
    BY <1>3, <2>1, <2>2, <2>3 DEF ClientCalls
<1>4. ASSUME NEW r \in Requests, RequestStep(r)
      PROVE  LoadedOK'
  <2>1. CASE MarkInProgress(r)
    <3>1. PICK n \in Numbers : num[r] = n
      BY <2>1, OnNumber
    <3>2. RequestMoves(r) /\ snap'[r].status = "in_progress"
      BY <2>1, <3>1, MarkInProgressFacts
    <3> QED
      BY <1>1, <3>2 DEF RequestMoves
  <2>2. CASE CreateAndDeduct(r) \/ Deduct(r) \/ DeleteUncharged(r)
           \/ MarkQueued(r) \/ BulkLook(r) \/ BulkInsert(r) \/ BulkQueue(r)
    <3>1. PICK n \in Numbers : num[r] = n
      BY <2>2, OnNumber
    <3>2. RequestMoves(r) /\ pc'[r] # "scrape"
      BY <2>2, <3>1, CreateFacts, DeductFacts, DeleteFacts, MarkQueuedFacts, BulkLookFacts,
        BulkInsertFacts, BulkQueueFacts
    <3> QED
      BY <1>2, <3>2
  <2>3. CASE RecordEvent(r) \/ BulkNext(r) \/ EnqueueScrape(r)
    BY <1>2, <2>3, RecordFacts, BulkNextFacts, EnqueueFacts
  <2> QED
    BY <1>4, <2>1, <2>2, <2>3 DEF RequestStep
<1>5. ASSUME NEW p \in Procs, ScrapeEnds(p)
      PROVE  LoadedOK'
  <2>1. PICK n \in Numbers : num[p] = n
    BY <1>5 DEF ScrapeEnds, ProviderMiss, ProviderHit, ProviderHitNotify, Notified,
      ScrapeRaises, TypeInv, PlaceOK, Procs
  <2>2. OnlyMoves(p) /\ pc'[p] # "scrape"
    BY <1>5, <2>1, EndsFacts
  <2> QED
    BY <1>1, <2>2 DEF OnlyMoves
<1>6. ASSUME NEW s \in Slots, StartJob(s)
      PROVE  LoadedOK'
  BY <1>1, <1>6, StartJobFacts, ZenonT(40) DEF OnlyMoves, Takes
<1>7. CASE NobodyMoved
  BY <1>1, <1>7 DEF NobodyMoved
<1>8. CASE CrashWorker \/ (\E h \in Servers : CrashApi(h))
  BY <1>1, <1>8, CrashFacts
<1>9. CASE UNCHANGED vars
  BY <1>1, <1>9 DEF vars
<1> QED
  BY <1>3, <1>4, <1>5, <1>6, <1>7, <1>8, <1>9, SweepReadFacts, SweepWriteFacts, TickFacts, ElseFacts
  DEF Next, Environment

\* Process p loads nothing new.
LoadsNothing(p) ==
    pc'[p] = "scrape" => pc[p] = "scrape" /\ num'[p] = num[p] /\ snap'[p] = snap[p]

RowSame(n) ==
    row'[n].here = row[n].here /\ row'[n].status = row[n].status /\ row'[n].msg = row[n].msg

\* What a step that writes nothing but the row of number n must see to.
LEMMA MessageRow ==
    ASSUME ChargeInv, Grows, MessageOK, NEW n \in Numbers, sweep' \subseteq sweep,
           \A m \in Numbers \ {n} : RowSame(m),
           \A p \in Procs : LoadsNothing(p) \/ num'[p] = n,
           Clean(n)' /\ row'[n].here => Settled(n)',
           \A p \in Procs :
              pc'[p] = "scrape" /\ num'[p] = n /\ Clean(n)' => row'[n].msg = snap'[p].msg,
           Pending(n)' /\ row'[n].msg = "timeout" => Paid(n)'
    PROVE  MessageOK'
<1>1. \A m \in Numbers : Clean(m)' => Clean(m)
  BY CleanBefore
<1>2. \A m \in Numbers : Paid(m) => Paid(m)'
  BY DEF Paid, Grows
<1>3. \A m \in Numbers : Clean(m)' /\ row'[m].here => Settled(m)'
  BY <1>1 DEF MessageOK, RowSame, Settled
<1>4. \A p \in Procs, m \in Numbers :
          pc'[p] = "scrape" /\ num'[p] = m /\ Clean(m)' => row'[m].msg = snap'[p].msg
  BY <1>1 DEF MessageOK, RowSame, LoadsNothing
<1>5. \A id \in sweep', m \in Numbers : id[1] = m /\ id[3] = "timeout" => Paid(m)'
  BY <1>2 DEF MessageOK
<1>6. \A m \in Numbers : Pending(m)' /\ row'[m].msg = "timeout" => Paid(m)'
  BY <1>2 DEF MessageOK, RowSame, Pending
<1> QED
  BY <1>3, <1>4, <1>5, <1>6 DEF MessageOK

\* What a step that writes no row must see to.
LEMMA MessageSame ==
    ASSUME ChargeInv, Grows, MessageOK,
           \A id \in sweep', m \in Numbers : id[1] = m /\ id[3] = "timeout" => Paid(m),
           \A m \in Numbers : RowSame(m), \A p \in Procs : LoadsNothing(p)
    PROVE  MessageOK'
<1>1. \A m \in Numbers : Clean(m)' => Clean(m)
  BY CleanBefore
<1>2. \A m \in Numbers : Paid(m) => Paid(m)'
  BY DEF Paid, Grows
<1>3. \A m \in Numbers : Clean(m)' /\ row'[m].here => Settled(m)'
  BY <1>1 DEF MessageOK, RowSame, Settled
<1>4. \A p \in Procs, m \in Numbers :
          pc'[p] = "scrape" /\ num'[p] = m /\ Clean(m)' => row'[m].msg = snap'[p].msg
  BY <1>1 DEF MessageOK, RowSame, LoadsNothing
<1>5. \A m \in Numbers : Pending(m)' /\ row'[m].msg = "timeout" => Paid(m)'
  BY <1>2 DEF MessageOK, RowSame, Pending
<1> QED
  BY <1>2, <1>3, <1>4, <1>5 DEF MessageOK

\* Nobody scrapes a clean row whose charge another one holds.
LEMMA NoOtherScraper ==
    ASSUME ChargeInv, SpentOK, OneHolder, NEW r \in Requests, NEW n \in Numbers, Clean(n),
           InHand(r, n), NEW p \in Procs, pc[p] = "scrape", num[p] = n
    PROVE  FALSE
<1>1. PICK k \in Requests : Spends(p, k, n) /\ Scraping(k, n)
  BY ConstantsAssumption DEF Procs, Spends, Scraping, Working, ChargeInv, TypeInv, PlaceOK
<1>2. k = r
  BY <1>1 DEF OneHolder, Holder, Away
<1>3. scraped[<<r, n>>] = 0 /\ scraped[<<r, n>>] > 0
  BY <1>1, <1>2 DEF SpentOK, ChargeInv, ChargeInOnePlace, HeldUnspent
<1> QED
  BY <1>3

LEMMA MessageClient ==
    ASSUME FlightInv, OneServer, MessageOK, NEW r \in Requests, ClientCalls(r), Grows
    PROVE  MessageOK'
<1>t. TypeInv /\ ChargeInv /\ OpOK /\ RowsOK
  BY DEF FlightInv, ChargeInv
<1>1. ASSUME RequestMoves(r), pc'[r] # "scrape", \A m \in Numbers : RowSame(m)
      PROVE  MessageOK'
  <2>1. \A p \in Procs : LoadsNothing(p)
    BY <1>1 DEF RequestMoves, LoadsNothing
  <2>2. \A id \in sweep', m \in Numbers : id[1] = m /\ id[3] = "timeout" => Paid(m)
    BY <1>1 DEF RequestMoves, MessageOK
  <2> QED
    BY <1>t, <1>1, <2>1, <2>2, MessageSame
<1>2. ASSUME NEW n \in Numbers, Track(r, n) \/ GetOrRefresh(r, n) \/ RequestRefresh(r, n)
      PROVE  MessageOK'
  <2>1. RequestMoves(r) /\ UNCHANGED row /\ pc'[r] # "scrape"
    BY <1>t, <1>2, AskFacts
  <2> QED
    BY <1>1, <2>1 DEF RowSame
<1>3. ASSUME NEW n \in Numbers, StopTracking(r, n)
      PROVE  MessageOK'
  BY <1>t, <1>1, <1>3, StopFacts DEF RowSame
<1>4. ASSUME NEW S \in SUBSET Numbers, QueueBulk(r, S)
      PROVE  MessageOK'
  BY <1>t, <1>1, <1>4, QueueBulkFacts DEF RowSame
<1> QED
  BY <1>2, <1>3, <1>4 DEF ClientCalls

LEMMA MessageRequest ==
    ASSUME FlightInv, OneServer, OneHolder, MessageOK, NEW r \in Requests, RequestStep(r), Grows
    PROVE  MessageOK'
<1>t. TypeInv /\ ChargeInv /\ OpOK /\ RowsOK /\ SpentOK /\ FlightOK
  BY DEF FlightInv, ChargeInv
<1> DEFINE Load(n) == \A p \in Procs :
              pc'[p] = "scrape" /\ num'[p] = n /\ Clean(n)' => row'[n].msg = snap'[p].msg
           Rest(n) == \A m \in Numbers \ {n} : RowSame(m)
           Late(n) == Pending(n)' /\ row'[n].msg = "timeout" => Paid(n)'
<1>1. ASSUME RequestMoves(r), pc'[r] # "scrape", row' = row
      PROVE  MessageOK'
  <2>1. \A p \in Procs : LoadsNothing(p)
    BY <1>1 DEF RequestMoves, LoadsNothing
  <2>2. \A id \in sweep', m \in Numbers : id[1] = m /\ id[3] = "timeout" => Paid(m)
    BY <1>1 DEF RequestMoves, MessageOK
  <2> QED
    BY <1>t, <1>1, <2>1, <2>2, MessageSame DEF RowSame
<1>2. ASSUME NEW n \in Numbers, RequestMoves(r), pc'[r] = "scrape" => num'[r] = n, Rest(n),
             Clean(n)' /\ row'[n].here => Settled(n)', Load(n), Late(n)
      PROVE  MessageOK'
  <2>1. \A p \in Procs : LoadsNothing(p) \/ num'[p] = n
    BY <1>2 DEF RequestMoves, LoadsNothing
  <2>2. sweep' \subseteq sweep
    BY <1>2 DEF RequestMoves
  <2> QED
    BY <1>t, <1>2, <2>1, <2>2, MessageRow
\* Where nobody scrapes the row.
<1>3. ASSUME NEW n \in Numbers, RequestMoves(r), pc'[r] # "scrape",
             \A p \in Procs : Clean(n) => ~(pc[p] = "scrape" /\ num[p] = n)
      PROVE  Load(n)
  <2>1. Clean(n)' => Clean(n)
    BY <1>t, CleanBefore
  <2> QED
    BY <1>3, <2>1 DEF RequestMoves
<1>4. CASE CreateAndDeduct(r) \/ BulkInsert(r)
  <2>1. PICK n \in Numbers : num[r] = n
    BY <1>4, <1>t, OnNumber
  <2>2. /\ ~row[n].here /\ Inserted(n)
        /\ RequestMoves(r) /\ pc'[r] # "scrape"
    BY <1>4, <1>t, <2>1, CreateFacts, BulkInsertFacts
  <2>3. \A p \in Procs : ~(pc[p] = "scrape" /\ num[p] = n)
    BY <1>t, <2>2 DEF RowsOK, Exists, Working
  <2>4. Load(n)
    BY <1>3, <2>2, <2>3
  <2>5. Rest(n) /\ Late(n) /\ Settled(n)'
    BY <2>2 DEF Inserted, RowSame, Settled
  <2> QED
    BY <1>2, <2>2, <2>4, <2>5
<1>5. CASE DeleteUncharged(r)
  <2>1. PICK n \in Numbers : num[r] = n
    BY <1>5, <1>t, OnNumber
  <2>2. /\ pc[r] = "undo" /\ pc'[r] = "done" /\ RequestMoves(r)
        /\ ~row'[n].here
        /\ \A m \in Numbers \ {n} : row'[m] = row[m]
    BY <1>5, <1>t, <2>1, DeleteFacts
  <2>3. \A p \in Procs : ~(pc[p] = "scrape" /\ num[p] = n)
    BY <1>t, <2>1, <2>2 DEF RowsOK, Awaited, Working
  <2>4. Load(n)
    BY <1>3, <2>2, <2>3
  <2>5. Rest(n) /\ Late(n)
    BY <2>2 DEF RowSame, Pending
  <2> QED
    BY <1>2, <2>2, <2>4, <2>5
<1>6. CASE MarkInProgress(r)
  <2>1. PICK n \in Numbers : num[r] = n
    BY <1>6, <1>t, OnNumber
  <2>2. /\ pc[r] = "mark" /\ num'[r] = n /\ RequestMoves(r)
        /\ snap'[r].msg = row[n].msg
        /\ Write(n, "in_progress", row[n].msg)
    BY <1>6, <1>t, <2>1, MarkInProgressFacts
  <2>3. /\ Rest(n) /\ row'[n].status = "in_progress" /\ row'[n].msg = row[n].msg
        /\ Settled(n)'
    BY <1>t, <2>2, WriteFacts DEF RowSame, Settled
  <2>4. Load(n)
    <3>1. Clean(n)' => Clean(n)
      BY <1>t, CleanBefore
    <3> QED
      BY <2>2, <2>3, <3>1 DEF RequestMoves, MessageOK
  <2>5. Paid(n)'
    <3>1. <<r, n>> \in paid
      BY <1>t, <2>1, <2>2, AwayIsPaid DEF InHand, Holding
    <3> QED
      BY <3>1 DEF Paid, Grows
  <2> QED
    BY <1>2, <2>2, <2>3, <2>4, <2>5
<1>7. CASE MarkQueued(r)
  <2>1. PICK n \in Numbers : num[r] = n
    BY <1>7, <1>t, OnNumber
  <2>2. /\ pc[r] = "queue" /\ pc'[r] = "enqueue" /\ RequestMoves(r)
        /\ Write(n, "queued", "none")
    BY <1>7, <1>t, <2>1, MarkQueuedFacts
  <2>3. Rest(n) /\ Late(n) /\ Settled(n)'
    BY <1>t, <2>2, WriteFacts DEF RowSame, Settled
  <2>4. InHand(r, n)
    BY <2>1, <2>2 DEF InHand, Holding
  <2>5. Load(n)
    BY <1>3, <1>t, <2>2, <2>4, NoOtherScraper
  <2> QED
    BY <1>2, <2>2, <2>3, <2>5
<1>8. CASE BulkQueue(r)
  <2>1. PICK n \in Numbers : num[r] = n
    BY <1>8, <1>t, OnNumber
  <2> DEFINE st == IF snap[r].status = "queued" THEN row[n].status ELSE "queued"
             msg == IF snap[r].msg = "none" THEN row[n].msg ELSE "none"
  <2>2. /\ pc[r] = "queue" /\ op[r] = "bulk" /\ pc'[r] = "next" /\ RequestMoves(r)
        /\ row[n].here
        /\ row' = row \/ Write(n, st, msg)
    BY <1>8, <1>t, <2>1, BulkQueueFacts
  <2>3. InHand(r, n)
    BY <2>1, <2>2 DEF InHand, Holding
  <2>4. Paid(n)'
    BY <1>t, <2>3, AwayIsPaid DEF Paid, Grows
  <2>5. CASE row' = row
    BY <1>1, <2>2, <2>5
  <2>6. CASE Write(n, st, msg)
    <3> HIDE DEF msg
    <3>1. Rest(n) /\ row'[n].here = row[n].here /\ row'[n].status = st
      BY <1>t, <2>6, WriteFacts DEF RowSame
    <3>2. Load(n)
      BY <1>3, <1>t, <2>2, <2>3, NoOtherScraper
    <3>3. CASE snap[r].status = "queued"
      <4>1. ASSUME Clean(n)' PROVE row[n].status \in {"queued", "in_progress"}
        <5>1. Clean(n)
          BY <1>t, <4>1, CleanBefore
        <5>2. Pending(n)
          BY <1>t, <2>1, <2>2, <3>3, <5>1 DEF FlightOK, Clean
        <5> QED
          BY <5>2 DEF Pending
      <4>2. Clean(n)' => Settled(n)'
        BY <3>1, <3>3, <4>1 DEF Settled
      <4> QED
        BY <1>2, <2>2, <2>4, <3>1, <3>2, <4>2
    <3>4. CASE snap[r].status # "queued"
      <4>1. Settled(n)'
        BY <3>1, <3>4 DEF Settled
      <4> QED
        BY <1>2, <2>2, <2>4, <3>1, <3>2, <4>1
    <3> QED
      BY <3>3, <3>4
  <2> QED
    BY <2>2, <2>5, <2>6
<1>9. CASE Deduct(r) \/ BulkLook(r)
  <2>1. PICK n \in Numbers : num[r] = n
    BY <1>9, <1>t, OnNumber
  <2>2. RequestMoves(r) /\ row' = row /\ pc'[r] # "scrape"
    BY <1>9, <1>t, <2>1, DeductFacts, BulkLookFacts
  <2> QED
    BY <1>1, <2>2
<1>10. CASE RecordEvent(r) \/ BulkNext(r) \/ EnqueueScrape(r)
  BY <1>10, <1>t, <1>1, RecordFacts, BulkNextFacts, EnqueueFacts
<1> QED
  BY <1>4, <1>5, <1>6, <1>7, <1>8, <1>9, <1>10 DEF RequestStep

\* A finite set with two different members has at least two.
LEMMA TwoMembers ==
    ASSUME NEW S, IsFiniteSet(S), NEW a \in S, NEW b \in S, a # b
    PROVE  Cardinality(S) >= 2
<1>1. IsFiniteSet({a}) /\ Cardinality({a}) = 1
  BY FS_Singleton
<1>2. IsFiniteSet({a} \cup {b}) /\ Cardinality({a} \cup {b}) = Cardinality({a}) + 1
  BY <1>1, FS_AddElement
<1>3. {a} \cup {b} \subseteq S
  OBVIOUS
<1>4. Cardinality({a} \cup {b}) <= Cardinality(S)
  BY <1>3, FS_Subset
<1>5. Cardinality(S) \in Nat
  BY FS_CardinalityType
<1> QED
  BY <1>1, <1>2, <1>4, <1>5

\* A scrape ends: unless it hid another one, it was alone with its row, and the
\* message it had loaded is still there.
LEMMA MessageSettles ==
    ASSUME FlightInv, LoadedOK, MessageOK, NEW p \in Procs, NEW n \in Numbers, num[p] = n,
           ScrapeEnds(p), Grows
    PROVE  MessageOK'
<1>t. TypeInv /\ ChargeInv /\ RowsOK /\ SpentOK
  BY DEF FlightInv, ChargeInv
<1>1. /\ pc[p] \in Working /\ OnlyMoves(p)
      /\ pc'[p] \in {"notify", "idle", "done"}
      /\ \/ UNCHANGED <<row, disowned>>
         \/ /\ Settles(p, n)
            /\ disowned' = disowned \cup (LiveTokens(n) \ {OwnToken(p)})
  BY <1>t, EndsFacts
<1>2. \A q \in Procs : LoadsNothing(q)
  BY <1>1 DEF OnlyMoves, LoadsNothing
<1>3. CASE UNCHANGED row
  <2>1. \A id \in sweep', m \in Numbers : id[1] = m /\ id[3] = "timeout" => Paid(m)
    BY <1>1 DEF OnlyMoves, MessageOK
  <2> QED
    BY <1>t, <1>2, <1>3, <2>1, MessageSame DEF RowSame
<1>4. CASE /\ Settles(p, n)
           /\ disowned' = disowned \cup (LiveTokens(n) \ {OwnToken(p)})
  <2>1. \A m \in Numbers \ {n} : RowSame(m)
    BY <1>4 DEF Settles, RowSame
  <2>2. row'[n].status \in {"no_data", "completed", "failed"}
    BY <1>4 DEF Settles, LoadedOK
  <2>3. ASSUME Clean(n)' PROVE Settled(n)'
    <3>1. Clean(n)
      BY <1>t, <2>3, CleanBefore
    <3>2. pc[p] = "scrape" => row[n].msg = snap[p].msg
      BY <3>1 DEF MessageOK
    <3> QED
      BY <1>4, <3>2 DEF Settles, LoadedOK, Settled
  <2>4. ASSUME NEW q \in Procs, pc'[q] = "scrape", num'[q] = n
        PROVE  ~Clean(n)'
    <3>1. q # p /\ pc[q] = "scrape" /\ num[q] = n
      BY <1>1, <1>2, <2>4 DEF LoadsNothing
    <3>2. PICK k \in Requests : Spends(q, k, n) /\ Scraping(k, n)
      BY <1>t, <3>1, ConstantsAssumption
      DEF Procs, Spends, Scraping, Working, TypeInv, PlaceOK
    <3>3. PICK a \in Requests : Spends(p, a, n) /\ OwnToken(p) = <<a, n>>
      BY <1>1, <1>t, ConstantsAssumption
      DEF Spends, OwnToken, Procs, Working, TypeInv, PlaceOK
    <3>4. a # k
      BY <1>t, <3>1, <3>2, <3>3 DEF SpentOK
    <3>5. <<k, n>> \in LiveTokens(n)
      BY <3>2, AwayIsLive DEF Away
    <3>6. <<k, n>> # <<a, n>>
      BY <3>4
    <3> QED
      BY <1>4, <3>3, <3>5, <3>6 DEF Clean
  <2>5. sweep' \subseteq sweep /\ ~Pending(n)'
    BY <1>1, <2>2 DEF OnlyMoves, Pending
  <2> QED
    BY <1>t, <1>2, <2>1, <2>3, <2>4, <2>5, MessageRow
<1> QED
  BY <1>1, <1>3, <1>4

LEMMA MessageStarts ==
    ASSUME FlightInv, MessageOK, NEW s \in Slots, StartJob(s), Grows
    PROVE  MessageOK'
<1>t. TypeInv /\ ChargeInv /\ RowsOK
  BY DEF FlightInv, ChargeInv
<1>1. /\ OnlyMoves(s) /\ pc[s] = "idle"
      /\ \E j \in queue : Takes(s, j) \/ UNCHANGED <<row, pc, num, snap>>
  BY <1>t, StartJobFacts
<1>2. CASE UNCHANGED <<row, pc, num, snap>>
  <2>1. \A id \in sweep', m \in Numbers : id[1] = m /\ id[3] = "timeout" => Paid(m)
    BY <1>1 DEF OnlyMoves, MessageOK
  <2> QED
    BY <1>t, <1>2, <2>1, MessageSame DEF RowSame, LoadsNothing
<1>3. ASSUME NEW j \in queue, Takes(s, j)
      PROVE  MessageOK'
  <2>1. PICK n \in Numbers, r \in Requests : n = j.num /\ r = j.by
    BY <1>t DEF TypeInv, TypeOK, Job
  <2>2. /\ pc'[s] = "scrape" /\ num'[s] = n /\ snap'[s].msg = row[n].msg
        /\ \/ row' = row /\ row[n].status = "in_progress"
           \/ Write(n, "in_progress", row[n].msg)
    BY <1>3, <2>1 DEF Takes
  <2>3. /\ \A m \in Numbers \ {n} : RowSame(m)
        /\ row'[n].status = "in_progress" /\ row'[n].msg = row[n].msg
    BY <1>t, <2>2, WriteFacts DEF RowSame
  <2>4. \A p \in Procs : LoadsNothing(p) \/ num'[p] = n
    BY <1>1, <2>2 DEF OnlyMoves, LoadsNothing
  <2>5. \A p \in Procs :
           pc'[p] = "scrape" /\ num'[p] = n /\ Clean(n)' => row'[n].msg = snap'[p].msg
    <3>1. Clean(n)' => Clean(n)
      BY <1>t, CleanBefore
    <3> QED
      BY <1>1, <2>2, <2>3, <3>1 DEF OnlyMoves, MessageOK
  <2>6. Paid(n)'
    <3>1. <<r, n>> \in paid
      BY <1>t, <2>1 DEF ChargeInv, ChargeInOnePlace, HeldUnspent, Queued
    <3> QED
      BY <3>1 DEF Paid, Grows
  <2>7. Settled(n)' /\ sweep' \subseteq sweep
    BY <1>1, <2>3 DEF Settled, OnlyMoves
  <2> QED
    BY <1>t, <2>3, <2>4, <2>5, <2>6, <2>7, MessageRow
<1> QED
  BY <1>1, <1>2, <1>3

\* The sweep fails a row it has read earlier: either it says "timeout", or the
\* row had been charged for before.
LEMMA MessageSwept ==
    ASSUME FlightInv, MessageOK, SweepWrite, Grows
    PROVE  MessageOK'
<1>t. TypeInv /\ ChargeInv /\ SpentOK
  BY DEF FlightInv, ChargeInv
<1>1. /\ NobodyMoved /\ sweep' = {}
      /\ \A id \in sweep : Contradicted(id) \subseteq disowned'
      /\ \A n \in Numbers :
            \/ row'[n] = row[n]
            \/ \E id \in sweep :
                  /\ id[1] = n /\ row'[n].status = "failed"
                  /\ row'[n].msg = IF id[3] = "timeout" THEN row[n].msg ELSE "timeout"
  BY <1>t, SweepWriteFacts
<1>2. \A m \in Numbers : Clean(m)' => Clean(m)
  BY <1>t, CleanBefore
<1>3. ASSUME NEW n \in Numbers, Clean(n)', row'[n].here
      PROVE  Settled(n)'
  <2>1. CASE row'[n] = row[n]
    BY <1>2, <1>3, <2>1 DEF MessageOK, Settled
  <2>2. CASE row'[n] # row[n]
    <3>1. PICK id \in sweep :
            /\ id[1] = n /\ row'[n].status = "failed"
            /\ row'[n].msg = IF id[3] = "timeout" THEN row[n].msg ELSE "timeout"
      BY <1>1, <2>2
    <3>2. ASSUME id[3] = "timeout" PROVE row[n].msg = "timeout"
      <4>1. PICK r \in Requests : <<r, n>> \in paid
        BY <3>1, <3>2 DEF MessageOK, Paid
      <4>2. <<r, n>>[2] = n /\ <<r, n>> \notin disowned'
        BY <1>3 DEF Clean
      <4>3. <<r, n>> \notin Contradicted(id)
        BY <1>1, <4>2
      <4> QED
        BY <3>1, <3>2, <4>1, <4>2, <4>3 DEF Contradicted
    <3>3. row'[n].msg = "timeout"
      BY <3>1, <3>2
    <3> QED
      BY <3>1, <3>3 DEF Settled
  <2> QED
    BY <2>1, <2>2
<1>4. ASSUME NEW p \in Procs, NEW n \in Numbers, pc'[p] = "scrape", num'[p] = n, Clean(n)'
      PROVE  row'[n].msg = snap'[p].msg
  <2>1. pc[p] = "scrape" /\ num[p] = n /\ snap'[p] = snap[p]
    BY <1>1, <1>4 DEF NobodyMoved
  <2>2. PICK k \in Requests : Spends(p, k, n) /\ Scraping(k, n)
    BY <1>t, <2>1, ConstantsAssumption
    DEF Procs, Spends, Scraping, Working, TypeInv, PlaceOK
  <2>3. <<k, n>> \in LiveTokens(n) /\ <<k, n>> \in paid /\ <<k, n>>[2] = n
    BY <1>t, <2>2, AwayIsLive, AwayIsPaid DEF Away
  <2>4. \A id \in sweep : id[1] = n => <<k, n>> \in Contradicted(id)
    BY <2>3 DEF Contradicted
  <2>5. \A id \in sweep : id[1] # n
    BY <1>1, <1>4, <2>4 DEF Clean
  <2>6. row'[n] = row[n]
    BY <1>1, <2>5
  <2> QED
    BY <1>2, <1>4, <2>1, <2>6 DEF MessageOK
<1>5. ASSUME NEW n \in Numbers, Pending(n)', row'[n].msg = "timeout"
      PROVE  Paid(n)'
  <2>1. row'[n] = row[n]
    BY <1>1, <1>5 DEF Pending
  <2>2. Paid(n)
    BY <1>5, <2>1 DEF MessageOK, Pending
  <2> QED
    BY <2>2 DEF Paid, Grows
<1> QED
  BY <1>1, <1>3, <1>4, <1>5 DEF MessageOK

LEMMA MessageNext ==
    ASSUME FlightInv, OneServer, LoadedOK, OneHolder, MessageOK, [Next]_vars
    PROVE  MessageOK'
<1>t. TypeInv /\ ChargeInv
  BY DEF FlightInv, ChargeInv
<1>g. Grows
  BY <1>t, GrowsNext
<1>1. CASE \E r \in Requests : ClientCalls(r) \/ RequestStep(r)
  BY <1>g, <1>1, MessageClient, MessageRequest
<1>2. ASSUME NEW p \in Procs, ScrapeEnds(p)
      PROVE  MessageOK'
  <2>1. PICK n \in Numbers : num[p] = n
    BY <1>2, <1>t DEF ScrapeEnds, ProviderMiss, ProviderHit, ProviderHitNotify, Notified,
      ScrapeRaises, TypeInv, PlaceOK, Procs
  <2> QED
    BY <1>g, <1>2, <2>1, MessageSettles
<1>3. CASE \E s \in Slots : StartJob(s)
  BY <1>g, <1>3, MessageStarts
<1>4. ASSUME sweep' \subseteq sweep, \A m \in Numbers : RowSame(m),
             \A p \in Procs : LoadsNothing(p)
      PROVE  MessageOK'
  <2>1. \A id \in sweep', m \in Numbers : id[1] = m /\ id[3] = "timeout" => Paid(m)
    BY <1>4 DEF MessageOK
  <2> QED
    BY <1>t, <1>g, <1>4, <2>1, MessageSame
<1>5. CASE SweepRead
  <2>1. /\ NobodyMoved /\ UNCHANGED row
        /\ \A id \in sweep', n \in Numbers : id[1] = n => Pending(n) /\ id[3] = row[n].msg
    BY <1>t, <1>5, SweepReadFacts
  <2>2. \A id \in sweep', m \in Numbers : id[1] = m /\ id[3] = "timeout" => Paid(m)
    BY <2>1 DEF MessageOK
  <2> QED
    BY <1>t, <1>g, <2>1, <2>2, MessageSame DEF RowSame, LoadsNothing, NobodyMoved
<1>6. CASE Tick
  <2>1. /\ NobodyMoved /\ UNCHANGED sweep
        /\ \A n \in Numbers : row'[n].status = row[n].status /\ row'[n].msg = row[n].msg
    BY <1>t, <1>6, TickFacts
  <2> QED
    BY <1>4, <2>1 DEF RowSame, LoadsNothing, NobodyMoved
<1>7. CASE AddCredits \/ (\E n \in Numbers : CacheExpires(n))
           \/ (\E id \in creating : TrackingIdSaved(id))
  <2>1. /\ NobodyMoved /\ UNCHANGED sweep
        /\ \A n \in Numbers : row'[n].status = row[n].status /\ row'[n].msg = row[n].msg
    BY <1>t, <1>7, ElseFacts
  <2> QED
    BY <1>4, <2>1 DEF RowSame, LoadsNothing, NobodyMoved
<1>8. CASE CrashWorker \/ (\E h \in Servers : CrashApi(h))
  <2>1. /\ UNCHANGED row /\ sweep' \subseteq sweep
        /\ \A p \in Procs :
              \/ pc'[p] = pc[p] /\ num'[p] = num[p] /\ snap'[p] = snap[p]
              \/ pc'[p] \in {"idle", "dead", "lost"}
    BY <1>t, <1>8, CrashFacts
  <2> QED
    BY <1>4, <2>1 DEF RowSame, LoadsNothing
<1>9. CASE UNCHANGED vars
  BY <1>4, <1>9 DEF vars, envVars, RowSame, LoadsNothing
<1> QED
  BY <1>g, <1>1, <1>2, <1>3, <1>5, <1>6, <1>7, <1>8, <1>9, MessageSwept DEF Next, Environment

MessageInv == FlightInv /\ LoadedOK /\ OneHolder /\ MessageOK

LEMMA MessageInvariant == OneServer => (Spec => []MessageInv)
<1>1. Init => LoadedOK /\ OneHolder /\ MessageOK
  <2> SUFFICES ASSUME Init PROVE LoadedOK /\ OneHolder /\ MessageOK
    OBVIOUS
  <2>1. \A p \in Procs : pc[p] = "idle"
    BY DEF Init
  <2>2. \A n \in Numbers : ~row[n].here
    BY DEF Init, NoRow
  <2>3. \A r \in Requests, n \in Numbers : ~Holder(r, n)
    BY <2>1, InProcs DEF Init, Holder, InHand, Holding, Away, ToSend, Queued, Scraping
  <2> QED
    BY <2>1, <2>2, <2>3 DEF Init, LoadedOK, OneHolder, MessageOK, Pending
<1>2. ASSUME OneServer
      PROVE  FlightInv /\ LoadedOK /\ OneHolder /\ MessageOK /\ [Next]_vars
             => (LoadedOK /\ OneHolder /\ MessageOK)'
  <2> SUFFICES ASSUME FlightInv, LoadedOK, OneHolder, MessageOK, [Next]_vars
               PROVE  (LoadedOK /\ OneHolder /\ MessageOK)'
    OBVIOUS
  <2>1. TypeInv /\ OpOK /\ RowsOK
    BY DEF FlightInv, ChargeInv
  <2> QED
    BY <1>2, <2>1, LoadedNext, OneHolderNext, MessageNext
<1>3. CASE OneServer
  <2>1. FlightInv /\ LoadedOK /\ OneHolder /\ MessageOK /\ [Next]_vars
             => (LoadedOK /\ OneHolder /\ MessageOK)'
    BY <1>2, <1>3
  <2>2. Spec => []FlightInv
    BY <1>3, FlightInvariant
  <2> QED
    BY <1>1, <2>1, <2>2, PTL DEF Spec, MessageInv
<1> QED
  BY <1>3

\* What the customer reads agrees with the status (the status columns written
\* by ContainerService._record_attempt and by sweep_stuck_scrapes): on a row
\* that had one live scrape at a time and that no sweep has failed over a
\* scrape or a result, a result has no message, a miss and a failure have
\* theirs.
THEOREM MessagesAgree == OneServer => (Spec => []SettledMessage)
<1>1. MessageInv => SettledMessage
  <2> SUFFICES ASSUME MessageInv, NEW n \in Numbers, row[n].here, ~DoubledByBulk(n),
                      ~(\E t \in disowned : t[2] = n)
               PROVE  Settled(n)
    BY DEF SettledMessage, Settled
  <2>1. PaidFor(n) \in SUBSET Tokens /\ IsFiniteSet(PaidFor(n))
    <3>1. PaidFor(n) \in SUBSET Tokens
      BY DEF PaidFor, MessageInv, FlightInv, ChargeInv, TypeInv, TypeOK
    <3> QED
      BY <3>1, TokensFinite, FS_Subset
  <2>2. \A r \in Requests : <<r, n>> \notin disowned
    OBVIOUS
  <2>3. ASSUME NEW q \in Requests, NEW r \in Requests, <<q, n>> \in paid, <<r, n>> \in paid,
               op[q] = "bulk", q # r
        PROVE  FALSE
    <3>1. <<q, n>> \in PaidFor(n) /\ <<r, n>> \in PaidFor(n) /\ <<q, n>> # <<r, n>>
      BY <2>3 DEF PaidFor
    <3>2. Cardinality(PaidFor(n)) >= 2
      BY <2>1, <3>1, TwoMembers
    <3>3. <<q, n>>[1] = q
      OBVIOUS
    <3> QED
      BY <2>3, <3>1, <3>2, <3>3 DEF DoubledByBulk
  <2>4. Clean(n)
    BY <2>2, <2>3 DEF Clean
  <2> QED
    BY <2>4 DEF MessageInv, MessageOK
<1> QED
  BY <1>1, MessageInvariant, PTL

-----------------------------------------------------------------------------
(* No lone job is swept. *)

\* The scrapes of number m are the same as before.
SameScrapes(m) ==
    \A p \in Procs :
        /\ (pc'[p] = "scrape" /\ num'[p] = m) <=> (pc[p] = "scrape" /\ num[p] = m)
        /\ p \in Slots /\ pc'[p] = "scrape" /\ num'[p] = m => jobAge'[p] >= jobAge[p]

\* Nothing about number m changes, unless its row is written and is young.
LEMMA YoungSame ==
    ASSUME TypeInv, TypeInv', NEW m \in Numbers, YoungAt(m), SameScrapes(m), RowSame(m),
           row'[m].age \in {row[m].age, 0}
    PROVE  YoungAt(m)'
<1>1. \A P \in SUBSET Procs : Scraped(m, P)' <=> Scraped(m, P)
  BY DEF Scraped, SameScrapes
<1>2. Pending(m)' <=> Pending(m)
  BY DEF RowSame, Pending
<1>3. row'[m].here /\ row'[m].status = "in_progress" => Scraped(m, Procs)'
  BY <1>1 DEF YoungAt, RowSame
<1>4. ASSUME NEW s \in Slots, pc'[s] = "scrape", num'[s] = m, Pending(m)'
      PROVE  row'[m].age <= jobAge'[s] \/ Scraped(m, Procs \ {s})'
  <2>1. jobAge[s] \in Nat /\ jobAge'[s] \in Nat /\ jobAge'[s] >= jobAge[s] /\ row[m].age \in Nat
    BY <1>4, InProcs, ConstantsAssumption, AgeIsNat DEF SameScrapes, TypeInv, TypeOK
  <2>2. row[m].age <= jobAge[s] \/ Scraped(m, Procs \ {s})
    BY <1>2, <1>4, InProcs DEF YoungAt, SameScrapes
  <2> QED
    BY <1>1, <2>1, <2>2
<1> QED
  BY <1>3, <1>4 DEF YoungAt

\* The row has just been written.
LEMMA YoungWritten ==
    ASSUME TypeInv', NEW m \in Numbers, row'[m].age = 0,
           row'[m].here /\ row'[m].status = "in_progress" => Scraped(m, Procs)'
    PROVE  YoungAt(m)'
<1>1. \A s \in Slots : row'[m].age <= jobAge'[s]
  BY ConstantsAssumption DEF TypeInv, TypeOK
<1> QED
  BY <1>1 DEF YoungAt

LEMMA YoungSettled ==
    ASSUME NEW m \in Numbers, ~Pending(m)'
    PROVE  YoungAt(m)'
  BY DEF YoungAt, Pending

LEMMA YoungClient ==
    ASSUME TypeInv, TypeInv', OneServer, YoungOK, NEW r \in Requests, ClientCalls(r)
    PROVE  YoungOK'
<1>1. ASSUME RequestMoves(r), pc[r] = "idle", pc'[r] # "scrape", NEW m \in Numbers,
             RowSame(m), row'[m].age \in {row[m].age, 0}
      PROVE  YoungAt(m)'
  <2>1. SameScrapes(m)
    BY <1>1, ConstantsAssumption DEF RequestMoves, SameScrapes, TypeInv, TypeOK
  <2> QED
    BY <1>1, <2>1, YoungSame DEF YoungOK
<1>2. ASSUME NEW n \in Numbers, Track(r, n) \/ GetOrRefresh(r, n) \/ RequestRefresh(r, n)
      PROVE  YoungOK'
  <2>1. pc[r] = "idle" /\ RequestMoves(r) /\ UNCHANGED row /\ pc'[r] # "scrape"
    BY <1>2, AskFacts
  <2> QED
    BY <1>1, <2>1 DEF RowSame, YoungOK
<1>3. ASSUME NEW n \in Numbers, StopTracking(r, n)
      PROVE  YoungOK'
  BY <1>1, <1>3, StopFacts DEF RowSame, YoungOK
<1>4. ASSUME NEW S \in SUBSET Numbers, QueueBulk(r, S)
      PROVE  YoungOK'
  BY <1>1, <1>4, QueueBulkFacts DEF RowSame, YoungOK
<1> QED
  BY <1>2, <1>3, <1>4 DEF ClientCalls

LEMMA YoungRequest ==
    ASSUME TypeInv, TypeInv', OneServer, OpOK, RowsOK, YoungOK, NEW r \in Requests, RequestStep(r)
    PROVE  YoungOK'
<1>1. ASSUME RequestMoves(r), NEW m \in Numbers, row'[m] = row[m], pc[r] # "scrape",
             ~(pc'[r] = "scrape" /\ num'[r] = m)
      PROVE  YoungAt(m)'
  <2>1. SameScrapes(m)
    BY <1>1, ConstantsAssumption DEF RequestMoves, SameScrapes, TypeInv, TypeOK
  <2> QED
    BY <1>1, <2>1, YoungSame DEF YoungOK, RowSame
<1>2. ASSUME RequestMoves(r), row' = row, pc[r] # "scrape", pc'[r] # "scrape"
      PROVE  YoungOK'
  BY <1>1, <1>2 DEF YoungOK
<1>3. ASSUME NEW n \in Numbers, RequestMoves(r), pc[r] # "scrape",
             pc'[r] = "scrape" => num'[r] = n,
             \A m \in Numbers \ {n} : row'[m] = row[m], YoungAt(n)'
      PROVE  YoungOK'
  BY <1>1, <1>3 DEF YoungOK
<1>4. CASE CreateAndDeduct(r) \/ BulkInsert(r)
  <2>1. PICK n \in Numbers : num[r] = n
    BY <1>4, OnNumber
  <2>2. /\ ~row[n].here /\ Inserted(n)
        /\ RequestMoves(r) /\ pc[r] # "scrape" /\ pc'[r] # "scrape"
    BY <1>4, <2>1, CreateFacts, BulkInsertFacts
  <2>3. \A p \in Procs : ~(pc[p] = "scrape" /\ num[p] = n)
    BY <2>2 DEF RowsOK, Exists, Working
  <2>4. \A p \in Procs : ~(pc'[p] = "scrape" /\ num'[p] = n)
    BY <2>2, <2>3 DEF RequestMoves
  <2>5. YoungAt(n)'
    BY <2>2, <2>4, InProcs DEF YoungAt, Inserted
  <2> QED
    BY <1>3, <2>2, <2>5 DEF Inserted
<1>5. CASE DeleteUncharged(r)
  <2>1. PICK n \in Numbers : num[r] = n
    BY <1>5, OnNumber
  <2>2. /\ pc[r] = "undo" /\ pc'[r] = "done" /\ RequestMoves(r)
        /\ ~row'[n].here
        /\ \A m \in Numbers \ {n} : row'[m] = row[m]
    BY <1>5, <2>1, DeleteFacts
  <2>3. YoungAt(n)'
    BY <2>2, YoungSettled DEF Pending
  <2> QED
    BY <1>3, <2>2, <2>3
<1>6. CASE MarkInProgress(r)
  <2>1. PICK n \in Numbers : num[r] = n
    BY <1>6, OnNumber
  <2>2. /\ pc[r] = "mark" /\ pc'[r] = "scrape" /\ num'[r] = n /\ RequestMoves(r)
        /\ Write(n, "in_progress", row[n].msg)
    BY <1>6, <2>1, MarkInProgressFacts
  <2>3. row'[n].age = 0 /\ \A m \in Numbers \ {n} : row'[m] = row[m]
    BY <2>2, WriteFacts
  <2>4. Scraped(n, Procs)'
    BY <2>2, InProcs DEF Scraped
  <2>5. YoungAt(n)'
    BY <2>3, <2>4, YoungWritten
  <2> QED
    BY <1>3, <2>2, <2>3, <2>5
<1>7. CASE MarkQueued(r)
  <2>1. PICK n \in Numbers : num[r] = n
    BY <1>7, OnNumber
  <2>2. /\ pc[r] = "queue" /\ pc'[r] = "enqueue" /\ RequestMoves(r)
        /\ Write(n, "queued", "none")
    BY <1>7, <2>1, MarkQueuedFacts
  <2>3. /\ row'[n].age = 0 /\ row'[n].status = "queued"
        /\ \A m \in Numbers \ {n} : row'[m] = row[m]
    BY <2>2, WriteFacts
  <2>4. YoungAt(n)'
    BY <2>3, YoungWritten
  <2> QED
    BY <1>3, <2>2, <2>3, <2>4
<1>8. CASE BulkQueue(r)
  <2>1. PICK n \in Numbers : num[r] = n
    BY <1>8, OnNumber
  <2>2. /\ pc[r] = "queue" /\ pc'[r] = "next" /\ RequestMoves(r)
        /\ row' = row \/ \E status \in {row[n].status, "queued"} : \E msg : Write(n, status, msg)
    BY <1>8, <2>1, BulkQueueFacts
  <2>3. CASE row' = row
    BY <1>2, <2>2, <2>3
  <2>4. CASE \E status \in {row[n].status, "queued"} : \E msg : Write(n, status, msg)
    <3>1. /\ row'[n].age = 0 /\ row'[n].status \in {row[n].status, "queued"}
          /\ row'[n].here = row[n].here
          /\ \A m \in Numbers \ {n} : row'[m] = row[m]
      BY <2>4, WriteFacts
    <3>2. Scraped(n, Procs) => Scraped(n, Procs)'
      BY <2>2 DEF Scraped, RequestMoves
    <3>3. row'[n].here /\ row'[n].status = "in_progress" => Scraped(n, Procs)'
      BY <3>1, <3>2 DEF YoungOK, YoungAt
    <3>4. YoungAt(n)'
      BY <3>1, <3>3, YoungWritten
    <3> QED
      BY <1>3, <2>2, <3>1, <3>4
  <2> QED
    BY <2>2, <2>3, <2>4
<1>9. CASE Deduct(r) \/ BulkLook(r)
  <2>1. PICK n \in Numbers : num[r] = n
    BY <1>9, OnNumber
  <2>2. RequestMoves(r) /\ row' = row /\ pc[r] # "scrape" /\ pc'[r] # "scrape"
    BY <1>9, <2>1, DeductFacts, BulkLookFacts
  <2> QED
    BY <1>2, <2>2
<1>10. CASE RecordEvent(r) \/ BulkNext(r) \/ EnqueueScrape(r)
  BY <1>10, <1>2, RecordFacts, BulkNextFacts, EnqueueFacts
<1> QED
  BY <1>4, <1>5, <1>6, <1>7, <1>8, <1>9, <1>10 DEF RequestStep

LEMMA YoungStarts ==
    ASSUME TypeInv, TypeInv', RowsOK, YoungOK, NEW s \in Slots, StartJob(s)
    PROVE  YoungOK'
<1>1. pc[s] = "idle" /\ OnlyMoves(s) /\ jobAge' = jobAge
  BY StartJobFacts
<1>2. ASSUME NEW m \in Numbers, row'[m] = row[m], ~(pc'[s] = "scrape" /\ num'[s] = m)
      PROVE  YoungAt(m)'
  <2>1. SameScrapes(m)
    BY <1>1, <1>2, InProcs, ConstantsAssumption DEF OnlyMoves, SameScrapes, TypeInv, TypeOK
  <2> QED
    BY <1>2, <2>1, YoungSame DEF RowSame, YoungOK
<1>3. CASE UNCHANGED <<row, pc, num>>
  BY <1>1, <1>2, <1>3, InProcs DEF YoungOK
<1>4. ASSUME NEW j \in queue, Takes(s, j)
      PROVE  YoungOK'
  <2>1. PICK n \in Numbers : n = j.num
    BY DEF TypeInv, TypeOK, Job
  <2>2. /\ pc'[s] = "scrape" /\ num'[s] = n
        /\ \/ row' = row /\ row[n].here /\ row[n].status = "in_progress"
           \/ Write(n, "in_progress", row[n].msg)
    BY <1>4, <2>1 DEF Takes
  <2>3. \A m \in Numbers \ {n} : row'[m] = row[m]
    BY <2>2, WriteFacts
  <2>4. CASE Write(n, "in_progress", row[n].msg)
    <3>1. row'[n].age = 0
      BY <2>4, WriteFacts
    <3>2. Scraped(n, Procs)'
      BY <2>2, InProcs DEF Scraped
    <3> QED
      BY <3>1, <3>2, YoungWritten, <1>2, <2>2, <2>3 DEF YoungOK
  <2>5. CASE row' = row /\ row[n].here /\ row[n].status = "in_progress"
    <3>1. PICK p \in Procs : pc[p] = "scrape" /\ num[p] = n
      BY <2>5 DEF YoungOK, YoungAt, Scraped
    <3>2. p # s /\ pc'[p] = "scrape" /\ num'[p] = n
      BY <1>1, <3>1 DEF OnlyMoves
    <3>3. \A P \in SUBSET Procs : Scraped(n, P) => Scraped(n, P)'
      BY <1>1, InProcs DEF Scraped, OnlyMoves
    <3>4. Scraped(n, Procs)' /\ Scraped(n, Procs \ {s})'
      BY <3>2 DEF Scraped
    <3>5. ASSUME NEW t \in Slots, t # s, pc'[t] = "scrape", num'[t] = n, Pending(n)'
          PROVE  row'[n].age <= jobAge'[t] \/ Scraped(n, Procs \ {t})'
      <4>1. pc[t] = "scrape" /\ num[t] = n /\ Pending(n)
        BY <1>1, <2>5, <3>5, InProcs DEF OnlyMoves, Pending
      <4> QED
        BY <1>1, <2>5, <3>3, <4>1 DEF YoungOK, YoungAt
    <3>6. YoungAt(n)'
      BY <3>4, <3>5 DEF YoungAt
    <3> QED
      BY <1>2, <2>2, <2>3, <3>6 DEF YoungOK
  <2> QED
    BY <2>2, <2>4, <2>5
<1> QED
  BY <1>3, <1>4, StartJobFacts

LEMMA YoungEnds ==
    ASSUME TypeInv, TypeInv', RowsOK, LoadedOK, YoungOK, NEW p \in Procs, ScrapeEnds(p)
    PROVE  YoungOK'
<1>1. PICK n \in Numbers : num[p] = n
  BY DEF ScrapeEnds, ProviderMiss, ProviderHit, ProviderHitNotify, Notified,
    ScrapeRaises, TypeInv, PlaceOK, Procs
<1>2. /\ OnlyMoves(p) /\ pc'[p] # "scrape"
      /\ \A s \in Slots \ {p} : jobAge'[s] = jobAge[s]
      /\ \/ pc[p] = "notify" /\ row' = row
         \/ Settles(p, n)
  BY <1>1, EndsFacts
<1>3. ASSUME NEW m \in Numbers, row'[m] = row[m], ~(pc[p] = "scrape" /\ num[p] = m)
      PROVE  YoungAt(m)'
  <2>1. SameScrapes(m)
    BY <1>2, <1>3, InProcs, ConstantsAssumption DEF OnlyMoves, SameScrapes, TypeInv, TypeOK
  <2> QED
    BY <1>3, <2>1, YoungSame DEF RowSame, YoungOK
<1>4. CASE pc[p] = "notify" /\ row' = row
  BY <1>3, <1>4 DEF YoungOK
<1>5. CASE Settles(p, n)
  <2>1. row'[n].status \in {"no_data", "completed", "failed"}
    BY <1>5 DEF Settles, LoadedOK
  <2>2. ~Pending(n)'
    BY <2>1 DEF Pending
  <2>3. \A m \in Numbers \ {n} : row'[m] = row[m]
    BY <1>5 DEF Settles
  <2> QED
    BY <1>1, <1>3, <2>2, <2>3, YoungSettled DEF YoungOK
<1> QED
  BY <1>2, <1>4, <1>5

LEMMA YoungNext ==
    ASSUME TypeInv, TypeInv', OneServer, MaxApiCrashes = 0, MaxJobCrashes = 0,
           OpOK, RowsOK, LoadedOK, YoungOK, [Next]_vars
    PROVE  YoungOK'
<1>1. CASE \E r \in Requests : ClientCalls(r) \/ RequestStep(r)
  BY <1>1, YoungClient, YoungRequest
<1>2. CASE \E p \in Procs : ScrapeEnds(p)
  BY <1>2, YoungEnds
<1>3. CASE \E s \in Slots : StartJob(s)
  BY <1>3, YoungStarts
<1>4. ASSUME UNCHANGED <<pc, num, jobAge>>, NEW m \in Numbers, RowSame(m),
             row'[m].age \in {row[m].age, 0}
      PROVE  YoungAt(m)'
  <2>1. SameScrapes(m)
    BY <1>4, ConstantsAssumption DEF SameScrapes, TypeInv, TypeOK
  <2> QED
    BY <1>4, <2>1, YoungSame DEF YoungOK
<1>5. CASE SweepRead
  BY <1>4, <1>5, SweepReadFacts DEF NobodyMoved, RowSame, YoungOK
<1>6. CASE SweepWrite
  <2> SUFFICES ASSUME NEW m \in Numbers PROVE YoungAt(m)'
    BY DEF YoungOK
  <2>1. UNCHANGED <<pc, num, jobAge>> /\ (row'[m] = row[m] \/ row'[m].status = "failed")
    BY <1>6, SweepWriteFacts DEF NobodyMoved
  <2>2. CASE row'[m] = row[m]
    BY <1>4, <2>1, <2>2 DEF RowSame
  <2>3. CASE row'[m].status = "failed"
    BY <2>3, YoungSettled DEF Pending
  <2> QED
    BY <2>1, <2>2, <2>3
<1>7. CASE Tick
  <2> SUFFICES ASSUME NEW m \in Numbers PROVE YoungAt(m)'
    BY DEF YoungOK
  <2>1. /\ UNCHANGED <<pc, num>>
        /\ \A s \in Slots : jobAge'[s] = IF pc[s] = "idle" THEN 0 ELSE jobAge[s] + 1
        /\ RowSame(m) /\ row'[m].age \in {row[m].age, row[m].age + 1}
    BY <1>7, TickFacts DEF NobodyMoved, RowSame
  <2>2. \A P \in SUBSET Procs : Scraped(m, P)' <=> Scraped(m, P)
    BY <2>1 DEF Scraped
  <2>3. Pending(m)' <=> Pending(m)
    BY <2>1 DEF Pending, RowSame
  <2>4. ASSUME NEW s \in Slots, pc'[s] = "scrape", num'[s] = m, Pending(m)'
        PROVE  row'[m].age <= jobAge'[s] \/ Scraped(m, Procs \ {s})'
    <3>1. row[m].age <= jobAge[s] \/ Scraped(m, Procs \ {s})
      BY <2>1, <2>3, <2>4 DEF YoungOK, YoungAt
    <3>2. jobAge[s] \in Nat /\ row[m].age \in Nat /\ jobAge'[s] = jobAge[s] + 1
      BY <2>1, <2>4, ConstantsAssumption, AgeIsNat DEF TypeInv, TypeOK
    <3> QED
      BY <2>1, <2>2, <3>1, <3>2
  <2>5. row'[m].here /\ row'[m].status = "in_progress" => Scraped(m, Procs)'
    BY <2>1, <2>2 DEF YoungOK, YoungAt, RowSame
  <2> QED
    BY <2>4, <2>5 DEF YoungAt
<1>8. CASE AddCredits \/ (\E n \in Numbers : CacheExpires(n))
           \/ (\E id \in creating : TrackingIdSaved(id))
  BY <1>4, <1>8, ElseFacts DEF NobodyMoved, RowSame, YoungOK
<1>9. CASE CrashWorker \/ (\E h \in Servers : CrashApi(h))
  <2>1. crashes \in [api : Nat, worker : Nat]
    BY DEF TypeInv, TypeOK
  <2>2. crashes.api \in Nat /\ crashes.worker \in Nat
    BY <2>1
  <2> QED
    BY <1>9, <2>2 DEF CrashWorker, CrashApi
<1>10. CASE UNCHANGED vars
  BY <1>4, <1>10 DEF vars, jobVars, RowSame, YoungOK
<1> QED
  BY <1>1, <1>2, <1>3, <1>5, <1>6, <1>7, <1>8, <1>9, <1>10 DEF Next, Environment

\* Nothing but find_stuck puts a row before the sweep.
LEMMA OnlySweepReads ==
    ASSUME TypeInv, [Next]_vars, ~(sweep' \subseteq sweep)
    PROVE  SweepRead
<1>1. CASE \E r \in Requests : ClientCalls(r)
  BY <1>1, ZenonT(40) DEF ClientCalls, Track, GetOrRefresh, RequestRefresh, Submit, StopTracking, QueueBulk,
    envVars
<1>2. CASE \E r \in Requests : RequestStep(r)
  BY <1>2 DEF RequestStep, CreateAndDeduct, Deduct, DeleteUncharged, RecordEvent, MarkInProgress,
    MarkQueued, BulkNext, BulkLook, BulkInsert, BulkQueue, EnqueueScrape, envVars
<1>3. CASE \E p \in Procs : ScrapeEnds(p)
  BY <1>3 DEF ScrapeEnds, ProviderMiss, ProviderHit, ProviderHitNotify, Notified, ScrapeRaises,
    envVars
<1>4. CASE (\E s \in Slots : StartJob(s)) \/ SweepWrite
  BY <1>4 DEF StartJob, SweepWrite, envVars
<1>5. CASE Tick
  BY <1>5, TickFacts
<1>6. CASE AddCredits \/ (\E n \in Numbers : CacheExpires(n))
           \/ (\E id \in creating : TrackingIdSaved(id))
  BY <1>6, ElseFacts
<1>7. CASE CrashWorker \/ (\E h \in Servers : CrashApi(h))
  BY <1>7, CrashFacts
<1>8. CASE UNCHANGED vars
  BY <1>8 DEF vars, envVars
<1> QED
  BY <1>1, <1>2, <1>3, <1>4, <1>5, <1>6, <1>7, <1>8 DEF Next, Environment

\* The cron sweep never picks the row of a running job that is alone with it
\* (scrape_stuck_threshold_s against scrape_job_timeout_s, config.py): the
\* row's updated_at is as young as the job, which is not older than its
\* timeout.  A process that dies leaves a row in progress whose next job does
\* not move it, so the promise is made of histories without a crash.
THEOREM LoneJobsAreNotSwept ==
    OneServer /\ MaxApiCrashes = 0 /\ MaxJobCrashes = 0 /\ JobTimeout <= StuckAfter
    => (Spec => LoneJobNotSwept)
<1> SUFFICES ASSUME OneServer, MaxApiCrashes = 0, MaxJobCrashes = 0, JobTimeout <= StuckAfter
             PROVE  Spec => LoneJobNotSwept
  OBVIOUS
<1>1. Init => YoungOK
  <2> SUFFICES ASSUME Init PROVE YoungOK
    OBVIOUS
  <2>1. \A n \in Numbers : ~row[n].here
    BY DEF Init, NoRow
  <2> QED
    BY <2>1 DEF YoungOK, YoungAt, Pending
<1>2. MessageInv /\ TypeInv' /\ YoungOK /\ [Next]_vars => YoungOK'
  BY YoungNext DEF MessageInv, FlightInv, ChargeInv
<1>3. MessageInv => TypeInv
  BY DEF MessageInv, FlightInv, ChargeInv
<1>4. Spec => []MessageInv
  BY MessageInvariant
<1>5. Spec => []YoungOK
  BY <1>1, <1>2, <1>3, <1>4, PTL DEF Spec
<1>6. ASSUME TypeInv, YoungOK, [Next]_vars, NEW s \in Slots, pc[s] = "scrape",
             NEW id \in sweep' \ sweep, id[1] = num[s]
      PROVE  \E p \in Procs \ {s} : pc[p] = "scrape" /\ num[p] = num[s]
  <2>1. PICK n \in Numbers : num[s] = n
    BY <1>6, InProcs DEF TypeInv, PlaceOK, TypeOK
  <2>2. SweepRead
    BY <1>6, OnlySweepReads
  <2>3. Pending(n) /\ Stuck(n)
    BY <1>6, <2>1, <2>2, SweepReadFacts
  <2>4. row[n].age > jobAge[s]
    <3>1. jobAge[s] \in Nat /\ jobAge[s] <= JobTimeout /\ row[n] \in Row
      BY <1>6, ConstantsAssumption DEF TypeInv, TypeOK
    <3>2. row[n].age \in Nat /\ row[n].age > StuckAfter
      BY <2>3, <3>1, AgeIsNat DEF Stuck
    <3> QED
      BY <3>1, <3>2, ConstantsAssumption
  <2>5. row[n].age <= jobAge[s] \/ Scraped(n, Procs \ {s})
    BY <1>6, <2>1, <2>3 DEF YoungOK, YoungAt
  <2>6. jobAge[s] \in Nat /\ row[n].age \in Nat
    BY ConstantsAssumption, AgeIsNat, <1>6 DEF TypeInv, TypeOK
  <2> QED
    BY <2>1, <2>4, <2>5, <2>6 DEF Scraped
<1>7. TypeInv /\ YoungOK /\ [Next]_vars
      => [\A s \in Slots :
            pc[s] = "scrape" /\ (\E id \in sweep' \ sweep : id[1] = num[s])
            => \E p \in Procs \ {s} : pc[p] = "scrape" /\ num[p] = num[s]]_vars
  BY <1>6
<1> QED
  BY <1>3, <1>4, <1>5, <1>7, PTL DEF Spec, LoneJobNotSwept
=============================================================================

----------------------------- MODULE GoCometLookups -----------------------------
(***************************************************************************)
(* Lookups of one container through GoComet.  GoComet sells tracking       *)
(* records out of a monthly quota: a POST creates one, and it is polled    *)
(* until the carrier's answer is in.  GoCometTracker.track runs in a       *)
(* worker thread; the coroutine that awaits it (GoCometHttpProvider.track) *)
(* gives up after 95 s, and the thread then goes on by itself.  The id of a *)
(* new record is written to the container's row at once, so that a later   *)
(* lookup can resume it instead of paying for another.                     *)
(*                                                                         *)
(* Time is abstract: a poll budget or the 95 s may run out at any moment.  *)
(* max_wait_total_s (3 h) is left out: max_rotations naps of at most 15 s  *)
(* end a lookup long before.                                               *)
(***************************************************************************)
EXTENDS Integers, FiniteSets

CONSTANTS
    Lookups,         \* calls of GoCometHttpProvider.track for the container
    MaxRotations,    \* TrackerConfig.max_rotations
    MaxRecords,      \* bound: the records that GoComet ever creates
    MaxCrashes       \* bound: deaths of the process

ASSUME GoCometAssumption ==
    /\ MaxRotations \in Nat
    /\ MaxRecords \in Nat \ {0}
    /\ MaxCrashes \in Nat

Records  == 1..MaxRecords
NoRecord == 0

VARIABLES
    row,        \* TrackedContainer.provider_tracking_id
    record,     \* GoComet's records: status, and "free" before, "gone" after
    call,       \* the coroutine of a lookup
    answer,     \* its result: hit or miss, and the tracking id
    thread,     \* the worker thread of a lookup
    told,       \* history: the records a lookup resumed or announced
    crashes

vars == <<row, record, call, answer, thread, told, crashes>>

Live(i)  == record[i] \in {"pending", "final"}
NoAnswer == [ok |-> FALSE, id |-> NoRecord]
NoThread == [pc |-> "none", resume |-> NoRecord, id |-> NoRecord,
             rotations |-> 0, limited |-> FALSE, result |-> NoAnswer]
Working  == {"resume", "create", "announce", "report", "poll"}

Init ==
    /\ row = NoRecord
    /\ record = [i \in Records |-> "free"]
    /\ call = [l \in Lookups |-> "idle"]
    /\ answer = [l \in Lookups |-> NoAnswer]
    /\ thread = [l \in Lookups |-> NoThread]
    /\ told = [l \in Lookups |-> {}]
    /\ crashes = 0

-----------------------------------------------------------------------------
(* The coroutine. *)

\* asyncio.to_thread(_track_sync, number, resume_id = the row's id, ...).
Begin(l) ==
    /\ call[l] = "idle"
    /\ call' = [call EXCEPT ![l] = "waiting"]
    /\ thread' = [thread EXCEPT ![l] =
                    [NoThread EXCEPT !.pc = IF row = NoRecord THEN "create" ELSE "resume",
                                     !.resume = row]]
    /\ told' = [told EXCEPT ![l] = {row} \ {NoRecord}]
    /\ UNCHANGED <<row, record, answer, crashes>>

\* The thread ended in time.  The registry hands a hit to ContainerService,
\* which assigns the id to the row it loaded (an equal value is not written);
\* of a miss it keeps nothing.
Receive(l) ==
    /\ call[l] = "waiting" /\ thread[l].pc = "ended"
    /\ call' = [call EXCEPT ![l] = "answered"]
    /\ answer' = [answer EXCEPT ![l] = thread[l].result]
    /\ row' = IF /\ thread[l].result.ok
                 /\ thread[l].result.id \notin {NoRecord, thread[l].resume}
              THEN thread[l].result.id ELSE row
    /\ thread' = [thread EXCEPT ![l].result = NoAnswer]
    /\ UNCHANGED <<record, told, crashes>>

\* asyncio.wait_for gives up; the thread cannot be stopped.
TimeOut(l) ==
    /\ call[l] = "waiting" /\ thread[l].pc \in Working
    /\ call' = [call EXCEPT ![l] = "answered"]
    /\ answer' = [answer EXCEPT ![l] = NoAnswer]
    /\ UNCHANGED <<row, record, thread, told, crashes>>

-----------------------------------------------------------------------------
(* GoCometTracker.track in the thread. *)

At(l, pc) == thread[l].pc = pc

\* track returns what _finalize made of the response, or raises.
\* After the 95 s nobody is left to read the result.
End(l, result) ==
    thread' = [thread EXCEPT ![l].pc = "ended", ![l].id = NoRecord, ![l].rotations = 0,
                             ![l].result = IF call[l] = "waiting" THEN result ELSE NoAnswer]
Raise(l) == End(l, NoAnswer)

\* _is_found: a final answer holds data or none (data_not_found, invalid,
\* marked_invalid); either carries the id.
Resolve(l, i) == \E found \in BOOLEAN : End(l, [ok |-> found, id |-> i])
GiveUp(l, i)  == End(l, [ok |-> FALSE, id |-> i])

\* Rotate to a fresh session and go on at pc, unless the rotations are used up.
RotateTo(l, pc) ==
    IF thread[l].rotations >= MaxRotations THEN Raise(l)
    ELSE thread' = [thread EXCEPT ![l].rotations = @ + 1, ![l].pc = pc]

\* Mutant: a resumed record that is still pending is given up for a new one.
PollResumedImpatient(l) ==
    /\ At(l, "resume")
    /\ LET i == thread[l].resume IN
        \/ record[i] = "final" /\ Resolve(l, i)
        \/ thread' = [thread EXCEPT ![l].pc = "create"]
    /\ UNCHANGED <<row, record, call, answer, told, crashes>>

\* Poll of the id handed in: no quota spent.
PollResumed(l) ==
    /\ At(l, "resume")
    /\ LET i == thread[l].resume IN
        \/ record[i] = "final" /\ Resolve(l, i)
        \/ record[i] = "pending" /\ GiveUp(l, i)              \* TimeoutError
        \/ /\ record[i] = "gone"                              \* TrackingNotFound
           /\ thread' = [thread EXCEPT ![l].pc = "create"]
        \/ IF thread[l].rotations >= MaxRotations THEN Raise(l)   \* RateLimited
           ELSE thread' = [thread EXCEPT ![l].rotations = @ + 1, ![l].limited = TRUE,
                                         ![l].pc = "create"]
        \/ Raise(l)                                           \* any other HTTP error
    /\ UNCHANGED <<row, record, call, answer, told, crashes>>

\* Mutant: a refused POST starts track over without counting it.
CreateRestarting(l) ==
    /\ At(l, "create")
    /\ thread' = [thread EXCEPT ![l].pc =
                     IF thread[l].resume = NoRecord THEN "create" ELSE "resume"]
    /\ UNCHANGED <<row, record, call, answer, told, crashes>>

\* The POST was refused, lost on the way, or answered without a record.
CreateNothing(l) ==
    /\ At(l, "create")
    /\ \/ RotateTo(l, "create")    \* RateLimited, RequestException
       \/ Raise(l)                 \* CarrierNotResolved; pending without an id
       \/ GiveUp(l, NoRecord)      \* invalid_tracking
    /\ UNCHANGED <<row, record, call, answer, told, crashes>>

\* Mutant: a new id is polled before it is announced.
CreateUnannounced(l, i) ==
    /\ At(l, "create")
    /\ record[i] = "free" /\ \A j \in Records : j < i => record[j] # "free"
    /\ record' = [record EXCEPT ![i] = "pending"]
    /\ thread' = [thread EXCEPT ![l].id = i, ![l].pc = "poll"]
    /\ UNCHANGED <<row, call, answer, told, crashes>>

\* GoComet creates record i, answered at once or still pending.
CreateRecord(l, i) ==
    /\ At(l, "create")
    /\ record[i] = "free" /\ \A j \in Records : j < i => record[j] # "free"
    /\ \E status \in {"pending", "final"} :
        /\ record' = [record EXCEPT ![i] = status]
        /\ thread' = [thread EXCEPT ![l].id = i,
                                    ![l].pc = IF status = "pending" THEN "announce"
                                              ELSE "report"]
    /\ UNCHANGED <<row, call, answer, told, crashes>>

\* GoComet creates record i and the response is lost or unreadable.
CreateUnheard(l, i) ==
    /\ At(l, "create")
    /\ record[i] = "free" /\ \A j \in Records : j < i => record[j] # "free"
    /\ record' = [record EXCEPT ![i] = "pending"]
    /\ RotateTo(l, "create") \/ Raise(l)
    /\ UNCHANGED <<row, call, answer, told, crashes>>

\* on_created: _persist_tracking_id_early commits the id, before any poll.
Announce(l) ==
    /\ \/ At(l, "announce") /\ thread' = [thread EXCEPT ![l].pc = "poll"]
       \/ At(l, "report") /\ Resolve(l, thread[l].id)
    /\ row' = thread[l].id
    /\ told' = [told EXCEPT ![l] = @ \cup {thread[l].id}]
    /\ UNCHANGED <<record, call, answer, crashes>>

\* Opening a session or the commit raises, out of track.
AnnounceFails(l) ==
    /\ At(l, "announce") \/ At(l, "report")
    /\ Raise(l)
    /\ UNCHANGED <<row, record, call, answer, told, crashes>>

\* Mutant: a rate limit while polling goes back to the create.
PollCreatedAnew(l) ==
    /\ At(l, "poll")
    /\ RotateTo(l, "create")
    /\ UNCHANGED <<row, record, call, answer, told, crashes>>

\* Poll of the record that this lookup created.
PollCreated(l) ==
    /\ At(l, "poll")
    /\ LET i == thread[l].id IN
        \/ record[i] = "final" /\ Resolve(l, i)
        \/ record[i] = "pending" /\ GiveUp(l, i)              \* TimeoutError
        \/ record[i] = "gone" /\ RotateTo(l, "create")        \* TrackingNotFound
        \/ RotateTo(l, "poll")                                \* RateLimited: same id
        \/ Raise(l)                                           \* any other HTTP error
    /\ UNCHANGED <<row, record, call, answer, told, crashes>>

-----------------------------------------------------------------------------
(* GoComet and the process. *)

CarrierAnswers(i) ==
    /\ record[i] = "pending"
    /\ record' = [record EXCEPT ![i] = "final"]
    /\ UNCHANGED <<row, call, answer, thread, told, crashes>>

\* GoComet drops a record: polls answer 404 from now on.
Expire(i) ==
    /\ Live(i)
    /\ record' = [record EXCEPT ![i] = "gone"]
    /\ UNCHANGED <<row, call, answer, thread, told, crashes>>

\* The process dies: coroutines and threads are lost, the row is not.
Crash ==
    /\ crashes < MaxCrashes
    /\ crashes' = crashes + 1
    /\ call' = [l \in Lookups |-> IF call[l] = "waiting" THEN "died" ELSE call[l]]
    /\ thread' = [l \in Lookups |-> IF thread[l].pc = "none" THEN thread[l]
                                    ELSE [NoThread EXCEPT !.pc = "ended",
                                                          !.resume = thread[l].resume]]
    /\ UNCHANGED <<row, record, answer, told>>

ThreadStep(l) ==
    \/ PollResumed(l) \/ CreateNothing(l) \/ Announce(l) \/ AnnounceFails(l)
    \/ PollCreated(l)
    \/ \E i \in Records : CreateRecord(l, i) \/ CreateUnheard(l, i)

CallStep(l) == Receive(l) \/ TimeOut(l)

Next ==
    \/ \E l \in Lookups : Begin(l) \/ CallStep(l) \/ ThreadStep(l)
    \/ \E i \in Records : CarrierAnswers(i) \/ Expire(i)
    \/ Crash

Spec == Init /\ [][Next]_vars

\* A thread runs until track returns or raises (each request has a timeout),
\* and the loop resumes the coroutine.
FairSpec ==
    /\ Spec
    /\ \A l \in Lookups : WF_vars(ThreadStep(l)) /\ WF_vars(CallStep(l))

-----------------------------------------------------------------------------
(* Properties. *)

Result == [ok : BOOLEAN, id : Records \cup {NoRecord}]
Pcs    == Working \cup {"none", "ended"}
Thread == [pc : Pcs, resume : Records \cup {NoRecord}, id : Records \cup {NoRecord},
           rotations : 0..MaxRotations, limited : BOOLEAN, result : Result]

TypeOK ==
    /\ row \in Records \cup {NoRecord}
    /\ record \in [Records -> {"free", "pending", "gone", "final"}]
    /\ call \in [Lookups -> {"idle", "waiting", "answered", "died"}]
    /\ answer \in [Lookups -> Result]
    /\ thread \in [Lookups -> Thread]
    /\ told \in [Lookups -> SUBSET Records]
    /\ crashes \in 0..MaxCrashes

\* One lookup pays for one record: of the records it announced, at most one is
\* still alive, however often it was limited, dropped or retried
\* (gocomet_http.py, track: "abandoning a paid-for id ... would waste GoComet's
\* monthly quota").
OneLiveRecord ==
    \A l \in Lookups :
        Cardinality({i \in told[l] \ {thread[l].resume} : Live(i)}) <= 1

\* The row gives up a paid record for another only when GoComet has dropped it,
\* or in favour of a lookup that was rate-limited while it resumed it, or of
\* one that had begun before the row held it (two lookups at once).
SavedRecordKept ==
    [][row # NoRecord /\ row' # row =>
          \/ record[row] = "gone"
          \/ \E l \in Lookups :
                /\ row' \in told'[l]
                /\ thread[l].limited \/ thread[l].resume # row]_vars

\* Every caller gets its answer and every thread comes to an end: no executor
\* thread is lost to a record that never resolves.
LookupsEnd ==
    \A l \in Lookups :
        call[l] = "waiting" ~> call[l] # "waiting" /\ thread[l].pc = "ended"

\* Refinement: the promises of the TrackingProvider protocol.
Protocol == INSTANCE TrackingProvider
    WITH phase <- call, known <- told, basis <- [l \in Lookups |-> answer[l].id]
KeepsProtocol == Protocol!Spec
=============================================================================

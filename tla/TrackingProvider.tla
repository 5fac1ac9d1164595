---------------------------- MODULE TrackingProvider ----------------------------
(***************************************************************************)
(* What a provider with tracking records of its own promises the service   *)
(* that calls it (providers/base.py): every lookup is answered at most     *)
(* once; the provider's record that an answer rests on is the one that the *)
(* caller handed in or one that was announced to the caller before; and a  *)
(* record is announced to one lookup only.  GoCometLookups implements it.  *)
(***************************************************************************)
CONSTANTS
    Lookups,     \* calls of track()
    Records,     \* the provider's tracking records
    NoRecord     \* "no record"

VARIABLES
    phase,       \* a lookup is idle, waiting, answered, or died unanswered
    known,       \* the records a lookup was handed or told of
    basis        \* the record that its answer rests on

vars == <<phase, known, basis>>

Init ==
    /\ phase = [l \in Lookups |-> "idle"]
    /\ known = [l \in Lookups |-> {}]
    /\ basis = [l \in Lookups |-> NoRecord]

\* track(number, resume_id = i).
Ask(l, i) ==
    /\ phase[l] = "idle"
    /\ phase' = [phase EXCEPT ![l] = "waiting"]
    /\ known' = [known EXCEPT ![l] = {i} \ {NoRecord}]
    /\ UNCHANGED basis

\* on_created(i): also after the lookup was answered, by work it left behind.
Announce(l, i) ==
    /\ phase[l] \in {"waiting", "answered"}
    /\ \A m \in Lookups : i \notin known[m]
    /\ known' = [known EXCEPT ![l] = @ \cup {i}]
    /\ UNCHANGED <<phase, basis>>

Answer(l, i) ==
    /\ phase[l] = "waiting"
    /\ i \in known[l] \cup {NoRecord}
    /\ phase' = [phase EXCEPT ![l] = "answered"]
    /\ basis' = [basis EXCEPT ![l] = i]
    /\ UNCHANGED known

\* The process dies with the lookups it runs.
Die ==
    /\ phase' = [l \in Lookups |-> IF phase[l] = "waiting" THEN "died" ELSE phase[l]]
    /\ UNCHANGED <<known, basis>>

Next ==
    \/ \E l \in Lookups : \E i \in Records \cup {NoRecord} : Ask(l, i) \/ Answer(l, i)
    \/ \E l \in Lookups : \E i \in Records : Announce(l, i)
    \/ Die

Spec == Init /\ [][Next]_vars
=============================================================================

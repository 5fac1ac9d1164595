----------------------------- MODULE MCBulkTracking -----------------------------
(***************************************************************************)
(* A small instance of BulkTracking for TLC.                               *)
(***************************************************************************)
EXTENDS BulkTracking

CONSTANTS n1, n2, s1

\* Two items, which one worker may take both, and a lookup of the first number.
TwinBatch == <<n1, n2>>
NineTrackers == 1..9
OneSingle == [s \in {s1} |-> n1]
=============================================================================

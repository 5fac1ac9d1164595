---------------------------- MODULE MCStripeBilling ----------------------------
(* Values for TLC. *)
EXTENDS StripeBilling

CONSTANTS p1, p2

\* Two plans of different size.
TwoPlans == [p \in {p1, p2} |-> IF p = p1 THEN 1 ELSE 2]
=============================================================================

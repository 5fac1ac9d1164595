---------------------------- MODULE MCProviderChain ----------------------------
(***************************************************************************)
(* A small instance of ProviderChain for TLC.                              *)
(***************************************************************************)
EXTENDS ProviderChain

CONSTANTS r1, g1, g2, g3

MCTrackers == 1..Cardinality(Threads)
=============================================================================

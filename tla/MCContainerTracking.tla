-------------------------- MODULE MCContainerTracking --------------------------
(***************************************************************************)
(* Small instances of ContainerTracking for TLC.                           *)
(***************************************************************************)
EXTENDS ContainerTracking, TLC

\* Requests that share one API process are interchangeable.
RequestSymmetry == Permutations(Requests)
=============================================================================

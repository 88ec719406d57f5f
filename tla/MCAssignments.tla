--------------------------- MODULE MCAssignments ---------------------------
(***************************************************************************)
(* One execution with a step and its release job.                          *)
(***************************************************************************)
EXTENDS Assignments

MCReleaseOf == [t \in Steps |-> "release"]
=============================================================================

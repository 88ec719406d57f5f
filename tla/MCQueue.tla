------------------------------ MODULE MCQueue ------------------------------
(***************************************************************************)
(* One run of three steps: a1, a2 that needs it, and a failure handler a3  *)
(* that only waits for it.                                                 *)
(***************************************************************************)
EXTENDS Queue

OneRun   == {"a1", "a2", "a3"}

MCGroup == [t \in Tasks |-> "A"]
MCPool  == [t \in Tasks |-> "local"]
MCPlace == [t \in Tasks |-> CASE t = "a2" -> 2 [] t = "a3" -> 3 [] OTHER -> 1]
MCDependencies     == [t \in Tasks |-> IF t = "a2" THEN <<"a1">> ELSE <<>>]
MCSoftDependencies == [t \in Tasks |-> IF t = "a3" THEN {"a1"} ELSE {}]
MCLimitOne == [p \in Pools |-> {1}]

=============================================================================

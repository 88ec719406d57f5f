---------------------------- MODULE MCExecution ----------------------------
(***************************************************************************)
(* Small instances of the execution service.                               *)
(*   Pipeline: the suite of                                                *)
(*     TestCreateExecutionRunsFailureHooksAndSkipsNormalDownstreamSteps    *)
(*     (health after primary, rollback on failure of primary, notify after *)
(*     rollback) next to an unrelated branch (report after lint, where     *)
(*     lint has continue_on_failure).                                      *)
(*   Short: primary, health and rollback only.                             *)
(*   TwoRuns: primary and health in one run, other in a second one.        *)
(***************************************************************************)
EXTENDS Execution

Pipeline  == {"primary", "health", "rollback", "notify", "lint", "report"}
Short     == {"primary", "health", "rollback"}
TwoRuns   == {"primary", "health", "other"}

Edges == [primary |-> <<>>, health |-> <<"primary">>, rollback |-> <<"primary">>,
          notify |-> <<"rollback">>, lint |-> <<>>, report |-> <<"lint">>,
          other |-> <<>>]
Handles == [t \in DOMAIN Edges |-> IF t = "rollback" THEN {"primary"} ELSE {}]
Places == [primary |-> 1, lint |-> 2, other |-> 3, health |-> 4, rollback |-> 5,
           report |-> 6, notify |-> 7]

MCDependsOn == [t \in Tasks |-> Edges[t]]
MCOnFailure == [t \in Tasks |-> Handles[t]]
MCPlace     == [t \in Tasks |-> Places[t]]
MCGroup     == [t \in Tasks |-> IF t = "other" THEN "run2" ELSE "run1"]
MCPool      == [t \in Tasks |-> "local"]
MCLimits    == [p \in Pools |-> {2}]
MCOneSlot   == [p \in Pools |-> {1}]
MCDependencies     == [t \in Tasks |-> HardOf(t)]
MCSoftDependencies == [t \in Tasks |-> SoftOf(t)]
=============================================================================

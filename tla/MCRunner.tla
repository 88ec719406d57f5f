------------------------------ MODULE MCRunner ------------------------------
(***************************************************************************)
(* Small instances of the runner package: two steps of every combination   *)
(* of the shapes below on each backend, or one traffic step of each plan.  *)
(* The two share no state, so a behaviour is about one of them (part).     *)
(***************************************************************************)
EXTENDS Backends, LoadStep

VARIABLE part

Plain == [kind |-> "task", file |-> "none", commands |-> FALSE, image |-> "default", ports |-> 0,
          load |-> FALSE, gateway |-> FALSE, call |-> "none", threshold |-> "none",
          expect |-> "none", on |-> "no"]

MCShapes ==
    {Plain, [Plain EXCEPT !.file = "shipped", !.on = "failure"],
     [Plain EXCEPT !.kind = "test", !.file = "missing"],
     [Plain EXCEPT !.kind = "test", !.commands = TRUE, !.expect = "logs", !.on = "always"],
     [Plain EXCEPT !.kind = "test", !.commands = TRUE, !.image = "none", !.expect = "nonzero"],
     [Plain EXCEPT !.kind = "service", !.image = "named", !.ports = 2],
     [Plain EXCEPT !.kind = "plugin", !.gateway = TRUE, !.call = "usable"],
     [Plain EXCEPT !.kind = "security", !.gateway = TRUE, !.call = "unknown"],
     [Plain EXCEPT !.kind = "traffic", !.load = TRUE, !.expect = "nonzero"],
     [Plain EXCEPT !.kind = "log"],
     [Plain EXCEPT !.kind = "mock"]}

Stage(users, seconds, stop) == [users |-> users, seconds |-> seconds, stop |-> stop]
Threshold(metric, op, value, sampler) == [metric |-> metric, op |-> op, value |-> value, sampler |-> sampler]
Plan(variant, symbolic, stages, thresholds, checks) ==
    [variant |-> variant, symbolic |-> symbolic, gateway |-> TRUE, stages |-> stages,
     thresholds |-> thresholds, checks |-> checks, tasks |-> {"a", "b"}]

MCLoadPlans ==
    {Plan("smoke", TRUE, <<Stage(1, 2, FALSE), Stage(2, 1, TRUE), Stage(3, 1, FALSE)>>,
          {Threshold("p95_ms", "<=", 105, "all")}, {Threshold("p99_ms", "<", 2000, "a")}),
     Plan("scalability", FALSE, <<Stage(1, 1, FALSE), Stage(2, 2, FALSE)>>,
          {Threshold("avg_ms", "<=", 104, "all")}, {}),
     Plan("smoke", FALSE, <<Stage(1, 1, FALSE)>>,
          {Threshold("peak_rps", ">=", 0, "all"), Threshold("unknown", "<", 0, "all"),
           Threshold("p99_ms", "<=", 20000, "all")},
          {Threshold("status", "==", 200, "a")}),
     Plan("smoke", FALSE, <<Stage(1, 1, FALSE)>>,
          {Threshold("error_rate", "<", 1, "all"), Threshold("max_ms", ">=", 99, "all")}, {}),
     [Plan("smoke", TRUE, <<Stage(2, 2, FALSE)>>, {Threshold("avg_rps", ">=", 2, "all")}, {})
         EXCEPT !.tasks = {}]}

MCInit ==
    /\ part \in {"steps", "load"}
    /\ BackendsInit /\ LoadInit
    /\ part = "load" => backend = "local" /\ spec = [s \in Steps |-> Plain]
    /\ part = "steps" => plan.variant = "scalability"

MCNext ==
    /\ UNCHANGED part
    /\ \/ part = "steps" /\ BackendsNext /\ UNCHANGED loadVars
       \/ part = "load" /\ LoadNext /\ UNCHANGED vars

MCSpec == MCInit /\ [][MCNext]_<<vars, loadVars, part>>
=============================================================================

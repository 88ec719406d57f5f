------------------------------ MODULE LoadPlan ------------------------------
(***************************************************************************)
(* Reading of a traffic plan (suites/load_plan.go): statements bind names  *)
(* to users, tasks, requests, waits, thresholds and stages, one statement  *)
(* traffic.plan puts them together, and the result is checked against the  *)
(* safety limits, stage by stage and user by user, while defaults are      *)
(* filled in.                                                              *)
(*                                                                         *)
(* A statement is a record: the name it assigns, its call, the names in    *)
(* its lists and its numbers.  Each value remembers the statement it was   *)
(* made by (at), which is all the properties need of names, paths and      *)
(* headers.                                                                *)
(***************************************************************************)
EXTENDS Integers, Sequences, FiniteSets, SequencesExt, FiniteSetsExt

CONSTANTS
    PlanFiles,       \* the plan files read: sequences of statements
    Variants,        \* the traffic variants that use them
    DurationRange,   \* a time.Duration is at least -DurationRange and below it
    MaxLoadDuration, MaxLoadUsers, MaxLoadStages, MaxLoadTasks, MaxLoadRate

ASSUME PlanAssumption ==
    /\ PlanFiles \subseteq Seq([call : STRING, name : STRING, usable : BOOLEAN, items : Seq(STRING), shape : Seq(STRING),
                               checks : Seq(STRING), request : STRING, wait : STRING, weight : Int, inline : Nat,
                               duration : Int, users : Int])
    /\ DurationRange \in Nat \ {0} /\ MaxLoadDuration \in Nat /\ MaxLoadDuration < DurationRange
    /\ MaxLoadUsers \in Nat /\ MaxLoadStages \in Nat /\ MaxLoadTasks \in Nat /\ MaxLoadRate \in Nat

VARIABLES
    statements,      \* the file
    variant,         \* the traffic variant of the step
    rate,            \* its rps or arrival_rate argument
    next,            \* the statement to read
    bound,           \* bound[k]: names bound to values of kind k so far
    spec,            \* users, stages and thresholds of the plan
    foundPlan,       \* traffic.plan was read
    tally,           \* of the stages and users checked: how many, their duration, peak and tasks
    planResult       \* "reading", "stages", "users", "ok" or the error

planVars == <<statements, variant, rate, next, bound, spec, foundPlan, tally, planResult>>

Kinds == {"user", "task", "request", "wait", "threshold", "stage"}
NoWait == [mode |-> "unset", at |-> 0]
\* elapsed is the duration as it is, without overflow (history).
NoTally == [stages |-> 0, users |-> 0, duration |-> 0, elapsed |-> 0, peak |-> 0, tasks |-> 0]

PlanInit ==
    /\ statements \in PlanFiles /\ variant \in Variants /\ rate \in {0, MaxLoadRate, MaxLoadRate + 1}
    /\ next = 1 /\ bound = [k \in Kinds |-> <<>>]
    /\ spec = [users |-> <<>>, stages |-> <<>>, thresholds |-> <<>>]
    /\ foundPlan = FALSE /\ tally = NoTally /\ planResult = "reading"

At == statements[next]
Reading == planResult = "reading" /\ next <= Len(statements)
Refuse(why) == planResult' = why /\ UNCHANGED <<next, bound, spec, foundPlan>>
Accept == next' = next + 1 /\ UNCHANGED <<spec, foundPlan, planResult>>
Binding(map, name, value) == [n \in DOMAIN map \cup {name} |-> IF n = name THEN value ELSE map[n]]
\* Mutant: a name keeps its first value.
BindFirst(kind, value) ==
    bound' = [bound EXCEPT ![kind] = Binding(@, At.name, IF At.name \in DOMAIN @ THEN @[At.name] ELSE value)] /\ Accept
Bind(kind, value) == bound' = [bound EXCEPT ![kind] = Binding(@, At.name, value)] /\ Accept

Known(kind, names) == Range(names) \subseteq DOMAIN bound[kind]
Values(kind, names) == [i \in DOMAIN names |-> bound[kind][names[i]]]
PositiveWeight(w) == IF w <= 0 THEN 1 ELSE w

\* A method and a path are needed, and checks are written in place (inline
\* counts them): the names of thresholds are not known here.
ParseRequest ==
    /\ Reading /\ At.call = "request"
    /\ IF At.usable /\ At.checks = <<>>
       THEN Bind("request", [at |-> next, checks |-> [i \in 1..At.inline |-> [at |-> next]]])
       ELSE Refuse("request")

ParseWait ==
    /\ Reading /\ At.call = "wait"
    /\ IF At.usable THEN Bind("wait", [mode |-> "constant", at |-> next]) ELSE Refuse("wait")

ParseThreshold ==
    /\ Reading /\ At.call = "threshold"
    /\ IF At.usable THEN Bind("threshold", [at |-> next]) ELSE Refuse("threshold")

ParseStage ==
    /\ Reading /\ At.call = "stage"
    /\ IF At.duration > 0 THEN Bind("stage", [at |-> next, duration |-> At.duration, users |-> At.users])
       ELSE Refuse("duration")

\* The checks of a task are its own, then those of its request.
ParseTask ==
    /\ Reading /\ At.call = "task"
    /\ IF ~Known("request", <<At.request>>) \/ ~Known("threshold", At.checks) THEN Refuse("task")
       ELSE LET request == bound["request"][At.request]
            IN Bind("task", [at |-> next, weight |-> PositiveWeight(At.weight), request |-> request.at,
                             checks |-> Values("threshold", At.checks) \o request.checks])

ParseUser ==
    /\ Reading /\ At.call = "user"
    /\ IF ~Known("task", At.items) \/ (At.wait # "none" /\ ~Known("wait", <<At.wait>>)) THEN Refuse("user")
       ELSE Bind("user", [at |-> next, weight |-> PositiveWeight(At.weight), tasks |-> Values("task", At.items),
                          wait |-> IF At.wait = "none" THEN NoWait ELSE bound["wait"][At.wait]])

\* traffic.plan: users, shape and thresholds, by the names bound so far.
ApplyPlan ==
    /\ Reading /\ At.call = "plan"
    /\ IF foundPlan THEN Refuse("twice")
       ELSE IF ~Known("user", At.items) \/ ~Known("stage", At.shape) \/ ~Known("threshold", At.checks)
            THEN Refuse("plan")
       ELSE /\ spec' = [users |-> Values("user", At.items), stages |-> Values("stage", At.shape),
                        thresholds |-> Values("threshold", At.checks)]
            /\ foundPlan' = TRUE /\ next' = next + 1 /\ UNCHANGED <<bound, planResult>>

\* A statement that is no call, or a call nobody knows, is passed over.
SkipStatement == Reading /\ At.call \notin Kinds \cup {"plan"} /\ Accept /\ UNCHANGED bound

-----------------------------------------------------------------------------
(* The limits, in the order they are checked.                              *)

\* Addition of time.Duration wraps.
Wrap(n) == ((n + DurationRange) % (2 * DurationRange)) - DurationRange

\* Mutant: only the last stage is looked at.
LastUsers(most, users) == users
PeakUsers(most, users) == IF users > most THEN users ELSE most

\* constant_throughput and open_model need a rate and take the users for one.
Rate == IF variant \in {"constant_throughput", "open_model"} /\ rate <= 0 THEN PeakUsers(1, tally.peak) ELSE rate

DefaultWait == [mode |-> IF variant = "constant_pacing" THEN "pacing" ELSE "constant", at |-> 0]

LimitExceeded == planResult' = "limit" /\ UNCHANGED <<rate, spec, tally>>

BeginValidation ==
    /\ planResult = "reading" /\ next > Len(statements)
    /\ IF foundPlan /\ (spec.users = <<>> \/ spec.stages = <<>> \/ Len(spec.stages) > MaxLoadStages) THEN LimitExceeded
       ELSE planResult' = (IF foundPlan THEN "stages" ELSE "planless") /\ UNCHANGED <<rate, spec, tally>>

ValidateStage ==
    /\ planResult = "stages" /\ tally.stages < Len(spec.stages)
    /\ LET stage == spec.stages[tally.stages + 1]
       IN IF stage.duration <= 0 THEN LimitExceeded
          ELSE /\ tally' = [tally EXCEPT !.stages = @ + 1, !.duration = Wrap(@ + stage.duration),
                                         !.elapsed = @ + stage.duration, !.peak = PeakUsers(@, stage.users)]
               /\ UNCHANGED <<rate, spec, planResult>>

StagesValidated ==
    /\ planResult = "stages" /\ tally.stages = Len(spec.stages)
    /\ IF tally.duration > MaxLoadDuration \/ tally.peak > MaxLoadUsers THEN LimitExceeded
       ELSE planResult' = "users" /\ UNCHANGED <<rate, spec, tally>>

ValidateUser ==
    /\ planResult = "users" /\ tally.users < Len(spec.users)
    /\ LET u    == tally.users + 1
           user == spec.users[u]
       IN IF user.tasks = <<>> \/ tally.tasks + Len(user.tasks) > MaxLoadTasks THEN LimitExceeded
          ELSE /\ tally' = [tally EXCEPT !.users = u, !.tasks = @ + Len(user.tasks)]
               /\ spec' = [spec EXCEPT !.users[u].wait = IF @.mode = "unset" THEN DefaultWait ELSE @]
               /\ UNCHANGED <<rate, planResult>>

AcceptPlan ==
    /\ planResult = "users" /\ tally.users = Len(spec.users)
    /\ IF Rate > MaxLoadRate THEN LimitExceeded
       ELSE planResult' = "ok" /\ rate' = Rate /\ UNCHANGED <<spec, tally>>

PlanNext ==
    \/ /\ BeginValidation \/ ValidateStage \/ StagesValidated \/ ValidateUser \/ AcceptPlan
       /\ UNCHANGED <<statements, variant, next, bound, foundPlan>>
    \/ /\ \/ ParseRequest \/ ParseWait \/ ParseThreshold \/ ParseStage \/ ParseTask \/ ParseUser
          \/ ApplyPlan \/ SkipStatement
       /\ UNCHANGED <<statements, variant, rate, tally>>

PlanSpec == PlanInit /\ [][PlanNext]_planVars

-----------------------------------------------------------------------------
\* The statement a name of kind k stands for when statement i is read: the
\* last one above it that bound the name.
Meaning(k, name, i) ==
    Max({j \in 1..(i - 1) : statements[j].call = k /\ statements[j].name = name})

\* What an accepted plan runs is what its statements say at the place where
\* they say it: the users, stages and thresholds, the tasks of each user and
\* the request of each task are the ones bound last above their use, though a
\* name is bound again later.
PlanMeansItsStatements ==
    planResult = "ok" =>
        LET p == CHOOSE i \in DOMAIN statements : statements[i].call = "plan"
            meant(values, kind, names) == /\ DOMAIN values = DOMAIN names
                                          /\ \A i \in DOMAIN names : values[i].at = Meaning(kind, names[i], p)
        IN /\ meant(spec.users, "user", statements[p].items)
           /\ meant(spec.stages, "stage", statements[p].shape)
           /\ meant(spec.thresholds, "threshold", statements[p].checks)
           /\ \A u \in Range(spec.users) : \A i \in DOMAIN u.tasks :
                 /\ u.tasks[i].at = Meaning("task", statements[u.at].items[i], u.at)
                 /\ u.tasks[i].request = Meaning("request", statements[u.tasks[i].at].request, u.tasks[i].at)

\* An accepted plan keeps to every safety limit: its users are never more than
\* allowed, nor its tasks, it sends no faster, and it ends in time unless the
\* sum of its stages overflowed.
PlanWithinLimits ==
    planResult = "ok" =>
        /\ tally.elapsed <= MaxLoadDuration \/ tally.elapsed >= DurationRange
        /\ spec.stages # <<>> /\ Len(spec.stages) <= MaxLoadStages
        /\ \A s \in Range(spec.stages) : s.duration > 0 /\ s.users <= MaxLoadUsers
        /\ spec.users # <<>> /\ \A u \in Range(spec.users) : u.tasks # <<>> /\ u.wait.mode # "unset"
        /\ Cardinality(UNION {{i} \X DOMAIN spec.users[i].tasks : i \in DOMAIN spec.users}) <= MaxLoadTasks
        /\ variant \in {"constant_throughput", "open_model"} => rate > 0
        /\ rate <= MaxLoadRate

\* A plan that is accepted means what its statements say, within the limits; only
\* the limit of its length is passed when the sum of its stages overflows.
AcceptedPlanSound == PlanMeansItsStatements /\ PlanWithinLimits
=============================================================================

---------------------------- MODULE MockService -----------------------------
(***************************************************************************)
(* The mock service (mocking/service.go, request.go, state.go, handler.go, *)
(* the matching of schema_runtime.go).  A call is checked, loads the state *)
(* of its key, is matched to an example, may wait, and stores what the     *)
(* example's transition makes of the copy it loaded, under the same key or *)
(* the one a mutation template names.  Keys are those of all suites        *)
(* together; resetting a suite removes the keys its calls have stored.     *)
(* What is stored is modelled as the marks the transitions have left in    *)
(* it, each naming the suite of the call and the life of it, counted by    *)
(* resets, in which the call began.                                        *)
(***************************************************************************)
EXTENDS Naturals, Sequences, FiniteSets

CONSTANTS
    MockSuites, MockCalls, StateKeys,
    MaxLives,         \* bound: resets of one suite
    MaxInvokes        \* bound: calls that change the state

ASSUME MockAssumption == "none" \notin StateKeys /\ MaxLives \in Nat

VARIABLES
    state,        \* state[k]: the marks in what is stored under k
    suiteState,   \* suiteState[s]: the keys a reset of s removes
    call,         \* call[c]: idle, or its suite, key, copy of the state, example and mark
    life, wrote, escaped, \* history: resets of each suite, the keys its calls stored since, and
                          \* the marks of a suite that were out of reach when it was reset
    invoked               \* history: calls that change the state

mockVars == <<state, suiteState, call, life, wrote, escaped, invoked>>

Marks == MockSuites \X (0..MaxLives)

Stateless == {}      \* nothing stored: the defaults

NoCall == [suite |-> "none", key |-> "none", loaded |-> Stateless, example |-> "none", mark |-> "none"]

MockInit ==
    /\ state = [k \in StateKeys |-> Stateless] /\ suiteState = [s \in MockSuites |-> {}]
    /\ call = [c \in MockCalls |-> NoCall]
    /\ life = [s \in MockSuites |-> 0] /\ wrote = [s \in MockSuites |-> {}] /\ escaped = {}
    /\ invoked = 0

-----------------------------------------------------------------------------
\* Which example answers.  A request is the set of conditions that hold of
\* it; an example names those that select it and those its schema requires.

Example(name, when, requires) == [name |-> name, when |-> when, requires |-> requires]

MatchWhen(example, request) == example.when \subseteq request

\* The first that is selected, in the order they are kept.
FirstMatch(examples, request) ==
    LET hits == {i \in DOMAIN examples : MatchWhen(examples[i], request)}
    IN  IF hits = {} THEN 0 ELSE CHOOSE i \in hits : \A j \in hits : i <= j

ValidateConstraints(operation, request) == operation.required \subseteq request
ValidateSchemaRequest(example, request) == example.requires \subseteq request

\* No example is selected: the one the fallback names, what a proxy answers,
\* or a fixed answer.
Fallback(operation) ==
    LET named == \E i \in DOMAIN (operation.schemas \o operation.exchanges) :
                    (operation.schemas \o operation.exchanges)[i].name = operation.fallback.example
    IN  CASE operation.fallback.mode = "none" -> "not_found"
          [] operation.fallback.mode = "example" -> IF named THEN "fallback" ELSE "not_found"
          [] operation.fallback.mode = "proxy" -> "proxied"
          [] OTHER -> "fallback"

\* The first schema example selected answers or refuses; then the exchange
\* examples are tried, then the fallback.
Matched(operation, request) ==
    LET s == FirstMatch(operation.schemas, request)
        x == FirstMatch(operation.exchanges, request)
    IN  CASE ~ValidateConstraints(operation, request) -> "bad_request"
          [] s # 0 -> IF ValidateSchemaRequest(operation.schemas[s], request)
                      THEN operation.schemas[s].name ELSE "bad_request"
          [] s = 0 /\ x # 0 -> operation.exchanges[x].name
          [] OTHER -> Fallback(operation)

-----------------------------------------------------------------------------

\* Operations with a marking, a clearing and a plain example.
Operations ==
    [required : {{}, {"id"}}, fallback : [mode : {"none", "example", "proxy", "fixed"}, example : {"mark"}],
     schemas : {<<>>, <<Example("mark", {"hit"}, {"json"})>>},
     exchanges : {<<>>, <<Example("clear", {"done"}, {}), Example("mark", {"hit"}, {}), Example("plain", {"id"}, {})>>}]

Answers == {Matched(o, q) : o \in Operations, q \in SUBSET {"id", "hit", "done", "json"}}

\* A blank key stores nothing and loads the defaults.
LoadState(k) == IF k = "none" THEN Stateless ELSE state[k]

\* Invoke: everything up to the wait.  An example without a transition, a
\* fallback and a refusal answer at once as far as the state is concerned.
Invoke(c, s, k, example) ==
    /\ call[c] = NoCall /\ invoked < MaxInvokes
    /\ IF example \in {"mark", "clear"}
       THEN /\ call' = [call EXCEPT ![c] = [suite |-> s, key |-> k, loaded |-> LoadState(k),
                                           example |-> example, mark |-> <<s, life[s]>>]]
            /\ invoked' = invoked + 1
       ELSE UNCHANGED <<call, invoked>>
    /\ UNCHANGED <<state, suiteState, life, wrote, escaped>>

\* The caller goes away while the answer is delayed.
InvokeCanceled(c) ==
    /\ call[c] # NoCall /\ call' = [call EXCEPT ![c] = NoCall]
    /\ UNCHANGED <<state, suiteState, life, wrote, escaped, invoked>>

Transition(example, loaded, mark) == IF example = "clear" THEN Stateless ELSE loaded \cup {mark}

\* Mutant: the suite does not learn of the key.
StoreUnregistered(s, k, value) == state' = [state EXCEPT ![k] = value] /\ UNCHANGED suiteState

StoreState(s, k, value) ==
    /\ state' = [state EXCEPT ![k] = value]
    /\ suiteState' = [suiteState EXCEPT ![s] = @ \cup {k}]

\* The answer is built, and the transition applied to the copy that was
\* loaded.  A mutation template, of the transition or of the operation, takes
\* the place of the key it was loaded from.
ApplyStateTransition(c, template) ==
    LET q == call[c]
        key == IF template = "none" THEN q.key ELSE template
    IN  /\ q # NoCall /\ call' = [call EXCEPT ![c] = NoCall]
        /\ IF key = "none"
           THEN UNCHANGED <<state, suiteState, wrote>>
           ELSE /\ StoreState(q.suite, key, Transition(q.example, q.loaded, q.mark))
                /\ wrote' = [wrote EXCEPT ![q.suite] = @ \cup {key}]
        /\ UNCHANGED <<life, escaped, invoked>>

\* A mark of s that the reset cannot reach: a call under way has it, or it
\* stands under a key to which only calls of other suites have copied it.
OutOfReach(s, m) ==
    /\ m[1] = s
    /\ \/ \E c \in MockCalls : m = call[c].mark \/ m \in call[c].loaded
       \/ \E k \in StateKeys : k \notin wrote[s] /\ m \in state[k]

ResetSuiteState(s) ==
    /\ life[s] < MaxLives
    /\ state' = [k \in StateKeys |-> IF k \in suiteState[s] THEN Stateless ELSE state[k]]
    /\ suiteState' = [suiteState EXCEPT ![s] = {}] /\ wrote' = [wrote EXCEPT ![s] = {}]
    /\ life' = [life EXCEPT ![s] = @ + 1]
    /\ escaped' = escaped \cup {m \in Marks : OutOfReach(s, m)}
    /\ UNCHANGED <<call, invoked>>

MockNext ==
    \/ \E c \in MockCalls :
         \/ \E s \in MockSuites, k \in StateKeys \cup {"none"}, example \in Answers : Invoke(c, s, k, example)
         \/ InvokeCanceled(c)
         \/ \E template \in StateKeys \cup {"none"} : ApplyStateTransition(c, template)
    \/ \E s \in MockSuites : ResetSuiteState(s)

MockSpec == MockInit /\ [][MockNext]_mockVars

-----------------------------------------------------------------------------
\* A reset really starts a suite afresh (mocking.ResetSuiteState): what a call
\* of an earlier life of a suite has left is neither stored anywhere nor in the
\* copy some call answers from, although suites share keys, calls write back
\* copies they loaded earlier and copy one key to another.  It comes back in two
\* ways only, both of which the code allows: a call that was under way at the
\* reset stores its copy afterwards, or another suite's call had copied it to a
\* key the suite itself never stored.
ResetStartsAfresh ==
    LET fresh(m) == m[2] = life[m[1]] \/ m \in escaped
    IN  /\ \A k \in StateKeys : \A m \in state[k] : fresh(m)
        /\ \A c \in MockCalls : \A m \in call[c].loaded : fresh(m)
=============================================================================

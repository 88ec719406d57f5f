----------------------------- MODULE MCServices -----------------------------
(***************************************************************************)
(* Small instances of the services of the control plane that keep state of *)
(* their own: saved executions, the overview of them, environments,        *)
(* accounts, throttles, single sign-on, mocks and the hand-over of steps   *)
(* to agents.  They share no state, so a behaviour is about one of them    *)
(* (part) and the others stay as they start.                               *)
(***************************************************************************)
EXTENDS RuntimePersistence, Environments, Accounts, PasswordReset, Throttle, SingleSignOn,
        MockService, StepHandoff, Overview

VARIABLE part

\* A service and two plugins that name it, each other or nothing there is.
\* Steps of an imported suite have its alias in their name, which no
\* reference can spell.
MCPluginSuites ==
    {<<[name |-> "broker", refs |-> {}], [name |-> "check", refs |-> a], [name |-> third, refs |-> b]>> :
        a \in {{<<"broker", 8082>>}, {<<"broker", 8082>>, <<"db", 5432>>}, {<<"elsewhere", 80>>}},
        b \in {{}, {<<"broker", 9092>>}}, third \in {"db", "imported/db"}}

vars == <<persistVars, environmentVars, accountVars, resetVars, throttleVars, ssoVars, mockVars,
          handoffVars, overviewVars, part>>

-----------------------------------------------------------------------------
Parts == {"persistence", "environments", "accounts", "resets", "throttle", "sso", "mocks",
          "handoff", "overview"}

MCInit ==
    /\ part \in Parts
    /\ PersistInit /\ EnvironmentsInit /\ AccountsInit /\ ResetInit /\ ThrottleInit /\ SsoInit /\ MockInit
    /\ HandoffInit /\ OverviewInit

\* What stays as it is while one part runs.
OthersStay(p) ==
    /\ p # "persistence" => UNCHANGED persistVars
    /\ p # "environments" => UNCHANGED environmentVars
    /\ p # "accounts" => UNCHANGED accountVars
    /\ p # "resets" => UNCHANGED resetVars
    /\ p # "throttle" => UNCHANGED throttleVars
    /\ p # "sso" => UNCHANGED ssoVars
    /\ p # "mocks" => UNCHANGED mockVars
    /\ p # "handoff" => UNCHANGED handoffVars
    /\ p # "overview" => UNCHANGED overviewVars

MCNext ==
    /\ UNCHANGED part
    /\ \/ part = "persistence" /\ PersistNext /\ OthersStay("persistence")
       \/ part = "environments" /\ EnvironmentsNext /\ OthersStay("environments")
       \/ part = "accounts" /\ AccountsNext /\ OthersStay("accounts")
       \/ part = "resets" /\ ResetNext /\ OthersStay("resets")
       \/ part = "throttle" /\ ThrottleNext /\ OthersStay("throttle")
       \/ part = "sso" /\ SsoNext /\ OthersStay("sso")
       \/ part = "mocks" /\ MockNext /\ OthersStay("mocks")
       \/ part = "handoff" /\ HandoffNext /\ OthersStay("handoff")
       \/ part = "overview" /\ OverviewNext /\ OthersStay("overview")

MCSpec == MCInit /\ [][MCNext]_vars

-----------------------------------------------------------------------------
\* What is saved of the executions (runtime_store.go) and what the overview shows
\* of them (engine/store.go) catch up with what they are.
RecordsCatchUp == PersistCatchesUp /\ OverviewCatchesUp

\* Whatever requests overlap, stores fail and tabs are mixed up: an account is
\* there with its workspace or not at all (auth.signUp), a reset link works once
\* (auth.resetPassword), nobody gets past the rate limit or the lockout
\* (ratelimit.go, lockout.go), and single sign-on signs a tab in as the login
\* it started (oidc.go).
SignInSound == AccountsWhole /\ LinksWorkOnce /\ WindowsRespected /\ SignedInAsAsked
=============================================================================

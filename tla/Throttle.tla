------------------------------ MODULE Throttle ------------------------------
(***************************************************************************)
(* Attempts in a sliding window (auth/ratelimit.go, lockout.go, signIn of  *)
(* handler.go): the limiter admits a request and counts it under one lock; *)
(* the lockout of an account is looked up before the password is compared  *)
(* and counted after.  Times are forgotten as they grow old, by every call *)
(* and by a sweep now and then.                                            *)
(***************************************************************************)
EXTENDS Naturals, Sequences, FiniteSets

CONSTANTS
    Callers,          \* sign-ins that may be under way at once
    Limit, Failures,  \* requests admitted, and failures that lock, in a window
    Window,
    MaxTime           \* bound: the clock

ASSUME ThrottleAssumption ==
    /\ IsFiniteSet(Callers) /\ Limit \in Nat \ {0} /\ Failures \in Nat \ {0}
    /\ Window \in Nat /\ MaxTime \in Nat

VARIABLES
    clock,
    admitted,     \* the times of all admitted requests (history)
    events,       \* the numbers of those the limiter remembers
    refused,      \* the times of all failures since the last success (history)
    failed,       \* the numbers of those the lockout remembers
    caller        \* caller[c]: idle, or comparing the password

throttleVars == <<clock, events, failed, caller, admitted, refused>>

ThrottleInit ==
    /\ clock = 0 /\ events = {} /\ failed = {} /\ admitted = <<>> /\ refused = <<>>
    /\ caller = [c \in Callers |-> "idle"]

\* Which of the numbered times are in the window that ends now.
Within(times, numbers, now) == {i \in numbers : times[i] + Window > now /\ times[i] <= now}

FreshEvents == Within(admitted, events, clock)
FreshFailures == Within(refused, failed, clock)

\* Mutant: the limit itself is still admitted.
AllowsOneMore == Cardinality(FreshEvents) <= Limit

Allow == Cardinality(FreshEvents) < Limit

Locked == Cardinality(FreshFailures) >= Failures

SignIn(c) ==
    /\ caller[c] = "idle" /\ Allow
    /\ admitted' = Append(admitted, clock) /\ events' = FreshEvents \cup {Len(admitted) + 1}
    /\ caller' = [caller EXCEPT ![c] = IF Locked THEN "idle" ELSE "comparing"]
    /\ UNCHANGED <<clock, failed, refused>>

\* A request that is not admitted only has old times forgotten.
TooManyRequests ==
    /\ ~Allow /\ events # FreshEvents /\ events' = FreshEvents
    /\ UNCHANGED <<clock, failed, caller, admitted, refused>>

WrongPassword(c) ==
    /\ caller[c] = "comparing" /\ caller' = [caller EXCEPT ![c] = "idle"]
    /\ refused' = Append(refused, clock) /\ failed' = failed \cup {Len(refused) + 1}
    /\ UNCHANGED <<clock, events, admitted>>

RightPassword(c) ==
    /\ caller[c] = "comparing" /\ caller' = [caller EXCEPT ![c] = "idle"]
    /\ failed' = {} /\ refused' = <<>>
    /\ UNCHANGED <<clock, events, admitted>>

\* The store fails: the request ends, counted neither way.
CouldNotSignIn(c) ==
    /\ caller[c] = "comparing" /\ caller' = [caller EXCEPT ![c] = "idle"]
    /\ UNCHANGED <<clock, events, failed, admitted, refused>>

\* Every so many calls all that is old is dropped.
SweepLocked ==
    /\ <<events, failed>> # <<FreshEvents, FreshFailures>>
    /\ events' = FreshEvents /\ failed' = FreshFailures
    /\ UNCHANGED <<clock, caller, admitted, refused>>

ClockTicks ==
    /\ clock < MaxTime /\ clock' = clock + 1
    /\ UNCHANGED <<events, failed, caller, admitted, refused>>

ThrottleNext ==
    \/ \E c \in Callers : SignIn(c) \/ WrongPassword(c) \/ RightPassword(c) \/ CouldNotSignIn(c)
    \/ TooManyRequests \/ SweepLocked \/ ClockTicks

ThrottleSpec == ThrottleInit /\ [][ThrottleNext]_throttleVars

-----------------------------------------------------------------------------
\* No window, wherever it begins, holds more admitted requests than the
\* limit; what was forgotten never matters: the account is locked exactly
\* when the failures of the last window say so; and at most the sign-ins
\* that were under way when it locked are compared beyond that.
WindowsRespected ==
    /\ \A t \in 0..MaxTime : Cardinality(Within(admitted, DOMAIN admitted, t)) <= Limit
    /\ Locked <=> Cardinality(Within(refused, DOMAIN refused, clock)) >= Failures
    /\ Cardinality(Within(refused, DOMAIN refused, clock)) < Failures + Cardinality(Callers)
=============================================================================

--------------------------- MODULE DirectDispatch ---------------------------
(***************************************************************************)
(* A step sent straight to an agent over HTTP (agent/http_dispatcher.go,   *)
(* service.go, handler.go): one request whose answer is the stream of the  *)
(* step's log lines and a last message, done.  The request ends with the   *)
(* caller's context; a watcher cancels the job with a request of its own.  *)
(***************************************************************************)
CONSTANT BreaksAllowed   \* connections may break and requests get lost

VARIABLES
    client,      \* Dispatch: posting, reading, cleaning or returned
    answer,      \* what it returns: none, ok, failed or canceled
    canceled,    \* the caller's context has ended
    watcher,     \* the watcher: waiting, canceling, dropping or gone
    stream,      \* the connection: none, open, dropped (by the client), broken,
                 \* or ended (as if the answer were complete)
    job,         \* the agent's handler: none, starting, running, sending or gone
    registered,  \* Service.jobs knows the job
    stopping,    \* the job's context has ended
    verdict,     \* what the executor returned: none, ok or failed
    done         \* the last message is on its way

dispatchVars == <<client, answer, canceled, watcher, stream, job, registered, stopping, verdict, done>>
agentVars == <<job, registered, stopping, verdict, done>>

DispatchInit ==
    /\ client = "posting" /\ answer = "none" /\ canceled = FALSE /\ watcher = "waiting"
    /\ stream = "none" /\ job = "none" /\ registered = FALSE /\ stopping = FALSE
    /\ verdict = "none" /\ done = FALSE

\* Mutant: the job has a context of its own.
StreamGoneUnseen(how) == stream' = how /\ UNCHANGED stopping

\* A connection that is gone ends the handler's context and with it the job's.
StreamGone(how) == stream' = how /\ stopping' = (stopping \/ job # "none")

-----------------------------------------------------------------------------
\* The control plane.

\* Dispatch returns: the deferred calls end the watcher and the request.
Return(result) ==
    /\ client' = "returned" /\ answer' = result
    /\ watcher' = (IF watcher = "waiting" THEN "gone" ELSE watcher)

\* The request arrives, or it does not, or it is refused with a status.
Post ==
    /\ client = "posting" /\ stream = "none"
    /\ \/ ~canceled /\ stream' = "open" /\ job' = "starting" /\ UNCHANGED <<client, answer, watcher>>
       \/ /\ BreaksAllowed \/ canceled
          /\ stream' = "broken" /\ Return(IF canceled THEN "canceled" ELSE "failed") /\ UNCHANGED job
    /\ UNCHANGED <<canceled, registered, stopping, verdict, done>>

\* The handler has answered with a status.
Answered200 ==
    /\ client = "posting" /\ stream = "open" /\ job \notin {"none", "starting"}
    /\ client' = "reading"
    /\ UNCHANGED <<answer, canceled, watcher, stream, agentVars>>

\* Mutant: done is taken for success whatever it says.
DoneResultUnread == "ok"

DoneResult == IF verdict = "failed" THEN "failed" ELSE "ok"

\* done arrives: the job is cleaned up by a request that may fail.
ReadDone ==
    /\ client = "reading" /\ done /\ stream = "open"
    /\ client' = "cleaning" /\ answer' = DoneResult
    /\ UNCHANGED <<canceled, watcher, stream, agentVars>>

Cleanup ==
    /\ client = "cleaning"
    /\ \/ registered' = FALSE
       \/ BreaksAllowed /\ UNCHANGED registered
    /\ StreamGone("dropped") /\ Return(answer)
    /\ UNCHANGED <<canceled, job, verdict, done>>

\* The connection ends without done: broken, ended by the client's own limit of
\* 30 seconds, or, behind a proxy that completes the answer of an agent it has
\* lost, with a clean end.
StreamBreaks ==
    /\ BreaksAllowed /\ stream = "open" /\ client \in {"posting", "reading"}
    /\ \/ StreamGone("broken")
       \/ client = "reading" /\ StreamGone("ended")
    /\ UNCHANGED <<client, answer, canceled, watcher, job, registered, verdict, done>>

\* Do or Decode fails; a clean end (io.EOF) is no error.
ReadFails ==
    /\ client \in {"posting", "reading"} /\ stream \in {"dropped", "broken", "ended"}
    /\ Return(IF canceled THEN "canceled" ELSE IF stream = "ended" THEN "ok" ELSE "failed")
    /\ UNCHANGED <<canceled, stream, agentVars>>

ContextEnds ==
    /\ ~canceled /\ client # "returned" /\ canceled' = TRUE
    /\ UNCHANGED <<client, answer, watcher, stream, agentVars>>

\* The context of the request is derived from the caller's.
RequestEnds ==
    /\ canceled /\ stream = "open" /\ client \in {"posting", "reading"} /\ StreamGone("dropped")
    /\ UNCHANGED <<client, answer, canceled, watcher, job, registered, verdict, done>>

\* The watcher asks the agent to cancel, then drops the request.
WatcherWakes ==
    /\ watcher = "waiting" /\ canceled /\ watcher' = "canceling"
    /\ UNCHANGED <<client, answer, canceled, stream, agentVars>>

\* Cancel finds the job in the map, or answers that there is none.
CancelJob ==
    /\ watcher = "canceling" /\ watcher' = "dropping"
    /\ \/ stopping' = (stopping \/ registered)
       \/ BreaksAllowed /\ UNCHANGED stopping
    /\ UNCHANGED <<client, answer, canceled, stream, job, registered, verdict, done>>

CancelRequest == IF stream \in {"none", "open"} THEN StreamGone("dropped") ELSE UNCHANGED <<stream, stopping>>

WatcherDrops ==
    /\ watcher = "dropping" /\ watcher' = "gone" /\ CancelRequest
    /\ UNCHANGED <<client, answer, canceled, job, registered, verdict, done>>

-----------------------------------------------------------------------------
\* The agent.

RegisterJob ==
    /\ job = "starting" /\ job' = "running" /\ registered' = TRUE
    /\ UNCHANGED <<client, answer, canceled, watcher, stream, stopping, verdict, done>>

\* The executor returns, with or without regard to its context.
ExecutorReturns ==
    /\ job = "running" /\ job' = "sending"
    /\ verdict' \in {"ok", "failed"}
    /\ UNCHANGED <<client, answer, canceled, watcher, stream, registered, stopping, done>>

\* done is sent, then the deferred calls take the job off the map.
StreamEnds ==
    /\ job = "sending" /\ job' = "gone"
    /\ done' = (stream = "open") /\ registered' = FALSE
    /\ UNCHANGED <<client, answer, canceled, watcher, stream, stopping, verdict>>

DispatchNext ==
    \/ Post \/ Answered200 \/ ReadDone \/ Cleanup \/ StreamBreaks \/ ReadFails \/ ContextEnds \/ RequestEnds
    \/ WatcherWakes \/ CancelJob \/ WatcherDrops
    \/ RegisterJob \/ ExecutorReturns \/ StreamEnds

\* Goroutines are scheduled and an executor stops when its context has ended;
\* nothing says that a step ends by itself, and the 30 seconds are not counted on.
DispatchFairness ==
    /\ WF_dispatchVars(Post) /\ WF_dispatchVars(Answered200) /\ WF_dispatchVars(ReadDone)
    /\ WF_dispatchVars(Cleanup) /\ WF_dispatchVars(ReadFails) /\ WF_dispatchVars(RequestEnds)
    /\ WF_dispatchVars(WatcherWakes) /\ WF_dispatchVars(CancelJob) /\ WF_dispatchVars(WatcherDrops)
    /\ WF_dispatchVars(RegisterJob) /\ WF_dispatchVars(StreamEnds)
    /\ WF_dispatchVars(stopping /\ ExecutorReturns)

DispatchSpec == DispatchInit /\ [][DispatchNext]_dispatchVars /\ DispatchFairness

-----------------------------------------------------------------------------
\* Success is reported only of a step that succeeded, except when the answer
\* ended as if it were complete and done never came (http_dispatcher.go:120):
\* then it is reported whatever became of the step.
SuccessIsTrue == client = "returned" /\ answer = "ok" => verdict = "ok" \/ stream = "ended"

\* Once Dispatch has returned or its watcher is through, a job that is there has
\* been told to stop, also when it was not registered yet at the time of the
\* cancel request and when the answer ended before it.
NoJobLeft == client = "returned" \/ watcher = "gone" => stopping \/ job = "none"

\* What Dispatch answers and what it leaves on the agent is right.
DispatchHonest == SuccessIsTrue /\ NoJobLeft

\* Dispatch reports success only of a step that succeeded (SuccessIsTrue states
\* the exception) and leaves no job that was not told to stop; and a step whose
\* run was canceled stops: a cancel request that arrives before the job is
\* registered finds nothing, so the dropped connection has to do it.
DirectDispatchFaithful ==
    /\ [](SuccessIsTrue /\ NoJobLeft)
    /\ []<>(canceled => client = "returned" /\ job \in {"none", "gone"})
=============================================================================

---------------------------- MODULE EventStream -----------------------------
(***************************************************************************)
(* The events of one execution on their way to one viewer (eventstream/    *)
(* hub.go, logstream/hub.go, execution/stream.go, the stream handlers, and *)
(* the web client's sse.ts and useExecutionStream.ts).                     *)
(*                                                                         *)
(* A writer appends an event and copies the subscribers under the lock and *)
(* sends to their channels after it; a full channel loses the event.       *)
(* Subscribe replays what comes after the viewer's cursor and registers    *)
(* the channel under the same lock.  The viewer reconnects with the        *)
(* highest id it has seen and reads the whole record from time to time.    *)
(* An event is its id, its position in the list.  The events of a run, its *)
(* log and the environments page each have a hub with this code.           *)
(***************************************************************************)
EXTENDS Naturals, Sequences, FiniteSets, FiniteSetsExt, Functions

CONSTANTS
    Writers,        \* goroutines that append events
    MaxEvents,      \* bound: events in all
    MinBuffer,      \* the least capacity of a channel (32 in the code)
    Slack,          \* its room beyond the replay (16 in the code)
    MaxBreaks       \* bound: broken connections, restarts and pauses

ASSUME StreamAssumption == MinBuffer \in Nat /\ Slack \in Nat

VARIABLES
    appended,       \* how many events the list holds
    publishing,     \* publishing[w]: the event w has appended and not sent yet
    channel,        \* the channel of the viewer's subscription: events, capacity, since, base
    got, lost,      \* what this subscription has received, and what found the channel full
    conn,           \* the viewer's connection: closed, open, retry, ended or paused
    cursor,         \* the stream's cursor in the viewer
    seen,           \* the page's cursor, executionCursorRef
    hasRecord, shown, \* the record the page shows, once it has one: its events
    refreshing,     \* sizes of the records on their way to the page
    breaks

streamVars == <<appended, publishing, channel, got, lost, conn, cursor, seen, hasRecord, shown, refreshing, breaks>>
serverVars == <<appended, publishing>>
pageVars == <<cursor, seen, hasRecord, shown, refreshing>>

Quiet == [id |-> 0, to |-> FALSE]
MaxReads == 2      \* bound: reads of the record under way at once
NoChannel == [buffer |-> <<>>, capacity |-> 0, since |-> 0, base |-> 0]
Greater(a, b) == IF a > b THEN a ELSE b
Minus(a, b) == IF a > b THEN a - b ELSE 0

StreamInit ==
    /\ appended = 0 /\ publishing = [w \in Writers |-> Quiet]
    /\ channel = NoChannel /\ got = {} /\ lost = {} /\ conn = "closed"
    /\ cursor = 0 /\ seen = 0 /\ hasRecord = FALSE /\ shown = {} /\ refreshing = {} /\ breaks = 0

Break == breaks < MaxBreaks /\ breaks' = breaks + 1

-----------------------------------------------------------------------------
\* The server.

Append1(w) ==
    /\ publishing[w] = Quiet /\ appended < MaxEvents
    /\ appended' = appended + 1
    /\ publishing' = [publishing EXCEPT ![w] = [id |-> appended', to |-> conn = "open"]]
    /\ UNCHANGED <<channel, got, lost, conn, cursor, seen, hasRecord, shown, refreshing, breaks>>

\* A send that never waits.
Publish(w) ==
    LET id == publishing[w].id
    IN /\ publishing[w] # Quiet /\ publishing' = [publishing EXCEPT ![w] = Quiet]
       /\ IF ~publishing[w].to THEN UNCHANGED <<channel, lost>>
          ELSE IF Len(channel.buffer) < channel.capacity
          THEN channel' = [channel EXCEPT !.buffer = Append(@, id)] /\ UNCHANGED lost
          ELSE lost' = lost \cup {id} /\ UNCHANGED channel
       /\ UNCHANGED <<appended, got, conn, cursor, seen, hasRecord, shown, refreshing, breaks>>

\* Mutant: the replay starts with the event the viewer has already.
ReplayInclusive(since) == [k \in 1..Minus(appended + 1, since) |-> since + k - 1]

Replay(since) == [k \in 1..Minus(appended, since) |-> since + k]
BufferSize(since) == Greater(MinBuffer, Minus(appended + Slack, since))

Subscribe ==
    /\ conn = "retry" /\ conn' = "open"
    /\ channel' = [buffer |-> Replay(cursor), capacity |-> BufferSize(cursor), since |-> cursor, base |-> appended]
    /\ got' = {} /\ lost' = {}
    /\ UNCHANGED <<serverVars, pageVars, breaks>>

\* The request's context ends: the channel is taken off the list.
Unsubscribed ==
    /\ channel' = NoChannel /\ got' = {} /\ lost' = {}
    /\ publishing' = [w \in Writers |-> [publishing[w] EXCEPT !.to = FALSE]]

\* The control plane restarts with the events that had been saved.
ServerRestarts ==
    /\ Break /\ appended' \in 0..appended
    /\ publishing' = [w \in Writers |-> Quiet] /\ channel' = NoChannel /\ got' = {} /\ lost' = {}
    /\ conn' = (IF conn = "open" THEN "retry" ELSE conn)
    /\ refreshing' = {} /\ UNCHANGED <<cursor, seen, hasRecord, shown>>

-----------------------------------------------------------------------------
\* The viewer.

\* An event of the stream changes a record that is there.
Receive ==
    LET id == Head(channel.buffer)
    IN /\ conn = "open" /\ channel.buffer # <<>>
       /\ channel' = [channel EXCEPT !.buffer = Tail(@)] /\ got' = got \cup {id}
       /\ cursor' = Greater(cursor, id) /\ seen' = Greater(seen, id)
       /\ shown' = (IF hasRecord THEN shown \cup {id} ELSE shown)
       /\ UNCHANGED <<serverVars, lost, conn, hasRecord, refreshing, breaks>>

\* A broken connection is opened again; one that ends cleanly is not.
Disconnect ==
    /\ conn = "open" /\ Break /\ Unsubscribed
    /\ conn' \in {"retry", "ended"}
    /\ UNCHANGED <<appended, pageVars>>

\* The page is opened.
OpenPage ==
    /\ conn = "closed" /\ conn' = "retry"
    /\ UNCHANGED <<serverVars, channel, got, lost, pageVars, breaks>>

Pause ==
    /\ conn \notin {"closed", "paused"} /\ Break /\ Unsubscribed /\ conn' = "paused"
    /\ UNCHANGED <<appended, pageVars>>

Resume ==
    /\ conn = "paused" /\ conn' = "retry" /\ cursor' = seen
    /\ UNCHANGED <<serverVars, channel, got, lost, seen, hasRecord, shown, refreshing, breaks>>

\* The page reads the record when it opens and every eight seconds; a slow
\* answer may be overtaken by the next.
Refresh ==
    /\ conn \notin {"closed", "paused"}
    /\ Cardinality(refreshing) < MaxReads /\ refreshing' = refreshing \cup {appended}
    /\ UNCHANGED <<serverVars, channel, got, lost, conn, cursor, seen, hasRecord, shown, breaks>>

\* Mutant: a record read while the stream is up is not shown.
RefreshedOffline(n) ==
    /\ hasRecord' = TRUE /\ shown' = (IF hasRecord /\ conn = "open" THEN shown ELSE 1..n)
    /\ seen' = Greater(seen, n)

Refreshed(n) == hasRecord' = TRUE /\ shown' = 1..n /\ seen' = Greater(seen, n)

RefreshArrives ==
    \E n \in refreshing :
        /\ refreshing' = refreshing \ {n} /\ Refreshed(n)
        /\ UNCHANGED <<serverVars, channel, got, lost, conn, cursor, breaks>>

RefreshFails ==
    /\ refreshing # {} /\ Break /\ refreshing' = {}
    /\ UNCHANGED <<serverVars, channel, got, lost, conn, cursor, seen, hasRecord, shown>>

StreamNext ==
    \/ \E w \in Writers : Append1(w) \/ Publish(w)
    \/ Subscribe \/ ServerRestarts \/ Receive \/ Disconnect \/ OpenPage \/ Pause \/ Resume
    \/ Refresh \/ RefreshArrives \/ RefreshFails

\* Goroutines are scheduled, the retry timer and the page's interval fire,
\* and requests are answered.
StreamFairness ==
    /\ \A w \in Writers : WF_streamVars(Publish(w))
    /\ WF_streamVars(Subscribe) /\ WF_streamVars(Receive)
    /\ WF_streamVars(Refresh) /\ WF_streamVars(RefreshArrives)

StreamSpec == StreamInit /\ [][StreamNext]_streamVars /\ StreamFairness

-----------------------------------------------------------------------------
\* One subscription: every event after the cursor is received, waiting in the
\* channel, about to be sent or was lost to a full channel, and none of them
\* twice: registering and replaying under one lock leaves no gap and no
\* overlap between the replay and what is sent live.  The replay itself fits
\* the channel, or Subscribe would wait for a reader while it holds the lock.
SubscriptionExact ==
    LET inChannel == Range(channel.buffer)
        coming    == {publishing[w].id : w \in {v \in Writers : publishing[v].to}}
        parts     == <<got, inChannel, coming, lost>>
    IN conn = "open" =>
          /\ UNION Range(parts) = (channel.since + 1)..channel.base \cup (channel.base + 1)..appended
          /\ IsInjective(channel.buffer)
          /\ \A i, j \in DOMAIN parts : i # j => parts[i] \cap parts[j] = {}
          /\ Len(channel.buffer) <= channel.capacity
          /\ lost \subseteq (channel.base + 1)..appended

\* A page that is opened and not left paused ends up with the events the server has,
\* whatever was lost, overtaken or cut off on the way, also after a connection
\* that ended for good or a restart that lost the last events.
EventsReachViewer == <>[](conn \notin {"closed", "paused"}) => <>[](hasRecord /\ shown = 1..appended)
=============================================================================

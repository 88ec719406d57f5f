-------------------------- MODULE EventStreamProofs -------------------------
(***************************************************************************)
(* Machine-checked proofs about the services whose runs assume fairness:   *)
(* a subscription of the event stream leaves no gap and no overlap         *)
(* (EventStream.tla), for any number of writers and events and any sizes   *)
(* of the channel; what a direct dispatch answers is what the agent did    *)
(* (DirectDispatch.tla); what a scheduled job reports is what its          *)
(* executions came to (CronJobs.tla), for any number of suites, requests,  *)
(* overlapping firings and restarts.                                       *)
(***************************************************************************)
EXTENDS EventStream, DirectDispatch, CronJobs, SequenceTheorems, TLAPS

-----------------------------------------------------------------------------
(* What the channel's operations do to the events in it *)

LEMMA AppendEvent ==
    ASSUME NEW s \in Seq(Nat), NEW id \in Nat
    PROVE  /\ Append(s, id) \in Seq(Nat) /\ Len(Append(s, id)) = Len(s) + 1
           /\ Range(Append(s, id)) = Range(s) \cup {id}
           /\ IsInjective(s) /\ id \notin Range(s) => IsInjective(Append(s, id))
<1>1. /\ Append(s, id) \in Seq(Nat) /\ Len(Append(s, id)) = Len(s) + 1 /\ Len(s) \in Nat
      /\ \A i \in 1..Len(s) : Append(s, id)[i] = s[i]
      /\ Append(s, id)[Len(s) + 1] = id
      /\ DOMAIN s = 1..Len(s) /\ DOMAIN Append(s, id) = 1..(Len(s) + 1)
  OBVIOUS
<1>2. Range(Append(s, id)) = Range(s) \cup {id}
  BY <1>1 DEF Range
<1>3. IsInjective(s) /\ id \notin Range(s) => IsInjective(Append(s, id))
  BY <1>1 DEF Range, IsInjective
<1>4. QED
  BY <1>1, <1>2, <1>3

LEMMA TakeEvent ==
    ASSUME NEW s \in Seq(Nat), s # <<>>, IsInjective(s)
    PROVE  /\ Tail(s) \in Seq(Nat) /\ Len(Tail(s)) = Len(s) - 1 /\ Head(s) \in Range(s)
           /\ Range(Tail(s)) = Range(s) \ {Head(s)} /\ IsInjective(Tail(s))
<1>1. /\ Tail(s) \in Seq(Nat) /\ Len(Tail(s)) = Len(s) - 1 /\ Len(s) \in Nat \ {0} /\ Head(s) = s[1]
      /\ \A i \in 1..(Len(s) - 1) : Tail(s)[i] = s[i + 1]
      /\ DOMAIN s = 1..Len(s) /\ DOMAIN Tail(s) = 1..(Len(s) - 1)
  BY HeadTailProperties
<1>2. IsInjective(Tail(s))
  <2>1. ASSUME NEW i \in 1..(Len(s) - 1), NEW j \in 1..(Len(s) - 1), Tail(s)[i] = Tail(s)[j] PROVE i = j
    <3>1. i + 1 \in DOMAIN s /\ j + 1 \in DOMAIN s /\ s[i + 1] = s[j + 1]
      BY <1>1, <2>1
    <3>2. i + 1 = j + 1
      BY <3>1 DEF IsInjective
    <3>3. QED
      BY <3>2
  <2>2. QED
    BY <1>1, <2>1 DEF IsInjective
<1>3. ASSUME NEW n PROVE n \in Range(Tail(s)) <=> n \in Range(s) \ {Head(s)}
  <2>1. ASSUME NEW i \in 1..(Len(s) - 1), n = Tail(s)[i] PROVE n \in Range(s) \ {Head(s)}
    BY <1>1, <2>1 DEF Range, IsInjective
  <2>2. ASSUME NEW i \in 1..Len(s), n = s[i], n # s[1] PROVE n \in Range(Tail(s))
    <3>1. i - 1 \in 1..(Len(s) - 1) /\ Tail(s)[i - 1] = s[i]
      BY <1>1, <2>2
    <3>2. QED
      BY <1>1, <2>2, <3>1 DEF Range
  <2>3. QED
    BY <1>1, <2>1, <2>2 DEF Range
<1>4. Head(s) \in Range(s)
  BY <1>1 DEF Range
<1>5. Range(Tail(s)) = Range(s) \ {Head(s)}
  BY <1>3
<1>6. QED
  BY <1>1, <1>2, <1>4, <1>5

\* The replay is what comes after the cursor, once, and the channel has room for it.
LEMMA ReplayFits ==
    ASSUME appended \in Nat, NEW since \in Nat
    PROVE  /\ Replay(since) \in Seq(Nat) /\ IsInjective(Replay(since)) /\ BufferSize(since) \in Nat
           /\ Range(Replay(since)) = (since + 1)..appended /\ Len(Replay(since)) <= BufferSize(since)
<1>1. PICK n \in Nat : n = Minus(appended, since)
  <2>1. Minus(appended, since) \in Nat
    BY DEF Minus
  <2>2. QED
    BY <2>1
<1>2. Replay(since) = [k \in 1..n |-> since + k]
  BY <1>1 DEF Replay
<1>3. Replay(since) \in Seq(Nat) /\ Len(Replay(since)) = n /\ DOMAIN Replay(since) = 1..n
  BY <1>2
<1>4. IsInjective(Replay(since))
  BY <1>2 DEF IsInjective
<1>5. ASSUME NEW m PROVE m \in Range(Replay(since)) <=> m \in (since + 1)..appended
  <2>1. n = IF appended > since THEN appended - since ELSE 0
    BY <1>1 DEF Minus
  <2>2. m \in Range(Replay(since)) <=> \E k \in 1..n : m = since + k
    BY <1>2 DEF Range
  <2>3. ASSUME m \in (since + 1)..appended PROVE \E k \in 1..n : m = since + k
    <3>1. m - since \in 1..n /\ m = since + (m - since)
      BY <2>1, <2>3
    <3>2. QED
      BY <3>1
  <2>4. ASSUME NEW k \in 1..n, m = since + k PROVE m \in (since + 1)..appended
    BY <2>1, <2>4
  <2>5. QED
    BY <2>2, <2>3, <2>4
<1>6. BufferSize(since) \in Nat /\ n <= BufferSize(since)
  BY <1>1, StreamAssumption DEF BufferSize, Greater, Minus
<1>7. QED
  BY <1>3, <1>4, <1>5, <1>6

-----------------------------------------------------------------------------
(* The inductive invariant *)

Publications == [id : Nat, to : BOOLEAN]
Channels == [buffer : Seq(Nat), capacity : Nat, since : Nat, base : Nat]

StreamTyped ==
    /\ appended \in Nat /\ publishing \in [Writers -> Publications] /\ channel \in Channels
    /\ cursor \in Nat /\ seen \in Nat /\ refreshing \subseteq Nat

\* The events on their way to the channel.
Coming == {publishing[w].id : w \in {v \in Writers : publishing[v].to}}

\* Each of them has one writer.
OneWriter == \A v, w \in Writers : v # w /\ publishing[v].to /\ publishing[w].to => publishing[v].id # publishing[w].id

\* The events after the cursor, appended before and after the channel was made.
Due == (channel.since + 1)..channel.base \cup (channel.base + 1)..appended

\* An open subscription: what is due is in one of four places, once.  Only what
\* was appended after the channel was made is sent to it, or lost, and events
\* are sent only while there is a subscription.
OpenExact ==
    /\ channel.base <= appended
    /\ got \cup Range(channel.buffer) \cup Coming \cup lost = Due
    /\ got \cap Range(channel.buffer) = {} /\ got \cap Coming = {} /\ got \cap lost = {}
    /\ Range(channel.buffer) \cap Coming = {} /\ Range(channel.buffer) \cap lost = {} /\ Coming \cap lost = {}
    /\ Coming \subseteq (channel.base + 1)..appended /\ lost \subseteq (channel.base + 1)..appended
    /\ IsInjective(channel.buffer) /\ Len(channel.buffer) <= channel.capacity

StreamInv ==
    /\ StreamTyped /\ OneWriter
    /\ conn = "open" => OpenExact
    /\ conn # "open" => \A w \in Writers : ~publishing[w].to

\* The invariant says what SubscriptionExact does.
LEMMA ExactEnough == StreamInv => SubscriptionExact
<1> SUFFICES ASSUME StreamInv, conn = "open" PROVE SubscriptionExact
  BY DEF SubscriptionExact
<1>1. OpenExact
  BY DEF StreamInv
<1> DEFINE parts == <<got, Range(channel.buffer), Coming, lost>>
<1>2. DOMAIN parts = 1..4 /\ parts[1] = got /\ parts[2] = Range(channel.buffer) /\ parts[3] = Coming /\ parts[4] = lost
  OBVIOUS
<1>3. UNION Range(parts) = got \cup Range(channel.buffer) \cup Coming \cup lost
  <2> HIDE DEF parts
  <2>1. Range(parts) = {got, Range(channel.buffer), Coming, lost}
    BY <1>2 DEF Range
  <2>2. QED
    BY <2>1
<1>4. \A i, j \in DOMAIN parts : i # j => parts[i] \cap parts[j] = {}
  <2> HIDE DEF parts
  <2> SUFFICES ASSUME NEW i \in 1..4, NEW j \in 1..4, i # j PROVE parts[i] \cap parts[j] = {}
    BY <1>2
  <2>1. i \in {1, 2, 3, 4} /\ j \in {1, 2, 3, 4}
    OBVIOUS
  <2>2. QED
    BY <1>1, <1>2, <2>1 DEF OpenExact
<1>5. QED
  BY <1>1, <1>3, <1>4 DEF SubscriptionExact, OpenExact, Due, Coming

-----------------------------------------------------------------------------
(* The steps *)

\* A writer appends: its event is due and on its way.
LEMMA StreamAppends == ASSUME StreamInv, NEW w \in Writers, Append1(w) PROVE StreamInv'
<1>1. StreamTyped /\ OneWriter /\ (conn = "open" => OpenExact)
  BY DEF StreamInv
<1>2. /\ publishing[w] = Quiet /\ appended' = appended + 1 /\ appended \in Nat
      /\ UNCHANGED <<channel, got, lost, conn, cursor, seen, refreshing>>
  BY <1>1 DEF Append1, StreamTyped
<1>3. PICK new : new = [id |-> appended + 1, to |-> conn = "open"]
  OBVIOUS
<1>4. new \in Publications /\ new.id = appended + 1 /\ new.to = (conn = "open")
  BY <1>2, <1>3 DEF Publications
<1>5. /\ publishing' \in [Writers -> Publications] /\ publishing'[w] = new
      /\ \A v \in Writers \ {w} : publishing'[v] = publishing[v]
  BY <1>1, <1>2, <1>3, <1>4 DEF Append1, StreamTyped
<1>6. StreamTyped'
  BY <1>1, <1>2, <1>5 DEF StreamTyped
<1>7. ~publishing[w].to
  BY <1>2 DEF Quiet
<1>8. CASE conn # "open"
  <2>1. \A v \in Writers : ~publishing'[v].to
    BY <1>4, <1>5, <1>8 DEF StreamInv
  <2>2. QED
    BY <2>1, <1>2, <1>6, <1>8 DEF StreamInv, OneWriter
<1>9. CASE conn = "open"
  <2>1. OpenExact /\ channel \in Channels
    BY <1>1, <1>9 DEF StreamTyped
  <2>2. channel.base \in Nat /\ channel.since \in Nat
    BY <2>1 DEF Channels
  <2>3. Coming' = Coming \cup {appended + 1}
    <3>1. publishing'[w].to /\ publishing'[w].id = appended + 1
      BY <1>4, <1>5, <1>9
    <3>2. ASSUME NEW n PROVE n \in Coming' <=> n \in Coming \cup {appended + 1}
      BY <1>5, <1>7, <3>1 DEF Coming
    <3>3. QED
      BY <3>2
  <2>4. Due' = Due \cup {appended + 1} /\ appended + 1 \notin Due
    <3>1. channel.base <= appended /\ appended' = appended + 1 /\ channel' = channel
      BY <1>2, <2>1 DEF OpenExact
    <3>2. (channel.base + 1)..(appended + 1) = (channel.base + 1)..appended \cup {appended + 1}
      BY <1>2, <2>2, <3>1
    <3>3. appended + 1 \notin Due
      BY <1>2, <2>2, <3>1 DEF Due
    <3>4. QED
      BY <3>1, <3>2, <3>3 DEF Due
  <2>5. OpenExact'
    <3>1. appended + 1 \notin got \cup Range(channel.buffer) \cup Coming \cup lost
      BY <2>1, <2>4 DEF OpenExact
    <3>2. channel.base + 1 \in Nat /\ appended + 1 \in (channel.base + 1)..appended'
      BY <1>2, <2>1, <2>2 DEF OpenExact
    <3>3. (channel.base + 1)..appended \subseteq (channel.base + 1)..appended'
      BY <1>2, <2>2
    <3>4. channel.base <= appended'
      BY <1>2, <2>1, <2>2 DEF OpenExact
    <3>5. QED
      BY <1>2, <2>1, <2>3, <2>4, <3>1, <3>2, <3>3, <3>4 DEF OpenExact
  <2>6. OneWriter'
    <3>1. \A v \in Writers \ {w} : publishing[v].to => publishing[v].id # appended + 1
      BY <2>1, <1>2 DEF OpenExact, Coming
    <3>2. QED
      BY <1>1, <1>4, <1>5, <3>1 DEF OneWriter
  <2>7. QED
    BY <2>5, <2>6, <1>2, <1>6, <1>9 DEF StreamInv
<1> QED
  BY <1>8, <1>9

\* A writer sends: its event is in the channel, or lost because that is full.
LEMMA StreamPublishes == ASSUME StreamInv, NEW w \in Writers, Publish(w) PROVE StreamInv'
<1>1. StreamTyped /\ OneWriter /\ (conn = "open" => OpenExact)
  BY DEF StreamInv
<1>2. PICK id : id = publishing[w].id
  OBVIOUS
<1>3. /\ publishing' = [publishing EXCEPT ![w] = Quiet]
      /\ UNCHANGED <<appended, got, conn, cursor, seen, refreshing>>
      /\ IF ~publishing[w].to THEN UNCHANGED <<channel, lost>>
         ELSE IF Len(channel.buffer) < channel.capacity
         THEN channel' = [channel EXCEPT !.buffer = Append(@, id)] /\ UNCHANGED lost
         ELSE lost' = lost \cup {id} /\ UNCHANGED channel
  BY <1>2 DEF Publish
<1>4. Quiet \in Publications /\ ~Quiet.to
  BY DEF Quiet, Publications
<1>5. /\ publishing' \in [Writers -> Publications] /\ publishing'[w] = Quiet
      /\ \A v \in Writers \ {w} : publishing'[v] = publishing[v]
  BY <1>1, <1>3, <1>4 DEF StreamTyped
<1>6. OneWriter' /\ (conn # "open" => \A v \in Writers : ~publishing'[v].to)
  BY <1>1, <1>4, <1>5 DEF OneWriter, StreamInv
<1>7. CASE ~publishing[w].to
  <2>1. UNCHANGED <<channel, lost>> /\ Coming' = Coming
    BY <1>3, <1>4, <1>5, <1>7 DEF Coming
  <2>2. StreamTyped' /\ (conn = "open" => OpenExact')
    BY <1>1, <1>3, <1>5, <2>1 DEF StreamTyped, OpenExact, Due
  <2>3. QED
    BY <2>2, <1>3, <1>6 DEF StreamInv
<1>8. CASE publishing[w].to
  <2>1. conn = "open" /\ OpenExact
    BY <1>1, <1>8 DEF StreamInv
  <2>2. /\ id \in Nat /\ channel \in Channels /\ channel.buffer \in Seq(Nat) /\ channel.capacity \in Nat
        /\ channel.base \in Nat /\ channel.since \in Nat /\ id \in Coming
    BY <1>1, <1>2, <1>8 DEF StreamTyped, Publications, Channels, Coming
  <2>3. Coming' = Coming \ {id}
    <3>1. \A v \in Writers \ {w} : publishing[v].to => publishing[v].id # id
      BY <1>1, <1>2, <1>8 DEF OneWriter
    <3>2. QED
      BY <3>1, <1>2, <1>4, <1>5 DEF Coming
  <2>4. CASE Len(channel.buffer) < channel.capacity
    <3>1. channel' = [channel EXCEPT !.buffer = Append(@, id)] /\ lost' = lost
      BY <1>3, <1>8, <2>4
    <3>2. /\ Append(channel.buffer, id) \in Seq(Nat) /\ Len(Append(channel.buffer, id)) = Len(channel.buffer) + 1
          /\ Range(Append(channel.buffer, id)) = Range(channel.buffer) \cup {id}
          /\ IsInjective(Append(channel.buffer, id)) /\ Len(channel.buffer) \in Nat
      BY <2>1, <2>2, AppendEvent DEF OpenExact
    <3>3. /\ channel' \in Channels /\ channel'.buffer = Append(channel.buffer, id)
          /\ channel'.capacity = channel.capacity /\ channel'.base = channel.base /\ channel'.since = channel.since
      BY <2>2, <3>1, <3>2 DEF Channels
    <3>4. StreamTyped' /\ Due' = Due
      BY <1>1, <1>3, <1>5, <3>3 DEF StreamTyped, Due
    <3>5. Len(channel'.buffer) <= channel'.capacity
      BY <2>2, <2>4, <3>2, <3>3
    <3>6. OpenExact'
      BY <1>3, <2>1, <2>2, <2>3, <3>1, <3>2, <3>3, <3>4, <3>5 DEF OpenExact
    <3>7. QED
      BY <1>3, <1>6, <2>1, <3>4, <3>6 DEF StreamInv
  <2>5. CASE ~(Len(channel.buffer) < channel.capacity)
    <3>1. lost' = lost \cup {id} /\ channel' = channel
      BY <1>3, <1>8, <2>5
    <3>2. StreamTyped' /\ Due' = Due
      BY <1>1, <1>3, <1>5, <3>1 DEF StreamTyped, Due
    <3>3. OpenExact'
      BY <1>3, <2>1, <2>2, <2>3, <3>1, <3>2 DEF OpenExact
    <3>4. QED
      BY <1>3, <1>6, <2>1, <3>2, <3>3 DEF StreamInv
  <2>6. QED
    BY <2>4, <2>5
<1> QED
  BY <1>7, <1>8

\* The viewer subscribes: what is due is the replay.
LEMMA StreamSubscribes == ASSUME StreamInv, Subscribe PROVE StreamInv'
<1>1. StreamTyped /\ conn # "open" /\ \A w \in Writers : ~publishing[w].to
  BY DEF StreamInv, Subscribe
<1>2. /\ channel' = [buffer |-> Replay(cursor), capacity |-> BufferSize(cursor), since |-> cursor, base |-> appended]
      /\ conn' = "open" /\ got' = {} /\ lost' = {}
      /\ UNCHANGED <<appended, publishing, cursor, seen, refreshing>>
  BY DEF Subscribe, serverVars, pageVars
<1>3. appended \in Nat /\ cursor \in Nat
  BY <1>1 DEF StreamTyped
<1>4. /\ Replay(cursor) \in Seq(Nat) /\ IsInjective(Replay(cursor)) /\ BufferSize(cursor) \in Nat
      /\ Range(Replay(cursor)) = (cursor + 1)..appended /\ Len(Replay(cursor)) <= BufferSize(cursor)
  BY <1>3, ReplayFits
<1>5. /\ channel' \in Channels /\ channel'.buffer = Replay(cursor) /\ channel'.capacity = BufferSize(cursor)
      /\ channel'.since = cursor /\ channel'.base = appended
  BY <1>2, <1>3, <1>4 DEF Channels
<1>6. StreamTyped' /\ OneWriter' /\ Coming' = {}
  BY <1>1, <1>2, <1>5 DEF StreamTyped, OneWriter, Coming
<1>7. Due' = (cursor + 1)..appended
  BY <1>2, <1>3, <1>5 DEF Due
<1>8. OpenExact'
  BY <1>2, <1>3, <1>4, <1>5, <1>6, <1>7 DEF OpenExact
<1> QED
  BY <1>2, <1>6, <1>8 DEF StreamInv

\* The viewer receives the first event of the channel.
LEMMA StreamReceives == ASSUME StreamInv, Receive PROVE StreamInv'
<1>1. StreamTyped /\ OneWriter /\ conn = "open" /\ OpenExact /\ channel.buffer # <<>>
  BY DEF StreamInv, Receive
<1>2. PICK id : id = Head(channel.buffer)
  OBVIOUS
<1>3. /\ channel' = [channel EXCEPT !.buffer = Tail(@)] /\ got' = got \cup {id}
      /\ cursor' = Greater(cursor, id) /\ seen' = Greater(seen, id)
      /\ UNCHANGED <<appended, publishing, lost, conn, refreshing>>
  BY <1>2 DEF Receive, serverVars
<1>4. /\ channel \in Channels /\ channel.buffer \in Seq(Nat) /\ channel.capacity \in Nat
      /\ cursor \in Nat /\ seen \in Nat
  BY <1>1 DEF StreamTyped, Channels
<1>5. /\ Tail(channel.buffer) \in Seq(Nat) /\ Len(Tail(channel.buffer)) = Len(channel.buffer) - 1
      /\ id \in Range(channel.buffer) /\ Range(Tail(channel.buffer)) = Range(channel.buffer) \ {id}
      /\ IsInjective(Tail(channel.buffer)) /\ Len(channel.buffer) \in Nat
  BY <1>1, <1>2, <1>4, TakeEvent DEF OpenExact
<1>6. id \in Nat
  BY <1>4, <1>5, RangeOfSeq
<1>7. /\ channel' \in Channels /\ channel'.buffer = Tail(channel.buffer)
      /\ channel'.capacity = channel.capacity /\ channel'.base = channel.base /\ channel'.since = channel.since
  BY <1>3, <1>4, <1>5 DEF Channels
<1>8. cursor' \in Nat /\ seen' \in Nat
  BY <1>3, <1>4, <1>6 DEF Greater
<1>9. StreamTyped' /\ OneWriter' /\ Coming' = Coming /\ Due' = Due
  BY <1>1, <1>3, <1>7, <1>8 DEF StreamTyped, OneWriter, Coming, Due
<1>10. Len(channel'.buffer) <= channel'.capacity
  BY <1>1, <1>4, <1>5, <1>7 DEF OpenExact
<1>11. OpenExact'
  BY <1>1, <1>3, <1>5, <1>7, <1>9, <1>10 DEF OpenExact
<1> QED
  BY <1>1, <1>3, <1>9, <1>11 DEF StreamInv

\* The subscription ends, or there is none: nothing is sent to it any more.
LEMMA StreamCloses ==
    ASSUME StreamInv, conn' # "open", appended' \in Nat,
           publishing' \in [Writers -> Publications], \A w \in Writers : ~publishing'[w].to,
           channel' \in Channels, cursor' \in Nat, seen' \in Nat, refreshing' \subseteq Nat
    PROVE  StreamInv'
BY DEF StreamInv, StreamTyped, OneWriter

\* One subscription leaves no gap and no overlap (SubscriptionExact), whoever
\* writes, whatever is lost to a full channel and however often the viewer
\* disconnects, pauses or comes back with an old cursor.
THEOREM SubscriptionsExact == StreamSpec => []SubscriptionExact
<1>1. NoChannel \in Channels /\ Quiet \in Publications /\ ~Quiet.to
  BY DEF NoChannel, Channels, Quiet, Publications
<1>2. StreamInit => StreamInv
  BY <1>1 DEF StreamInit, StreamInv, StreamTyped, OneWriter
<1>3. StreamInv /\ [StreamNext]_streamVars => StreamInv'
  <2> SUFFICES ASSUME StreamInv, [StreamNext]_streamVars PROVE StreamInv'
    OBVIOUS
  <2>1. /\ StreamTyped /\ appended \in Nat /\ publishing \in [Writers -> Publications] /\ channel \in Channels
        /\ cursor \in Nat /\ seen \in Nat /\ refreshing \subseteq Nat
    BY DEF StreamInv, StreamTyped
  <2>2. ASSUME Unsubscribed
        PROVE  /\ channel' \in Channels /\ publishing' \in [Writers -> Publications]
               /\ \A w \in Writers : ~publishing'[w].to
    <3>1. ASSUME NEW w \in Writers
          PROVE  [publishing[w] EXCEPT !.to = FALSE] \in Publications /\ ~[publishing[w] EXCEPT !.to = FALSE].to
      BY <2>1 DEF Publications
    <3>2. QED
      BY <2>2, <3>1, <1>1 DEF Unsubscribed
  <2>3. CASE ServerRestarts
    <3>1. /\ conn' # "open" /\ appended' \in Nat /\ publishing' = [w \in Writers |-> Quiet] /\ channel' = NoChannel
          /\ refreshing' = {} /\ UNCHANGED <<cursor, seen>>
      BY <2>1, <2>3 DEF ServerRestarts
    <3>2. QED
      BY <1>1, <2>1, <3>1, StreamCloses
  <2>4. CASE Disconnect \/ Pause
    <3>1. conn' # "open" /\ Unsubscribed /\ UNCHANGED <<appended, cursor, seen, refreshing>>
      BY <2>4 DEF Disconnect, Pause, pageVars
    <3>2. QED
      BY <2>1, <2>2, <3>1, StreamCloses
  <2>5. CASE OpenPage \/ Resume
    <3>1. /\ conn # "open" /\ conn' # "open" /\ UNCHANGED <<appended, publishing, channel, seen, refreshing>>
          /\ cursor' \in {cursor, seen}
      BY <2>5 DEF OpenPage, Resume, serverVars, pageVars
    <3>2. \A w \in Writers : ~publishing'[w].to
      BY <3>1 DEF StreamInv
    <3>3. QED
      BY <2>1, <3>1, <3>2, StreamCloses
  <2>6. ASSUME UNCHANGED <<appended, publishing, channel, got, lost, conn, cursor>>,
               seen' \in Nat, refreshing' \subseteq Nat
        PROVE  StreamInv'
    BY <2>6 DEF StreamInv, StreamTyped, OneWriter, OpenExact, Coming, Due
  <2>7. CASE Refresh \/ RefreshFails
    BY <2>1, <2>6, <2>7 DEF Refresh, RefreshFails, serverVars
  <2>8. CASE RefreshArrives
    <3>1. PICK n \in refreshing :
              /\ refreshing' = refreshing \ {n} /\ Refreshed(n)
              /\ UNCHANGED <<serverVars, channel, got, lost, conn, cursor, breaks>>
      BY <2>8 DEF RefreshArrives
    <3>2. seen' \in Nat /\ refreshing' \subseteq Nat
      BY <2>1, <3>1 DEF Refreshed, Greater
    <3>3. QED
      BY <2>6, <3>1, <3>2 DEF serverVars
  <2>9. CASE UNCHANGED streamVars
    BY <2>1, <2>6, <2>9 DEF streamVars
  <2>10. QED
    BY <2>3, <2>4, <2>5, <2>7, <2>8, <2>9, StreamAppends, StreamPublishes, StreamSubscribes, StreamReceives
    DEF StreamNext
<1>4. QED
  BY <1>2, <1>3, ExactEnough, PTL DEF StreamSpec


-----------------------------------------------------------------------------
(* Direct dispatch *)

\* The order of the agent's steps, who can have ended the connection, and
\* that a connection which has ended ended the job's context.
DispatchInv ==
    /\ job \in {"none", "starting", "running", "sending", "gone"}
    /\ job \in {"none", "starting", "running"} => verdict = "none"
    /\ job \in {"sending", "gone"} => verdict \in {"ok", "failed"}
    /\ done => job = "gone"
    /\ answer = "ok" => verdict = "ok" \/ (stream = "ended" /\ client = "returned")
    /\ stream = "none" => job = "none"
    /\ stream \in {"none", "open", "dropped", "broken", "ended"}
    /\ stream \in {"dropped", "broken", "ended"} => stopping \/ job = "none"
    /\ client = "returned" \/ watcher = "gone" => stream \in {"dropped", "broken", "ended"}
    /\ client = "cleaning" => (answer = "ok" => verdict = "ok")

LEMMA DispatchStep == DispatchInv /\ [DispatchNext]_dispatchVars => DispatchInv'
<1> SUFFICES ASSUME DispatchInv, [DispatchNext]_dispatchVars PROVE DispatchInv'
  OBVIOUS
<1> USE DEF DispatchInv
<1>1. CASE UNCHANGED dispatchVars
  BY <1>1 DEF dispatchVars
<1>2. CASE Post
  BY <1>2 DEF Post, Return
<1>3. CASE Answered200 \/ ContextEnds \/ WatcherWakes
  BY <1>3 DEF Answered200, ContextEnds, WatcherWakes, agentVars
<1>4. CASE ReadDone
  <2>1. job = "gone" /\ verdict \in {"ok", "failed"}
    BY <1>4 DEF ReadDone
  <2>2. QED
    BY <1>4, <2>1 DEF ReadDone, DoneResult, agentVars
<1>5. CASE Cleanup
  BY <1>5 DEF Cleanup, StreamGone, Return
<1>6. CASE ReadFails
  <2>1. /\ client' = "returned" /\ (answer' \in {"canceled", "failed"} \/ (answer' = "ok" /\ stream = "ended"))
        /\ stream \in {"dropped", "broken", "ended"} /\ UNCHANGED <<stream, stopping, job, verdict, done>>
    BY <1>6 DEF ReadFails, Return, agentVars
  <2>2. QED
    BY <2>1
<1>a. CASE StreamBreaks \/ RequestEnds
  <2>1. /\ client \in {"posting", "reading"} /\ stream = "open"
        /\ stream' \in {"dropped", "broken", "ended"} /\ stopping' = (stopping \/ job # "none")
        /\ UNCHANGED <<client, answer, job, verdict, done>>
    BY <1>a DEF StreamBreaks, RequestEnds, StreamGone
  <2>2. QED
    BY <2>1
<1>7. CASE CancelJob
  BY <1>7 DEF CancelJob
<1>8. CASE WatcherDrops
  BY <1>8 DEF WatcherDrops, CancelRequest, StreamGone
<1>9. CASE RegisterJob \/ ExecutorReturns \/ StreamEnds
  BY <1>9 DEF RegisterJob, ExecutorReturns, StreamEnds
<1>10. QED
  BY <1>1, <1>2, <1>3, <1>4, <1>5, <1>6, <1>a, <1>7, <1>8, <1>9 DEF DispatchNext

\* Dispatch reports success only of a step that succeeded or whose answer ended
\* cleanly before done, and leaves no job behind that has not been told to stop,
\* wherever its run is canceled, the connection breaks or a cancel request gets
\* lost (agent/http_dispatcher.go, service.go): the safety half of
\* DirectDispatchFaithful.
THEOREM DispatchesHonest == DispatchSpec => []DispatchHonest
<1>1. DispatchInit => DispatchInv
  BY DEF DispatchInit, DispatchInv
<1>2. DispatchInv => DispatchHonest
  BY DEF DispatchInv, DispatchHonest, SuccessIsTrue, NoJobLeft
<1>3. QED
  BY <1>1, <1>2, DispatchStep, PTL DEF DispatchSpec

-----------------------------------------------------------------------------
(* Cron jobs *)

FiringType ==
    [at : {"idle", "loading", "creating", "waiting", "reporting", "saving", "saving_error", "ended"}, job : BOOLEAN,
     suite : 1..(Targets + 1), results : [1..Targets -> {"none", "healthy", "failed", "error"}],
     report : {"none", "passed", "failed"}]

\* The suites come one after the other, each has a result when the next one
\* begins, and a healthy result is that of an execution which has ended so.
FiringSound(f, executions) ==
    /\ f \in FiringType
    /\ f.at \in {"idle", "loading"} => f.suite = 1
    /\ f.at \in {"creating", "waiting"} => f.suite <= Targets
    /\ f.at = "reporting" => f.suite = Targets + 1
    /\ \A i \in 1..Targets : /\ i < f.suite => f.results[i] # "none"
                             /\ f.results[i] = "healthy" => i < f.suite /\ executions[i] = "healthy"
    /\ f.at \in {"idle", "loading", "creating", "waiting", "reporting"} => f.report = "none"
    /\ f.report = "passed" => \A i \in 1..Targets : executions[i] = "healthy"

Executions == [1..Targets -> {"none", "running", "healthy", "failed"}]

CronInv ==
    /\ cronJob \in [there : BOOLEAN, enabled : BOOLEAN, error : BOOLEAN]
    /\ edit \in [CronClients -> [op : {"none", "create", "update", "delete"},
                                 at : {"idle", "unschedule", "schedule", "store"}, enabled : BOOLEAN]]
    /\ firing \in [1..Firings -> FiringType]
    /\ execution \in [1..Firings -> Executions]
    /\ \A k \in 1..Firings : FiringSound(firing[k], execution[k])

\* One firing moves on: the others and what they started stay.
LEMMA OneFiring ==
    ASSUME CronInv, NEW k \in 1..Firings, NEW f, firing' = [firing EXCEPT ![k] = f],
           NEW es \in Executions, execution' = [execution EXCEPT ![k] = es], FiringSound(f, es)
    PROVE  /\ firing' \in [1..Firings -> FiringType] /\ execution' \in [1..Firings -> Executions]
           /\ \A l \in 1..Firings : FiringSound(firing'[l], execution'[l])
<1>1. f \in FiringType
  BY DEF FiringSound
<1>2. /\ firing \in [1..Firings -> FiringType] /\ execution \in [1..Firings -> Executions]
      /\ \A l \in 1..Firings : FiringSound(firing[l], execution[l])
  BY DEF CronInv
<1>3. firing' \in [1..Firings -> FiringType] /\ execution' \in [1..Firings -> Executions]
  BY <1>1, <1>2
<1>4. \A l \in 1..Firings : FiringSound(firing'[l], execution'[l])
  BY <1>2
<1>5. QED
  BY <1>3, <1>4

\* A suite gets its result.
LEMMA ResultSound ==
    ASSUME NEW f, NEW es \in Executions, FiringSound(f, es), f.at \in {"creating", "waiting"},
           NEW r \in {"healthy", "failed", "error"}, r = "healthy" => es[f.suite] = "healthy"
    PROVE  FiringSound([f EXCEPT !.results[f.suite] = r, !.suite = @ + 1,
                                 !.at = IF f.suite = Targets THEN "reporting" ELSE "creating"], es)
<1> DEFINE g == [f EXCEPT !.results[f.suite] = r, !.suite = @ + 1,
                          !.at = IF f.suite = Targets THEN "reporting" ELSE "creating"]
           rs == [f.results EXCEPT ![f.suite] = r]
<1>1. f \in FiringType /\ f.suite \in 1..Targets /\ Targets \in Nat
  BY CronAssumption DEF FiringSound, FiringType
<1> DEFINE at == IF f.suite = Targets THEN "reporting" ELSE "creating"
<1>2. rs \in [1..Targets -> {"none", "healthy", "failed", "error"}]
  BY <1>1 DEF FiringType
<1>3. \A i \in 1..Targets : rs[i] = IF i = f.suite THEN r ELSE f.results[i]
  BY <1>1 DEF FiringType
<1>4. at \in {"reporting", "creating"} /\ f.suite + 1 \in 1..(Targets + 1)
  BY <1>1
<1>5. g = [f EXCEPT !.results = rs, !.suite = f.suite + 1, !.at = at]
  BY <1>1 DEF FiringType
<1> HIDE DEF g, rs
<1>6. g.results = rs /\ g.suite = f.suite + 1 /\ g.report = f.report /\ g.at = at
  BY <1>1, <1>5 DEF FiringType
<1>7. g \in FiringType
  BY <1>1, <1>2, <1>4, <1>5 DEF FiringType
<1>8. \A i \in 1..Targets : /\ i < g.suite => g.results[i] # "none"
                            /\ g.results[i] = "healthy" => i < g.suite /\ es[i] = "healthy"
  BY <1>1, <1>3, <1>6 DEF FiringSound
<1>9. QED
  BY <1>1, <1>8, <1>6, <1>7 DEF FiringSound, g

\* Requests leave firings and executions alone.
LEMMA CronEdited ==
    ASSUME CronInv, NEW c \in CronClients, UNCHANGED <<firing, execution>>,
           \/ \E op \in {"create", "update", "delete"}, enabled \in BOOLEAN : Submit(c, op, enabled)
           \/ Unschedule(c) \/ Schedule(c) \/ \E written \in BOOLEAN : StoreJob(c, written)
    PROVE  CronInv'
<1> DEFINE EditType == [op : {"none", "create", "update", "delete"},
                        at : {"idle", "unschedule", "schedule", "store"}, enabled : BOOLEAN]
<1>1. edit \in [CronClients -> EditType] /\ edit[c] \in EditType /\ NoEdit \in EditType
  BY DEF CronInv, NoEdit
<1>2. edit' \in [CronClients -> EditType]
  <2>1. ASSUME NEW op \in {"create", "update", "delete"}, NEW enabled \in BOOLEAN, Submit(c, op, enabled)
        PROVE  edit' \in [CronClients -> EditType]
    BY <1>1, <2>1 DEF Submit
  <2>2. CASE Unschedule(c)
    BY <1>1, <2>2 DEF Unschedule
  <2>3. CASE Schedule(c)
    BY <1>1, <2>3 DEF Schedule
  <2>4. ASSUME NEW written \in BOOLEAN, StoreJob(c, written) PROVE edit' \in [CronClients -> EditType]
    BY <1>1, <2>4 DEF StoreJob
  <2>5. QED
    BY <2>1, <2>2, <2>3, <2>4
<1>3. cronJob' \in [there : BOOLEAN, enabled : BOOLEAN, error : BOOLEAN]
  <2>1. CASE UNCHANGED cronJob
    BY <2>1 DEF CronInv
  <2>2. ASSUME NEW written \in BOOLEAN, StoreJob(c, written)
        PROVE  cronJob' \in [there : BOOLEAN, enabled : BOOLEAN, error : BOOLEAN]
    <3>1. CASE UNCHANGED cronJob
      BY <3>1 DEF CronInv
    <3>2. CASE cronJob' = [there |-> edit[c].op # "delete", enabled |-> edit[c].enabled, error |-> FALSE]
      <4>1. edit[c].enabled \in BOOLEAN /\ (edit[c].op # "delete") \in BOOLEAN
        BY <1>1
      <4>2. QED
        BY <3>2, <4>1, Zenon
    <3>3. QED
      BY <2>2, <3>1, <3>2 DEF StoreJob
  <2>3. QED
    BY <2>1, <2>2 DEF Submit, Unschedule, Schedule
<1> HIDE DEF EditType
<1>4. QED
  BY <1>2, <1>3 DEF CronInv, EditType

LEMMA CronFires ==
    ASSUME CronInv, NEW k \in 1..Firings, Fire(k) \/ FiringStep(k) \/ \E sent \in BOOLEAN : Report(k, sent)
    PROVE  CronInv'
<1> DEFINE f == firing[k]
           es == execution[k]
<1>1. f \in FiringType /\ es \in Executions /\ FiringSound(f, es) /\ Targets \in Nat /\ Firings \in Nat
  BY CronAssumption DEF CronInv
<1>2. execution = [execution EXCEPT ![k] = es]
  BY DEF CronInv
<1>3. ASSUME NEW g, firing' = [firing EXCEPT ![k] = g], FiringSound(g, es), UNCHANGED <<execution, edit>>,
             cronJob' \in [there : BOOLEAN, enabled : BOOLEAN, error : BOOLEAN]
      PROVE  CronInv'
  <2>1. execution' = [execution EXCEPT ![k] = es]
    BY <1>2, <1>3
  <2>2. /\ firing' \in [1..Firings -> FiringType] /\ execution' \in [1..Firings -> Executions]
        /\ \A l \in 1..Firings : FiringSound(firing'[l], execution'[l])
    BY <1>1, <1>3, <2>1, OneFiring
  <2>3. QED
    BY <1>3, <2>2 DEF CronInv
<1>4. ASSUME UNCHANGED cronJob PROVE cronJob' \in [there : BOOLEAN, enabled : BOOLEAN, error : BOOLEAN]
  BY <1>4 DEF CronInv
<1>5. CASE Fire(k)
  <2> DEFINE g == [f EXCEPT !.at = "loading"]
  <2>1. f.at = "idle" /\ firing' = [firing EXCEPT ![k] = g] /\ UNCHANGED <<execution, edit, cronJob>>
    BY <1>5 DEF Fire, FiringAt, CronInv
  <2>2. FiringSound(g, es)
    BY <1>1, <2>1 DEF FiringSound, FiringType
  <2> HIDE DEF g
  <2>3. QED
    BY <1>3, <1>4, <2>1, <2>2
<1>6. ASSUME NEW loaded \in BOOLEAN, LoadJob(k, loaded) PROVE CronInv'
  <2> DEFINE at == IF ~(loaded /\ cronJob.there) THEN "ended" ELSE IF Targets = 0 THEN "reporting" ELSE "creating"
             g == [f EXCEPT !.at = at, !.job = cronJob.enabled]
  <2>1. f.at = "loading" /\ firing' = [firing EXCEPT ![k] = g] /\ UNCHANGED <<execution, edit, cronJob>>
    BY <1>6 DEF LoadJob, CronInv
  <2>2. cronJob.enabled \in BOOLEAN
    BY DEF CronInv
  <2>3. g.at = at /\ g.suite = f.suite /\ g.results = f.results /\ g.report = f.report
    BY <1>1 DEF FiringType
  <2>4. g \in FiringType
    BY <1>1, <2>2 DEF FiringType
  <2> HIDE DEF g
  <2>5. FiringSound(g, es)
    BY <1>1, <2>1, <2>3, <2>4 DEF FiringSound
  <2>6. QED
    BY <1>3, <1>4, <2>1, <2>5
<1>7. ASSUME NEW r \in {"healthy", "failed", "error"}, r = "healthy" => es[f.suite] = "healthy",
             f.at \in {"creating", "waiting"}, Result(k, r), UNCHANGED <<execution, edit, cronJob>>
      PROVE  CronInv'
  <2> DEFINE g == [f EXCEPT !.results[f.suite] = r, !.suite = @ + 1,
                            !.at = IF f.suite = Targets THEN "reporting" ELSE "creating"]
  <2>1. firing' = [firing EXCEPT ![k] = g]
    BY <1>7 DEF Result, CronInv
  <2>2. FiringSound(g, es)
    BY <1>1, <1>7, ResultSound
  <2> HIDE DEF g
  <2>3. QED
    BY <1>3, <1>4, <1>7, <2>1, <2>2
<1>8. ASSUME NEW accepted \in BOOLEAN, RunSuite(k, accepted) PROVE CronInv'
  <2>1. CASE ~accepted
    BY <1>7, <1>8, <2>1 DEF RunSuite
  <2>2. CASE accepted
    <3> DEFINE g == [f EXCEPT !.at = "waiting"]
               ds == [es EXCEPT ![f.suite] = "running"]
    <3>1. /\ f.at = "creating" /\ firing' = [firing EXCEPT ![k] = g] /\ UNCHANGED <<edit, cronJob>>
          /\ execution' = [execution EXCEPT ![k] = ds]
      BY <1>8, <2>2 DEF RunSuite, FiringAt, CronInv
    <3>2. f.suite \in 1..Targets /\ f.results[f.suite] # "healthy" /\ f.report = "none"
      BY <1>1, <3>1 DEF FiringSound, FiringType
    <3>3. ds \in Executions /\ \A i \in 1..Targets : ds[i] = IF i = f.suite THEN "running" ELSE es[i]
      BY <1>1, <3>2 DEF Executions
    <3> HIDE DEF ds
    <3>4. FiringSound(g, ds)
      <4>1. f \in FiringType
        BY <1>1 DEF FiringSound
      <4>2. g \in FiringType /\ g.at = "waiting" /\ g.suite = f.suite /\ g.results = f.results /\ g.report = "none"
        BY <3>2, <4>1 DEF FiringType
      <4> HIDE DEF g
      <4>3. ASSUME NEW i \in 1..Targets
            PROVE  /\ i < f.suite => f.results[i] # "none"
                   /\ f.results[i] = "healthy" => i < f.suite /\ ds[i] = "healthy"
        BY <1>1, <3>2, <3>3 DEF FiringSound
      <4>4. QED
        BY <3>2, <4>2, <4>3 DEF FiringSound
    <3> HIDE DEF g
    <3>5. /\ firing' \in [1..Firings -> FiringType] /\ execution' \in [1..Firings -> Executions]
          /\ \A l \in 1..Firings : FiringSound(firing'[l], execution'[l])
      BY <3>1, <3>3, <3>4, OneFiring
    <3>6. QED
      BY <3>1, <3>5 DEF CronInv
  <2>3. QED
    BY <2>1, <2>2
<1>9. CASE WaitForExecution(k)
  BY <1>7, <1>9 DEF WaitForExecution, TimedOut
<1>10. ASSUME NEW sent \in BOOLEAN, Report(k, sent) PROVE CronInv'
  <2> DEFINE at == IF sent THEN "saving" ELSE "saving_error"
             g == [f EXCEPT !.at = at, !.report = FormatResults(f.results)]
  <2>1. f.at = "reporting" /\ firing' = [firing EXCEPT ![k] = g] /\ UNCHANGED <<execution, edit, cronJob>>
    BY <1>10 DEF Report, CronInv
  <2>2. g.at = at /\ g.suite = f.suite /\ g.results = f.results /\ g.report = FormatResults(f.results)
    BY <1>1 DEF FiringType
  <2>3. FormatResults(f.results) \in {"passed", "failed"}
    BY DEF FormatResults
  <2>4. g \in FiringType
    BY <1>1, <2>3 DEF FiringType
  <2> HIDE DEF g
  <2>5. FormatResults(f.results) = "passed" => \A i \in 1..Targets : es[i] = "healthy"
    BY <1>1, <2>1 DEF FormatResults, FiringSound, FiringType
  <2>6. FiringSound(g, es)
    BY <1>1, <2>1, <2>2, <2>5, <2>4 DEF FiringSound
  <2>7. QED
    BY <1>3, <1>4, <2>1, <2>6
<1>11. ASSUME NEW written \in BOOLEAN, SaveRun(k, written) PROVE CronInv'
  <2> DEFINE g == [f EXCEPT !.at = "ended"]
  <2>1. f.at \in {"saving", "saving_error"} /\ firing' = [firing EXCEPT ![k] = g] /\ UNCHANGED <<execution, edit>>
    BY <1>11 DEF SaveRun, FiringAt, CronInv
  <2>2. FiringSound(g, es)
    BY <1>1, <2>1 DEF FiringSound, FiringType
  <2>3. f.job \in BOOLEAN
    BY <1>1 DEF FiringType
  <2>4. cronJob' \in [there : BOOLEAN, enabled : BOOLEAN, error : BOOLEAN]
    BY <1>11, <2>3 DEF SaveRun, CronInv
  <2> HIDE DEF g
  <2>5. QED
    BY <1>3, <2>1, <2>2, <2>4
<1>12. QED
  BY <1>5, <1>6, <1>8, <1>9, <1>10, <1>11 DEF FiringStep

LEMMA CronExecutionEnds ==
    ASSUME CronInv, NEW k \in 1..Firings, NEW i \in 1..Targets, NEW status \in {"healthy", "failed"},
           ExecutionEnds(k, i, status)
    PROVE  CronInv'
<1> DEFINE f == firing[k]
           es == execution[k]
           ds == [es EXCEPT ![i] = status]
<1>1. /\ es[i] = "running" /\ execution' = [execution EXCEPT ![k] = ds] /\ UNCHANGED <<firing, edit, cronJob>>
  BY DEF ExecutionEnds, CronInv
<1>2. f \in FiringType /\ es \in Executions /\ FiringSound(f, es)
  BY DEF CronInv
<1>3. ds \in Executions /\ \A j \in 1..Targets : ds[j] = IF j = i THEN status ELSE es[j]
  BY <1>2 DEF Executions
<1>4. firing' = [firing EXCEPT ![k] = f]
  BY <1>1 DEF CronInv
<1> HIDE DEF ds
<1>5. FiringSound(f, ds)
  BY <1>1, <1>2, <1>3 DEF FiringSound
<1> HIDE DEF f
<1>6. /\ firing' \in [1..Firings -> FiringType] /\ execution' \in [1..Firings -> Executions]
      /\ \A l \in 1..Firings : FiringSound(firing'[l], execution'[l])
  BY <1>1, <1>3, <1>4, <1>5, OneFiring
<1>7. QED
  BY <1>1, <1>6 DEF CronInv

LEMMA CronRestarted == ASSUME CronInv, SchedulerRestarts PROVE CronInv'
<1>1. /\ edit' = [c \in CronClients |-> NoEdit] /\ UNCHANGED <<cronJob, execution>>
      /\ firing' = [k \in 1..Firings |-> IF firing[k].at = "idle" THEN firing[k] ELSE [firing[k] EXCEPT !.at = "ended"]]
  BY DEF SchedulerRestarts
<1>2. ASSUME NEW k \in 1..Firings PROVE FiringSound(firing'[k], execution'[k])
  <2>1. FiringSound(firing[k], execution[k]) /\ firing[k] \in FiringType
    BY DEF CronInv
  <2>2. firing'[k] = firing[k] \/ firing'[k] = [firing[k] EXCEPT !.at = "ended"]
    BY <1>1
  <2>3. FiringSound([firing[k] EXCEPT !.at = "ended"], execution[k])
    BY <2>1 DEF FiringSound, FiringType
  <2>4. QED
    BY <1>1, <2>1, <2>2, <2>3
<1>3. firing' \in [1..Firings -> FiringType]
  <2>1. \A k \in 1..Firings : firing'[k] \in FiringType
    BY <1>2 DEF FiringSound
  <2>2. QED
    BY <1>1, <2>1
<1>4. QED
  BY <1>1, <1>2, <1>3 DEF CronInv, NoEdit

\* A report that says all suites passed is true of executions that have ended,
\* for any number of suites, firings, requests and restarts (cronjobs/service.go):
\* the safety half of CronReportsHonest.
THEOREM CronReportsTrue == CronSpec => []PassedReportsTrue
<1>1. CronInit => CronInv
  <2> SUFFICES ASSUME CronInit PROVE CronInv
    OBVIOUS
  <2>1. NoFiring \in FiringType
    BY CronAssumption DEF NoFiring, FiringType
  <2>2. \A es : FiringSound(NoFiring, es)
    BY <2>1 DEF FiringSound, NoFiring
  <2>3. execution \in [1..Firings -> Executions]
    BY DEF CronInit, Executions
  <2>4. QED
    BY <2>1, <2>2, <2>3 DEF CronInit, CronInv, NoEdit
<1>2. CronInv /\ [CronNext]_cronVars => CronInv'
  <2> SUFFICES ASSUME CronInv, [CronNext]_cronVars PROVE CronInv'
    OBVIOUS
  <2>1. CASE UNCHANGED cronVars
    BY <2>1 DEF cronVars, CronInv
  <2>2. ASSUME NEW c \in CronClients,
               \/ \E op \in {"create", "update"}, enabled \in BOOLEAN : Submit(c, op, enabled)
               \/ Submit(c, "delete", FALSE) \/ Unschedule(c) \/ Schedule(c)
               \/ \E written \in BOOLEAN : StoreJob(c, written)
        PROVE  CronInv'
    <3>1. UNCHANGED <<firing, execution>>
      BY <2>2 DEF Submit, Unschedule, Schedule, StoreJob
    <3>2. QED
      BY <2>2, <3>1, CronEdited
  <2>3. QED
    BY <2>1, <2>2, CronFires, CronExecutionEnds, CronRestarted DEF CronNext
<1>3. CronInv => PassedReportsTrue
  BY DEF CronInv, FiringSound, PassedReportsTrue, ReportTrue
<1>4. QED
  BY <1>1, <1>2, <1>3, PTL DEF CronSpec
=============================================================================

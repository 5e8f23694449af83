------------------------------ MODULE LiveFeed ------------------------------
(***************************************************************************)
(* A session's events on their way to whoever watches it.  Writers put an  *)
(* event in the store, which numbers it, and then on the daemon's one      *)
(* broadcast bus (chat.rs, write_events; webhook_bridge.rs).  A WebSocket  *)
(* room replays the store and follows the bus (stream_ws.rs); the stream   *)
(* of a chat request follows the bus from before its run has a session     *)
(* until its reply (stream.rs).                                            *)
(*                                                                         *)
(* An event is its session and its number.  The bus is kept whole here: a  *)
(* receiver is a position on it, and has lagged when more than BusCap      *)
(* events follow.                                                          *)
(***************************************************************************)
EXTENDS Integers, Sequences, SequencesExt, FiniteSetsExt

CONSTANTS
    Sessions,
    Bridged,        \* the session of a webhook conversation: it exists already
    Runs,           \* chat requests made over the stream route
    Bridges,        \* webhook drivers
    Rooms,          \* WebSocket clients, each of the Bridged session
    BusCap,         \* the bus holds this many events
    PendingCap,     \* MAX_PENDING_BUFFERED
    MaxEvents,      \* bound: events on the bus
    MaxDrops,       \* bound: connections a client loses
    New, None

VARIABLES
    log,      \* how many events the store has of each session
    opened,   \* sessions that exist
    hand,     \* the event a writer has stored and not yet published
    bus,      \* every event sent
    run,      \* the chat runs
    feed,     \* the chat streams
    room      \* the WebSocket clients

vars == <<log, opened, hand, bus, run, feed, room>>

Writers == Runs \cup Bridges
Event == [session : Sessions, seq : Nat \ {0}]

ASSUME FeedAssumption ==
    /\ Bridged \in Sessions
    /\ New \notin Sessions
    /\ None \notin Sessions \cup Event \cup {New}
    /\ {"pending", "absent", "closed", "reply", "error", "taken"} \cap (Sessions \cup {None}) = {}
    /\ Runs \cap Bridges = {}
    /\ BusCap \in Nat \ {0}
    /\ PendingCap \in Nat \ {0}
    /\ MaxEvents \in Nat
    /\ MaxDrops \in Nat

Init ==
    /\ log = [s \in Sessions |-> 0]
    /\ opened = {Bridged}
    /\ hand = [w \in Writers |-> None]
    /\ bus = <<>>
    /\ run = [r \in Runs |-> [pc |-> "idle", key |-> None, session |-> None, wrote |-> {}]]
    /\ feed = [r \in Runs |->
                  [poll |-> "off", at |-> 0, filter |-> None, notify |-> None, reply |-> None,
                   buffered |-> <<>>, out |-> <<>>, lagged |-> FALSE]]
    /\ room = [c \in Rooms |->
                  [pc |-> "off", at |-> 0, since |-> 0, floor |-> 0, replay |-> <<>>,
                   got |-> <<>>, before |-> 0, lagged |-> FALSE, drops |-> 0]]

-----------------------------------------------------------------------------
(* Writers.                                                                *)

\* Bound: the events of the run, those in hand included.
Budget == Len(bus) + Cardinality({w \in Writers : hand[w] # None}) < MaxEvents

\* append_event numbers the event inside the store's transaction.  A session
\* it cannot append to costs the event, not the writer.
AppendEvent(w, s) ==
    /\ hand[w] = None
    /\ Budget
    /\ log' = [log EXCEPT ![s] = @ + 1]
    /\ hand' = [hand EXCEPT ![w] = [session |-> s, seq |-> log[s] + 1]]

\* A run's writer files its next event.
WriteEvent(r) ==
    /\ run[r].pc = "owned"
    /\ AppendEvent(r, run[r].session)
    /\ run' = [run EXCEPT ![r].wrote = @ \cup {log[run[r].session] + 1}]
    /\ UNCHANGED <<opened, bus, feed, room>>

\* route_message records an inbound message; it asks for no session's lock.
RouteMessage(b) ==
    /\ AppendEvent(b, Bridged)
    /\ UNCHANGED <<opened, bus, run, feed, room>>

Publish(w) ==
    /\ hand[w] # None
    /\ bus' = Append(bus, hand[w])
    /\ hand' = [hand EXCEPT ![w] = None]
    /\ UNCHANGED <<log, opened, run, feed, room>>

-----------------------------------------------------------------------------
(* Chat runs, as far as their stream can tell.                             *)

\* chat_stream subscribes to the bus, then spawns the run.
ChatStream(r, key) ==
    /\ run[r].pc = "idle"
    /\ run' = [run EXCEPT ![r].pc = "waiting", ![r].key = key]
    /\ feed' = [feed EXCEPT ![r].poll = "bus", ![r].at = Len(bus),
                            ![r].filter = IF key = New THEN "pending" ELSE key]
    /\ UNCHANGED <<log, opened, hand, bus, room>>

\* The run has its key's lock and its session, and reports it before it writes
\* its first event; nothing is awaited between the two.
Own(r, s) ==
    /\ run[r].pc = "waiting"
    /\ \A q \in Runs : run[q].pc = "owned" => run[q].key # run[r].key
    /\ IF run[r].key = New THEN s \notin opened ELSE s = run[r].key
    /\ run' = [run EXCEPT ![r].pc = "owned", ![r].session = s]
    /\ opened' = opened \cup {s}
    /\ feed' = [feed EXCEPT ![r].notify = IF run[r].key = New THEN s ELSE None]
    /\ UNCHANGED <<log, hand, bus, room>>

\* What a run may answer: an error at any time, a reply once it has its session.
Answer(r, answer) ==
    /\ answer = "reply" => run[r].pc = "owned"
    /\ run' = [run EXCEPT ![r].pc = "over"]
    /\ feed' = [feed EXCEPT ![r].reply = answer,
                            ![r].notify = IF @ = None THEN "closed" ELSE @]
    /\ UNCHANGED <<log, opened, hand, bus, room>>

\* Mutant of Finish: an error does not wait for the writer.
FinishUndrained(r) ==
    \E answer \in {"reply", "error"} :
        /\ \/ run[r].pc = "owned" /\ (answer = "error" \/ hand[r] = None)
           \/ run[r].pc = "waiting"
        /\ Answer(r, answer)

\* The reply, or the error of a run that has its session, follows the writer's last
\* event, however many the run wrote before it failed; one that fails for want of a
\* session has written none.
Finish(r) ==
    \E answer \in {"reply", "error"} :
        /\ \/ run[r].pc = "owned" /\ hand[r] = None
           \/ run[r].pc = "waiting"
        /\ Answer(r, answer)

-----------------------------------------------------------------------------
(* The stream: one poll looks at the bus, then at the reply, then at the   *)
(* session report, and other tasks run in between.                         *)

\* The events of one session, in order.
Matching(s, id) ==
    LET M[n \in 0..Len(s)] ==
            IF n = 0 THEN <<>>
            ELSE IF s[n].session = id THEN Append(M[n - 1], s[n]) ELSE M[n - 1]
    IN M[Len(s)]

\* flush_matching: the buffered events of the session, in order, into the queue
\* the stream empties before it polls anything: they have left.
FlushMatching(f, id) ==
    [f EXCEPT !.out = @ \o Matching(f.buffered, id), !.buffered = <<>>]

\* drain_session: what the report says now, without waiting for it.
DrainSession(f) ==
    IF f.filter # "pending" \/ f.notify = None THEN f
    ELSE IF f.notify = "closed" THEN [f EXCEPT !.filter = "absent", !.buffered = <<>>]
    ELSE [FlushMatching(f, f.notify) EXCEPT !.filter = f.notify]

\* push_pending sheds the oldest.
PushPending(f, e) ==
    [f EXCEPT !.buffered = Append(IF Len(@) >= PendingCap THEN Tail(@) ELSE @, e)]

\* One event off the bus.  When the report turns out to have freed buffered
\* events, those leave instead and this one is gone.
TakeEvent(f, e) ==
    LET g == DrainSession(f)
    IN CASE g.out # f.out -> g
         [] g.out = f.out /\ g.filter = "pending" -> PushPending(g, e)
         [] g.out = f.out /\ g.filter # "pending" ->
                IF e.session = g.filter THEN [g EXCEPT !.out = Append(@, e)] ELSE g

Oldest == IF Len(bus) > BusCap THEN Len(bus) - BusCap ELSE 0

StreamRecv(r) ==
    LET f == feed[r]
    IN /\ f.poll = "bus"
       /\ f.at < Len(bus)
       /\ feed' = [feed EXCEPT ![r] =
              IF f.at < Oldest THEN [f EXCEPT !.at = Oldest, !.lagged = TRUE]
              ELSE [TakeEvent(f, bus[f.at + 1]) EXCEPT !.at = f.at + 1]]
       /\ UNCHANGED <<log, opened, hand, bus, run, room>>

StreamBusEmpty(r) ==
    /\ feed[r].poll = "bus"
    /\ feed[r].at = Len(bus)
    /\ feed' = [feed EXCEPT ![r].poll = "rest"]
    /\ UNCHANGED <<log, opened, hand, bus, run, room>>

\* The stream's `done` or `error` event.
LastFrame(answer) == [session |-> answer, seq |-> 0]
IsLast(e) == e.seq = 0

\* The reply or the error: what is buffered of the session goes first, then the
\* terminal event.  A run that failed before it owned a session leaves nothing of its own.
StreamReply(r) ==
    LET f == DrainSession(feed[r])
        \* a reply is made by a run that has its session, and names it
        id == IF f.filter \in Sessions THEN f.filter ELSE run[r].session
        g == IF f.filter \in Sessions \/ f.reply = "reply" THEN FlushMatching(f, id)
             ELSE [f EXCEPT !.buffered = <<>>]
    IN /\ f.poll = "rest"
       /\ f.reply \in {"reply", "error"}
       /\ feed' = [feed EXCEPT ![r] = [g EXCEPT !.poll = "bus", !.reply = "taken",
                                                !.out = Append(@, LastFrame(f.reply))]]
       /\ UNCHANGED <<log, opened, hand, bus, run, room>>

\* Nothing on the bus and nobody left to reply: the stream ends.
StreamEnd(r) ==
    /\ feed[r].poll = "rest"
    /\ feed[r].reply = "taken"
    /\ feed' = [feed EXCEPT ![r].poll = "over"]
    /\ UNCHANGED <<log, opened, hand, bus, run, room>>

\* The report is learned on its own, or there is nothing: the task sleeps until
\* something wakes it, and polls from the start.
StreamLearn(r) ==
    /\ feed[r].poll = "rest"
    /\ feed[r].reply # "taken"
    /\ feed[r].filter = "pending" /\ feed[r].notify # None
    /\ feed' = [feed EXCEPT ![r] = [DrainSession(feed[r]) EXCEPT !.poll = "bus"]]
    /\ UNCHANGED <<log, opened, hand, bus, run, room>>

StreamSleep(r) ==
    /\ feed[r].poll = "rest"
    /\ feed[r].reply = None
    /\ ~(feed[r].filter = "pending" /\ feed[r].notify # None)
    /\ feed' = [feed EXCEPT ![r].poll = "bus"]
    /\ UNCHANGED <<log, opened, hand, bus, run, room>>

Poll(r) == \/ StreamRecv(r) \/ StreamBusEmpty(r) \/ StreamReply(r)
           \/ StreamEnd(r) \/ StreamLearn(r) \/ StreamSleep(r)

-----------------------------------------------------------------------------
(* The WebSocket room.                                                     *)

Seen(c) == IF room[c].got = <<>> THEN 0 ELSE Last(room[c].got)

\* A client connects and says the last number it saw; if it says nothing in time, or
\* nothing that can be read, it counts as one that has seen none.  The room
\* subscribes to the bus.
Connect(c) ==
    /\ room[c].pc = "off"
    /\ \E since \in {0, Seen(c)} :
           room' = [room EXCEPT ![c].pc = "subscribed", ![c].at = Len(bus), ![c].since = since]
    /\ UNCHANGED <<log, opened, hand, bus, run, feed>>

\* events_from: the store's events after that number.
ReadStore(c) ==
    LET missed == [i \in 1..(log[Bridged] - room[c].since) |-> room[c].since + i]
    IN /\ room[c].pc = "subscribed"
       /\ room' = [room EXCEPT ![c].pc = "replaying", ![c].floor = room[c].since,
                               ![c].replay = missed]
       /\ UNCHANGED <<log, opened, hand, bus, run, feed>>

\* Mutant of Replay: the floor stays where the client said it was.
ReplayFloorless(c) ==
    LET m == room[c] IN
    /\ m.pc = "replaying"
    /\ room' = [room EXCEPT ![c] =
           IF m.replay = <<>> THEN [m EXCEPT !.pc = "live"]
           ELSE [m EXCEPT !.got = Append(m.got, Head(m.replay)), !.replay = Tail(m.replay)]]
    /\ UNCHANGED <<log, opened, hand, bus, run, feed>>

\* Mutant of Replay: the bus is subscribed to once the replay is over.
ReplayThenSubscribe(c) ==
    LET m == room[c] IN
    /\ m.pc = "replaying"
    /\ room' = [room EXCEPT ![c] =
           IF m.replay = <<>> THEN [m EXCEPT !.pc = "live", !.at = Len(bus)]
           ELSE [m EXCEPT !.got = Append(m.got, Head(m.replay)), !.replay = Tail(m.replay),
                          !.floor = Head(m.replay)]]
    /\ UNCHANGED <<log, opened, hand, bus, run, feed>>

\* The replay, an event at a time; the floor rises with it.
Replay(c) ==
    LET m == room[c] IN
    /\ m.pc = "replaying"
    /\ room' = [room EXCEPT ![c] =
           IF m.replay = <<>> THEN [m EXCEPT !.pc = "live"]
           ELSE [m EXCEPT !.got = Append(m.got, Head(m.replay)), !.replay = Tail(m.replay),
                          !.floor = Head(m.replay)]]
    /\ UNCHANGED <<log, opened, hand, bus, run, feed>>

\* The live half: another session's event and one not above the floor are passed over.
RoomRecv(c) ==
    LET m == room[c]
        e == bus[m.at + 1]
    IN /\ m.pc = "live"
       /\ m.at < Len(bus)
       /\ room' = [room EXCEPT ![c] =
              IF m.at < Oldest THEN [m EXCEPT !.at = Oldest, !.lagged = TRUE]
              ELSE IF e.session = Bridged /\ e.seq > m.floor
              THEN [m EXCEPT !.at = m.at + 1, !.floor = e.seq, !.got = Append(m.got, e.seq)]
              ELSE [m EXCEPT !.at = m.at + 1]]
       /\ UNCHANGED <<log, opened, hand, bus, run, feed>>

\* The connection is lost, wherever it was, and the room with it: `before` is what the
\* client had been sent until then.
Disconnect(c) ==
    /\ room[c].pc # "off"
    /\ room[c].drops < MaxDrops
    /\ room' = [room EXCEPT ![c].pc = "off", ![c].at = 0, ![c].since = 0, ![c].floor = 0,
                            ![c].replay = <<>>, ![c].before = Len(room[c].got), ![c].drops = @ + 1]
    /\ UNCHANGED <<log, opened, hand, bus, run, feed>>

Attend(c) == Connect(c) \/ ReadStore(c) \/ Replay(c) \/ RoomRecv(c)

-----------------------------------------------------------------------------
Next ==
    \/ \E r \in Runs : \/ \E key \in opened \cup {New} : ChatStream(r, key)
                       \/ \E s \in Sessions : Own(r, s)
                       \/ WriteEvent(r) \/ Finish(r) \/ Poll(r)
    \/ \E b \in Bridges : RouteMessage(b)
    \/ \E w \in Writers : Publish(w)
    \/ \E c \in Rooms : Attend(c) \/ Disconnect(c)

Spec == Init /\ [][Next]_vars

-----------------------------------------------------------------------------
\* Numbers that went out after a greater one of their session, or still may.
Overtaken ==
    {n \in 1..log[Bridged] :
        \/ \E w \in Writers : hand[w] = [session |-> Bridged, seq |-> n]
        \/ \E i, j \in DOMAIN bus : /\ i < j
                                    /\ bus[j] = [session |-> Bridged, seq |-> n]
                                    /\ bus[i].session = Bridged /\ bus[i].seq > n}

\* What a client has not been sent of the numbers up to any it was sent, it lagged
\* behind or another writer's event overtook: the replay and the bus leave no gap
\* between them, on the first connection or a later one.
GapsExplained ==
    \A c \in Rooms : \A m \in ToSet(room[c].got) : \A n \in 1..m :
        n \in ToSet(room[c].got) \/ room[c].lagged \/ n \in Overtaken

\* "Without duplicates", and "the stream filters by session": what a connection is sent
\* ascends strictly, from above the number its handshake named, so that only a client
\* whose handshake was lost is sent a number again; and whatever the order in which
\* report, events and reply arrive, all that leaves on a stream is of the stream's own
\* session.
InOrderAndOwn ==
    /\ \A c \in Rooms : LET m == room[c] IN
           \A i \in DOMAIN m.got : i > m.before =>
               /\ m.got[i] > m.since
               /\ \A j \in DOMAIN m.got : i < j => m.got[i] < m.got[j]
    /\ \A r \in Runs : \A i \in DOMAIN feed[r].out :
           ~IsLast(feed[r].out[i]) =>
               feed[r].out[i].session = IF run[r].key = New THEN run[r].session ELSE run[r].key

\* A stream that never lagged and has ended carried every event its run wrote, and its
\* answer once, whether that was a reply or the error of a run that failed after it
\* wrote: none is shed while the session is unknown.
StreamComplete ==
    \A r \in Runs : feed[r].poll = "over" =>
        /\ Cardinality({i \in DOMAIN feed[r].out : IsLast(feed[r].out[i])}) = 1
        /\ feed[r].lagged \/ \A n \in run[r].wrote :
               \E i \in DOMAIN feed[r].out : feed[r].out[i] = [session |-> run[r].session, seq |-> n]

=============================================================================

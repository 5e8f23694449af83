--------------------------- MODULE LiveFeedProofs ---------------------------
(***************************************************************************)
(* Whoever watches a session sees it in order, whole and alone, for every  *)
(* number of sessions, runs, bridges and rooms and every size of the bus   *)
(* and of a stream's buffer.                                               *)
(***************************************************************************)
EXTENDS LiveFeed, FiniteSetTheorems, WellFoundedInduction, TLAPS

-----------------------------------------------------------------------------
(* The inductive invariant, in parts                                       *)

Numbered(s, n) == [session |-> s, seq |-> n]
InHand(e) == \E w \in Writers : hand[w] = e
OnBus(e) == \E j \in DOMAIN bus : bus[j] = e

\* Every number given is in a writer's hand or on the bus, and no other is.
StoreInv ==
    /\ log \in [Sessions -> Nat]
    /\ opened \subseteq Sessions /\ Bridged \in opened
    /\ hand \in [Writers -> Event \cup {None}]
    /\ bus \in Seq(Event)
    /\ \A w \in Writers : hand[w] # None =>
           hand[w].session \in opened /\ hand[w].seq <= log[hand[w].session]
    /\ \A j \in DOMAIN bus : bus[j].session \in opened /\ bus[j].seq <= log[bus[j].session]
    /\ \A s \in Sessions : \A n \in 1..log[s] : InHand(Numbered(s, n)) \/ OnBus(Numbered(s, n))

\* A greater number went out before this one, which is still in hand or went out after.
Passed(n) ==
    \E i \in DOMAIN bus :
        /\ bus[i].session = Bridged /\ bus[i].seq > n
        /\ \/ InHand(Numbered(Bridged, n))
           \/ \E j \in DOMAIN bus : i < j /\ bus[j] = Numbered(Bridged, n)

RoomType ==
    [pc : {"off", "subscribed", "replaying", "live"}, at : Nat, since : Nat, floor : Nat,
     replay : Seq(Nat), got : Seq(Nat), before : Nat, lagged : BOOLEAN, drops : Nat]

\* Bridged events up to a place on the bus are not above the number.
Below(at, top) == \A i \in DOMAIN bus : i <= at /\ bus[i].session = Bridged => bus[i].seq <= top

\* What a client has not been sent up to a number, it lagged behind or a greater one passed.
Covered(m, top) == m.lagged = FALSE => \A n \in 1..top : n \in ToSet(m.got) \/ Passed(n)

\* What a client has been sent is in the store, and is covered.
SentInv(m) == \A i \in DOMAIN m.got : m.got[i] \in 1..log[Bridged] /\ Covered(m, m.got[i])

\* What this connection has sent ascends from the number the client gave.
OrderInv(m) ==
    /\ m.before <= Len(m.got)
    /\ m.since <= log[Bridged] /\ Covered(m, m.since)
    /\ \A i \in DOMAIN m.got : i > m.before =>
           /\ m.got[i] > m.since
           /\ \A j \in DOMAIN m.got : i < j => m.got[i] < m.got[j]

\* Nothing this connection has sent is above its floor, up to which all is covered.
FloorInv(m) ==
    /\ m.since <= m.floor /\ m.floor <= log[Bridged]
    /\ Covered(m, m.floor)
    /\ \A i \in DOMAIN m.got : i > m.before => m.got[i] <= m.floor

\* What is on the bus behind a room it has sent, or is about to send out of the store.
PhaseInv(m) ==
    /\ m.pc \in {"off", "subscribed"} => m.before = Len(m.got)
    /\ m.pc \in {"replaying", "live"} => FloorInv(m)
    /\ m.pc = "replaying" =>
           /\ \A i \in DOMAIN m.replay : m.replay[i] = m.floor + i
           /\ m.floor + Len(m.replay) <= log[Bridged]
           /\ Below(m.at, m.floor + Len(m.replay))
    /\ m.pc = "live" => (m.lagged = FALSE => Below(m.at, m.floor))

RoomInv(m) == m.at <= Len(bus) /\ SentInv(m) /\ OrderInv(m) /\ PhaseInv(m)

RoomsInv == room \in [Rooms -> RoomType] /\ \A c \in Rooms : RoomInv(room[c])

RunType ==
    [pc : {"idle", "waiting", "owned", "over"}, key : Sessions \cup {New, None},
     session : Sessions \cup {None}, wrote : SUBSET (Nat \ {0})]

Frame == [session : Sessions \cup {"reply", "error"}, seq : Nat]

FeedType ==
    [poll : {"off", "bus", "rest", "over"}, at : Nat, filter : Sessions \cup {"pending", "absent", None},
     notify : Sessions \cup {"closed", None}, reply : {None, "reply", "error", "taken"},
     buffered : Seq(Event), out : Seq(Frame), lagged : BOOLEAN]

\* The session a stream is of, once it has one.
OwnSession(q) == IF q.key = New THEN q.session ELSE q.key

\* A run q, the stream f that follows it, the event h in the run's hand, the sessions
\* that exist: what the stream may know of the run's session.
ReportInv(q, f, h, exist) ==
    /\ q.pc = "idle" => /\ f.poll = "off" /\ q.key = None /\ f.filter = None
                        /\ f.buffered = <<>> /\ f.out = <<>>
    /\ q.pc # "idle" => f.poll # "off" /\ q.key \in exist \cup {New}
    /\ q.pc \in {"idle", "waiting"} => q.session = None /\ f.notify = None
    /\ q.pc # "over" => f.reply = None
    /\ q.pc # "owned" => h = None
    /\ q.pc = "owned" => q.session # None
    /\ q.pc = "over" => f.notify # None /\ f.reply # None
    /\ f.reply = "reply" => q.session # None
    /\ q.session = None => q.wrote = {}
    /\ q.session # None => q.session \in exist /\ (q.key # New => q.session = q.key)
    /\ q.pc # "idle" /\ q.key # New => f.filter = q.key
    /\ q.key = New =>
           /\ q.session # None => f.notify = q.session /\ f.filter \in {"pending", q.session}
           /\ q.session = None => f.notify \in {None, "closed"} /\ f.filter \in {"pending", "absent"}
           /\ f.filter = "absent" => f.notify = "closed"

\* Nothing of the stream's own session is ever buffered: it is reported before its
\* first event.
BufferInv(q, f, exist) ==
    /\ f.filter # "pending" => f.buffered = <<>>
    /\ \A i \in DOMAIN f.buffered :
           f.buffered[i].session \in exist /\ f.buffered[i].session # q.session

\* What has left on the stream is its own session's, and one last frame.
OutInv(q, f) ==
    /\ \A i \in DOMAIN f.out : ~IsLast(f.out[i]) => f.out[i].session = OwnSession(q)
    /\ f.reply # "taken" => \A i \in DOMAIN f.out : ~IsLast(f.out[i])
    /\ f.reply = "taken" =>
           \E k \in DOMAIN f.out : \A i \in DOMAIN f.out : IsLast(f.out[i]) <=> i = k
    /\ f.poll = "over" => f.reply = "taken"

\* An event of the run has left, or is in hand or on the bus ahead of a stream that
\* has not looked there for the last time.
Arrives(q, f, h, sent, n) ==
    \/ \E i \in DOMAIN f.out : f.out[i] = Numbered(q.session, n)
    \/ /\ ~(f.poll \in {"rest", "over"} /\ f.reply = "taken")
       /\ \/ h = Numbered(q.session, n)
          \/ \E j \in DOMAIN sent : f.at < j /\ sent[j] = Numbered(q.session, n)

WholeInv(q, f, h, sent) ==
    /\ f.at <= Len(sent)
    /\ f.lagged = FALSE => \A n \in q.wrote : Arrives(q, f, h, sent, n)

StreamInv(q, f, h, exist, sent) ==
    ReportInv(q, f, h, exist) /\ BufferInv(q, f, exist) /\ OutInv(q, f) /\ WholeInv(q, f, h, sent)

StreamsInv ==
    /\ run \in [Runs -> RunType]
    /\ feed \in [Runs -> FeedType]
    /\ \A r \in Runs : StreamInv(run[r], feed[r], hand[r], opened, bus)

FeedInv == StoreInv /\ RoomsInv /\ StreamsInv

-----------------------------------------------------------------------------
(* The store and the bus                                                   *)

LEMMA StoreInit == Init => StoreInv
  BY FeedAssumption DEF Init, StoreInv, Writers

\* An append gives the next number, and leaves what is in other hands and on the bus.
LEMMA AppendKeeps ==
  ASSUME StoreInv, NEW w \in Writers, NEW s \in opened, AppendEvent(w, s),
         opened' = opened, bus' = bus
  PROVE  /\ StoreInv'
         /\ hand[w] = None /\ hand'[w] = Numbered(s, log[s] + 1)
         /\ \A v \in Writers \ {w} : hand'[v] = hand[v]
         /\ \A t \in Sessions : log[t] <= log'[t]
         /\ \A n \in Nat \ {0} : Passed(n) => Passed(n)'
  <1>1. /\ hand[w] = None
        /\ log' = [log EXCEPT ![s] = @ + 1]
        /\ hand' = [hand EXCEPT ![w] = Numbered(s, log[s] + 1)]
        /\ log[s] \in Nat /\ s \in Sessions
    BY DEF StoreInv, AppendEvent, Numbered
  <1>2. /\ Numbered(s, log[s] + 1) \in Event
        /\ Numbered(s, log[s] + 1).session = s /\ Numbered(s, log[s] + 1).seq = log[s] + 1
    BY <1>1 DEF Event, Numbered
  <1>3. /\ log' \in [Sessions -> Nat]
        /\ log'[s] = log[s] + 1
        /\ \A t \in Sessions : log[t] \in Nat /\ log[t] <= log'[t] /\ (t # s => log'[t] = log[t])
    BY <1>1 DEF StoreInv
  <1>4. /\ hand' \in [Writers -> Event \cup {None}]
        /\ hand'[w] = Numbered(s, log[s] + 1)
        /\ \A v \in Writers \ {w} : hand'[v] = hand[v]
    BY <1>1, <1>2 DEF StoreInv
  <1>5. \A e \in Event : InHand(e) => InHand(e)'
    BY <1>1, <1>4, FeedAssumption DEF InHand
  <1>6. \A e : OnBus(e) => OnBus(e)'
    BY DEF OnBus
  <1>7. \A v \in Writers : hand'[v] # None =>
            hand'[v].session \in opened /\ hand'[v].seq <= log'[hand'[v].session]
    <2> SUFFICES ASSUME NEW v \in Writers, hand'[v] # None
                 PROVE  hand'[v].session \in opened /\ hand'[v].seq <= log'[hand'[v].session]
      OBVIOUS
    <2>1. CASE v = w
      BY <1>1, <1>2, <1>3, <1>4, <2>1
    <2>2. CASE v # w
      <3>1. /\ hand'[v] = hand[v] /\ hand[v] \in Event
            /\ hand[v].session \in opened /\ hand[v].seq <= log[hand[v].session]
        BY <1>4, <2>2 DEF StoreInv
      <3>2. hand[v].seq \in Nat /\ hand[v].session \in Sessions
        BY <3>1 DEF Event
      <3> QED
        BY <1>3, <3>1, <3>2
    <2> QED
      BY <2>1, <2>2
  <1>8. \A j \in DOMAIN bus : bus[j].session \in opened /\ bus[j].seq <= log'[bus[j].session]
    <2> SUFFICES ASSUME NEW j \in DOMAIN bus
                 PROVE  bus[j].session \in opened /\ bus[j].seq <= log'[bus[j].session]
      OBVIOUS
    <2>1. bus[j] \in Event /\ bus[j].session \in opened /\ bus[j].seq <= log[bus[j].session]
      BY DEF StoreInv
    <2>2. bus[j].seq \in Nat /\ bus[j].session \in Sessions
      BY <2>1 DEF Event
    <2> QED
      BY <1>3, <2>1, <2>2
  <1>9. \A t \in Sessions : \A n \in 1..log'[t] : InHand(Numbered(t, n))' \/ OnBus(Numbered(t, n))'
    <2> SUFFICES ASSUME NEW t \in Sessions, NEW n \in 1..log'[t]
                 PROVE  InHand(Numbered(t, n))' \/ OnBus(Numbered(t, n))'
      OBVIOUS
    <2>1. CASE t = s /\ n = log[s] + 1
      BY <1>4, <2>1 DEF InHand
    <2>2. CASE ~(t = s /\ n = log[s] + 1)
      <3>1. n \in 1..log[t]
        BY <1>1, <1>3, <2>2
      <3>2. Numbered(t, n) \in Event
        BY <3>1 DEF Numbered, Event
      <3>3. InHand(Numbered(t, n)) \/ OnBus(Numbered(t, n))
        BY <3>1 DEF StoreInv
      <3> QED
        BY <1>5, <1>6, <3>2, <3>3
    <2> QED
      BY <2>1, <2>2
  <1>10. StoreInv'
    BY <1>3, <1>4, <1>7, <1>8, <1>9 DEF StoreInv
  <1>11. ASSUME NEW n \in Nat \ {0}, Passed(n) PROVE Passed(n)'
    <2>1. PICK i \in DOMAIN bus :
              /\ bus[i].session = Bridged /\ bus[i].seq > n
              /\ \/ InHand(Numbered(Bridged, n))
                 \/ \E j \in DOMAIN bus : i < j /\ bus[j] = Numbered(Bridged, n)
      BY <1>11 DEF Passed
    <2>2. InHand(Numbered(Bridged, n)) => InHand(Numbered(Bridged, n))'
      <3> SUFFICES ASSUME NEW v \in Writers, hand[v] = Numbered(Bridged, n)
                   PROVE  hand'[v] = Numbered(Bridged, n)
        BY DEF InHand
      <3>1. Numbered(Bridged, n) # None
        <4>1. Numbered(Bridged, n) \in Event
          BY FeedAssumption DEF Numbered, Event
        <4> QED
          BY <4>1, FeedAssumption
      <3> QED
        BY <1>1, <1>4, <3>1
    <2> QED
      BY <2>1, <2>2 DEF Passed
  <1> QED
    BY <1>1, <1>3, <1>4, <1>10, <1>11

\* What is published leaves the hand and follows all that is on the bus.
LEMMA PublishKeeps ==
  ASSUME StoreInv, NEW w \in Writers, Publish(w)
  PROVE  /\ StoreInv'
         /\ Len(bus') = Len(bus) + 1 /\ bus'[Len(bus) + 1] = hand[w] /\ hand'[w] = None
         /\ \A j \in DOMAIN bus : j \in DOMAIN bus' /\ bus'[j] = bus[j]
         /\ \A v \in Writers \ {w} : hand'[v] = hand[v]
         /\ \A n \in Nat \ {0} : Passed(n) => Passed(n)'
  <1>1. /\ hand[w] # None /\ hand[w] \in Event
        /\ bus' = Append(bus, hand[w])
        /\ hand' = [hand EXCEPT ![w] = None]
        /\ log' = log /\ opened' = opened
    BY DEF StoreInv, Publish
  <1>2. /\ bus' \in Seq(Event) /\ Len(bus') = Len(bus) + 1 /\ bus'[Len(bus) + 1] = hand[w]
        /\ DOMAIN bus = 1..Len(bus) /\ DOMAIN bus' = 1..(Len(bus) + 1) /\ Len(bus) \in Nat
        /\ \A j \in DOMAIN bus : j \in DOMAIN bus' /\ bus'[j] = bus[j]
    BY <1>1 DEF StoreInv
  <1>3. /\ hand' \in [Writers -> Event \cup {None}] /\ hand'[w] = None
        /\ \A v \in Writers \ {w} : hand'[v] = hand[v]
    BY <1>1 DEF StoreInv
  <1>4. \A e : InHand(e) \/ OnBus(e) => InHand(e)' \/ OnBus(e)'
    <2> SUFFICES ASSUME NEW e, InHand(e) \/ OnBus(e) PROVE InHand(e)' \/ OnBus(e)'
      OBVIOUS
    <2>1. CASE OnBus(e)
      BY <1>2, <2>1 DEF OnBus
    <2>2. ASSUME NEW v \in Writers, hand[v] = e PROVE InHand(e)' \/ OnBus(e)'
      <3>1. CASE v = w
        BY <1>2, <2>2, <3>1 DEF OnBus
      <3>2. CASE v # w
        BY <1>3, <2>2, <3>2 DEF InHand
      <3> QED
        BY <3>1, <3>2
    <2> QED
      BY <2>1, <2>2 DEF InHand
  <1>5. StoreInv'
    <2>1. \A v \in Writers : hand'[v] # None =>
              hand'[v].session \in opened /\ hand'[v].seq <= log[hand'[v].session]
      BY <1>3 DEF StoreInv
    <2>2. \A j \in DOMAIN bus' : bus'[j].session \in opened /\ bus'[j].seq <= log[bus'[j].session]
      <3> SUFFICES ASSUME NEW j \in DOMAIN bus'
                   PROVE  bus'[j].session \in opened /\ bus'[j].seq <= log[bus'[j].session]
        OBVIOUS
      <3>1. CASE j = Len(bus) + 1
        BY <1>1, <1>2, <3>1 DEF StoreInv
      <3>2. CASE j # Len(bus) + 1
        BY <1>2, <3>2 DEF StoreInv
      <3> QED
        BY <3>1, <3>2
    <2>3. \A t \in Sessions : \A n \in 1..log[t] : InHand(Numbered(t, n))' \/ OnBus(Numbered(t, n))'
      BY <1>4 DEF StoreInv
    <2> QED
      BY <1>1, <1>2, <1>3, <2>1, <2>2, <2>3 DEF StoreInv
  <1>6. ASSUME NEW n \in Nat \ {0}, Passed(n) PROVE Passed(n)'
    <2>1. PICK i \in DOMAIN bus :
              /\ bus[i].session = Bridged /\ bus[i].seq > n
              /\ \/ InHand(Numbered(Bridged, n))
                 \/ \E j \in DOMAIN bus : i < j /\ bus[j] = Numbered(Bridged, n)
      BY <1>6 DEF Passed
    <2>2. i \in DOMAIN bus' /\ bus'[i] = bus[i] /\ i < Len(bus) + 1
      BY <1>2
    <2>3. ASSUME NEW j \in DOMAIN bus, i < j, bus[j] = Numbered(Bridged, n) PROVE Passed(n)'
      BY <1>2, <2>1, <2>2, <2>3 DEF Passed
    <2>4. ASSUME NEW v \in Writers, hand[v] = Numbered(Bridged, n) PROVE Passed(n)'
      <3>1. CASE v = w
        BY <1>2, <2>1, <2>2, <2>4, <3>1 DEF Passed
      <3>2. CASE v # w
        <4>1. InHand(Numbered(Bridged, n))'
          BY <1>3, <2>4, <3>2 DEF InHand
        <4> QED
          BY <2>1, <2>2, <4>1 DEF Passed
      <3> QED
        BY <3>1, <3>2
    <2> QED
      BY <2>1, <2>3, <2>4 DEF InHand
  <1> QED
    BY <1>2, <1>3, <1>5, <1>6

-----------------------------------------------------------------------------
(* The rooms                                                               *)

LEMMA RoomsInit == Init => RoomsInv
  <1> SUFFICES ASSUME Init PROVE RoomsInv
    OBVIOUS
  <1> DEFINE m == [pc |-> "off", at |-> 0, since |-> 0, floor |-> 0, replay |-> <<>>,
                   got |-> <<>>, before |-> 0, lagged |-> FALSE, drops |-> 0]
  <1>1. room = [c \in Rooms |-> m] /\ Len(bus) = 0 /\ log[Bridged] = 0
    BY FeedAssumption DEF Init
  <1>2. m \in RoomType
    BY DEF RoomType
  <1>3. /\ m.at = 0 /\ m.pc = "off" /\ m.since = 0 /\ m.before = 0 /\ Len(m.got) = 0
        /\ DOMAIN m.got = {}
    OBVIOUS
  <1> HIDE DEF m
  <1>4. RoomInv(m)
    BY <1>1, <1>3 DEF RoomInv, SentInv, OrderInv, PhaseInv, Covered
  <1> QED
    BY <1>1, <1>2, <1>4 DEF RoomsInv

\* A sequence and one more.
LEMMA AppendFacts ==
  ASSUME NEW S, NEW s \in Seq(S), NEW x \in S
  PROVE  /\ Append(s, x) \in Seq(S)
         /\ Len(s) \in Nat /\ DOMAIN s = 1..Len(s)
         /\ Len(Append(s, x)) = Len(s) + 1 /\ DOMAIN Append(s, x) = 1..(Len(s) + 1)
         /\ \A i \in DOMAIN s : i \in DOMAIN Append(s, x) /\ Append(s, x)[i] = s[i]
         /\ Append(s, x)[Len(s) + 1] = x
         /\ Append(s, x) # <<>>
  OBVIOUS

\* A sequence without its first.
LEMMA TailFacts ==
  ASSUME NEW S, NEW s \in Seq(S), s # <<>>
  PROVE  /\ Len(s) \in Nat /\ Len(s) >= 1 /\ DOMAIN s = 1..Len(s)
         /\ Head(s) = s[1] /\ Head(s) \in S
         /\ Tail(s) \in Seq(S) /\ Len(Tail(s)) = Len(s) - 1 /\ DOMAIN Tail(s) = 1..(Len(s) - 1)
         /\ \A i \in 1..(Len(s) - 1) : Tail(s)[i] = s[i + 1] /\ i + 1 \in DOMAIN s
  OBVIOUS

\* The numbers after one, up to another.
LEMMA CountFacts ==
  ASSUME NEW k \in Nat, NEW since \in Nat, NEW s, s = [i \in 1..k |-> since + i]
  PROVE  s \in Seq(Nat) /\ Len(s) = k /\ DOMAIN s = 1..k /\ \A i \in DOMAIN s : s[i] = since + i
  <1>1. s \in [1..k -> Nat]
    OBVIOUS
  <1> QED
    BY <1>1

\* One more number, above the floor and all the connection sent, becomes the floor.
LEMMA SentOneMore ==
  ASSUME StoreInv, NEW m \in RoomType, SentInv(m), OrderInv(m), FloorInv(m),
         NEW n \in 1..log[Bridged], n > m.floor,
         NEW new \in RoomType, new.got = Append(m.got, n), new.floor = n,
         new.lagged = m.lagged, new.since = m.since, new.before = m.before,
         m.lagged = FALSE => \A k \in Nat : m.floor < k /\ k < n => Passed(k)
  PROVE  SentInv(new) /\ OrderInv(new) /\ FloorInv(new)
  <1>1. /\ n \in Nat /\ log[Bridged] \in Nat /\ m.got \in Seq(Nat) /\ m.floor \in Nat
        /\ m.since \in Nat /\ m.before \in Nat
    BY FeedAssumption DEF StoreInv, RoomType
  <1>2. /\ Len(new.got) = Len(m.got) + 1 /\ DOMAIN new.got = 1..(Len(m.got) + 1)
        /\ new.got[Len(m.got) + 1] = n /\ Len(m.got) \in Nat /\ DOMAIN m.got = 1..Len(m.got)
        /\ \A i \in DOMAIN m.got : i \in DOMAIN new.got /\ new.got[i] = m.got[i]
    BY <1>1, AppendFacts
  <1>3. \A i \in DOMAIN new.got : i \in Nat /\ (i = Len(m.got) + 1 \/ i \in DOMAIN m.got)
    BY <1>2
  <1>4. \A x \in ToSet(m.got) : x \in ToSet(new.got)
    <2>1. ToSet(new.got) = {new.got[i] : i \in DOMAIN new.got} /\ ToSet(m.got) = {m.got[i] : i \in DOMAIN m.got}
      BY DEF ToSet
    <2> QED
      BY <1>2, <2>1
  <1>5. n \in ToSet(new.got)
    <2>1. Len(m.got) + 1 \in DOMAIN new.got
      BY <1>2
    <2> QED
      BY <1>2, <2>1 DEF ToSet
  <1>6. ASSUME NEW top, Covered(m, top) PROVE Covered(new, top)
    BY <1>4, <1>6 DEF Covered
  <1>7. Covered(new, n)
    <2> SUFFICES ASSUME m.lagged = FALSE, NEW k \in 1..n PROVE k \in ToSet(new.got) \/ Passed(k)
      BY DEF Covered
    <2>1. CASE k = n
      BY <1>5, <2>1
    <2>2. CASE k <= m.floor
      <3>1. k \in 1..m.floor
        BY <1>1, <2>2
      <3> QED
        BY <1>4, <3>1 DEF FloorInv, Covered
    <2>3. CASE m.floor < k /\ k < n
      BY <2>3
    <2> QED
      BY <1>1, <2>1, <2>2, <2>3
  <1>8. SentInv(new)
    <2> SUFFICES ASSUME NEW i \in DOMAIN new.got
                 PROVE  new.got[i] \in 1..log[Bridged] /\ Covered(new, new.got[i])
      BY DEF SentInv
    <2>1. CASE i \in DOMAIN m.got
      BY <1>2, <1>6, <2>1 DEF SentInv
    <2>2. CASE i = Len(m.got) + 1
      BY <1>2, <1>7, <2>2
    <2> QED
      BY <1>3, <2>1, <2>2
  <1>9. \A i \in DOMAIN m.got : i > m.before => m.got[i] < n /\ m.got[i] \in Nat
    BY <1>1 DEF FloorInv
  <1>10. \A i \in DOMAIN new.got : i > m.before =>
             /\ new.got[i] > m.since /\ new.got[i] <= n
             /\ \A j \in DOMAIN new.got : i < j => new.got[i] < new.got[j]
    <2> SUFFICES ASSUME NEW i \in DOMAIN new.got, i > m.before
                 PROVE  /\ new.got[i] > m.since /\ new.got[i] <= n
                        /\ \A j \in DOMAIN new.got : i < j => new.got[i] < new.got[j]
      OBVIOUS
    <2>1. CASE i \in DOMAIN m.got
      <3>1. new.got[i] > m.since /\ new.got[i] <= n
        BY <1>1, <1>2, <1>9, <2>1 DEF OrderInv
      <3>2. ASSUME NEW j \in DOMAIN new.got, i < j PROVE new.got[i] < new.got[j]
        BY <1>2, <1>3, <1>9, <2>1, <3>2 DEF OrderInv
      <3> QED
        BY <3>1, <3>2
    <2>2. CASE i = Len(m.got) + 1
      <3>1. new.got[i] > m.since /\ new.got[i] <= n
        BY <1>1, <1>2, <2>2 DEF FloorInv
      <3>2. \A j \in DOMAIN new.got : ~(i < j)
        BY <1>2, <2>2
      <3> QED
        BY <3>1, <3>2
    <2> QED
      BY <1>3, <2>1, <2>2
  <1>11. OrderInv(new)
    BY <1>1, <1>2, <1>6, <1>10 DEF OrderInv
  <1>12. FloorInv(new)
    BY <1>1, <1>7, <1>10 DEF FloorInv
  <1> QED
    BY <1>8, <1>11, <1>12

\* A step of one room.
LEMMA RoomsStep ==
  ASSUME RoomsInv, NEW c \in Rooms, NEW m \in RoomType, RoomInv(m),
         room' = [room EXCEPT ![c] = m], log' = log, hand' = hand, bus' = bus
  PROVE  RoomsInv'
  <1>1. room' \in [Rooms -> RoomType]
    BY DEF RoomsInv
  <1>2. ASSUME NEW d \in Rooms PROVE RoomInv(room[d])'
    <2>1. RoomInv(room'[d])
      BY DEF RoomsInv
    <2>2. \A n : Passed(n) => Passed(n)'
      BY DEF Passed, InHand
    <2>3. \A q, top : Covered(q, top) => Covered(q, top)'
      BY <2>2 DEF Covered
    <2> QED
      BY <2>1, <2>3 DEF RoomInv, SentInv, OrderInv, FloorInv, PhaseInv, Below
  <1> QED
    BY <1>1, <1>2 DEF RoomsInv

\* A step of the writers leaves the rooms what they had.
LEMMA RoomsKept ==
  ASSUME StoreInv, StoreInv', RoomsInv, room' = room,
         log[Bridged] <= log'[Bridged], Len(bus) <= Len(bus'),
         \A i \in DOMAIN bus : i \in DOMAIN bus' /\ bus'[i] = bus[i],
         \A n \in Nat \ {0} : Passed(n) => Passed(n)'
  PROVE  RoomsInv'
  <1> SUFFICES ASSUME NEW c \in Rooms PROVE RoomInv(room[c])'
    BY DEF RoomsInv
  <1> DEFINE m == room[c]
  <1>1. m \in RoomType /\ RoomInv(m) /\ m' = m
    BY DEF RoomsInv
  <1> HIDE DEF m
  <1>2. /\ log[Bridged] \in Nat /\ log'[Bridged] \in Nat /\ Len(bus) \in Nat /\ Len(bus') \in Nat
        /\ DOMAIN bus = 1..Len(bus) /\ DOMAIN bus' = 1..Len(bus')
    <2>1. log \in [Sessions -> Nat] /\ log' \in [Sessions -> Nat] /\ bus \in Seq(Event) /\ bus' \in Seq(Event)
      BY DEF StoreInv
    <2> QED
      BY <2>1, FeedAssumption
  <1>3. /\ m.at \in Nat /\ m.at <= Len(bus) /\ m.floor \in Nat /\ m.got \in Seq(Nat)
        /\ Len(m.replay) \in Nat /\ m.since \in Nat
    BY <1>1 DEF RoomInv, RoomType
  <1>5. ASSUME NEW top, Below(m.at, top)
        PROVE  \A i \in DOMAIN bus' : i <= m.at /\ bus'[i].session = Bridged => bus'[i].seq <= top
    BY <1>2, <1>3, <1>5 DEF Below
  <1>6. SentInv(m)'
    <2>1. ASSUME NEW i \in DOMAIN m.got
          PROVE  m.got[i] \in 1..log'[Bridged] /\ Covered(m, m.got[i])'
      <3>1. m.got[i] \in 1..log[Bridged] /\ Covered(m, m.got[i])
        BY <1>1 DEF RoomInv, SentInv
      <3>2. m.got[i] \in Nat /\ m.got[i] <= log[Bridged] /\ m.got[i] \in 1..log'[Bridged]
        BY <1>2, <3>1
      <3> HIDE DEF RoomInv
      <3> DEFINE x == m.got[i]
      <3>3. x \in Nat /\ x <= log[Bridged] /\ Covered(m, x) /\ x' = x
        BY <1>1, <3>1, <3>2
      <3> HIDE DEF x
      <3>4. Covered(m, x)'
        BY <1>1, <3>3 DEF Covered
      <3> QED
        BY <3>2, <3>4 DEF x
    <2> QED
      BY <1>1, <2>1 DEF SentInv
  <1>7. OrderInv(m)'
    <2>1. Covered(m, m.since)'
      BY <1>1, <1>3 DEF RoomInv, OrderInv, Covered
    <2> QED
      BY <1>1, <1>2, <1>3, <2>1 DEF RoomInv, OrderInv
  <1>8. PhaseInv(m)'
    <2>1. ASSUME FloorInv(m) PROVE FloorInv(m)'
      <3>1. Covered(m, m.floor)'
        BY <1>1, <1>3, <2>1 DEF FloorInv, Covered
      <3> QED
        BY <1>1, <1>2, <1>3, <2>1, <3>1 DEF FloorInv
    <2>2. CASE m.pc = "replaying"
      <3>1. Below(m.at, m.floor + Len(m.replay))'
        BY <1>1, <1>5, <2>2 DEF RoomInv, PhaseInv, Below
      <3>2. m.floor + Len(m.replay) <= log'[Bridged]
        BY <1>1, <1>2, <1>3, <2>2 DEF RoomInv, PhaseInv
      <3> QED
        BY <1>1, <2>1, <2>2, <3>1, <3>2 DEF RoomInv, PhaseInv
    <2>3. CASE m.pc = "live"
      <3>1. m.lagged = FALSE => Below(m.at, m.floor)'
        BY <1>1, <1>5, <2>3 DEF RoomInv, PhaseInv, Below
      <3> QED
        BY <1>1, <2>1, <2>3, <3>1 DEF RoomInv, PhaseInv
    <2>4. CASE m.pc \notin {"replaying", "live"}
      BY <1>1, <2>4 DEF RoomInv, PhaseInv
    <2> QED
      BY <2>2, <2>3, <2>4
  <1>9. m'.at <= Len(bus')
    BY <1>1, <1>2, <1>3
  <1>10. RoomInv(m)'
    BY <1>6, <1>7, <1>8, <1>9 DEF RoomInv
  <1> QED
    BY <1>10 DEF m

\* What a room step starts from.
LEMMA RoomFacts ==
  ASSUME StoreInv, RoomsInv, NEW c \in Rooms
  PROVE  /\ room[c] \in RoomType /\ RoomInv(room[c])
         /\ room[c].got \in Seq(Nat) /\ room[c].replay \in Seq(Nat) /\ room[c].at \in Nat
         /\ room[c].since \in Nat /\ room[c].floor \in Nat /\ room[c].before \in Nat
         /\ log[Bridged] \in Nat
         /\ Len(bus) \in Nat /\ DOMAIN bus = 1..Len(bus)
  BY FeedAssumption DEF RoomsInv, StoreInv, RoomType

\* The number a client gives is none, or one it was sent.
LEMMA SeenFacts ==
  ASSUME StoreInv, RoomsInv, NEW c \in Rooms, NEW since \in {0, Seen(c)}
  PROVE  since \in Nat /\ since <= log[Bridged] /\ Covered(room[c], since)
  <1>1. /\ room[c].got \in Seq(Nat) /\ SentInv(room[c]) /\ log[Bridged] \in Nat
    BY RoomFacts DEF RoomInv
  <1>2. CASE since = 0
    BY <1>1, <1>2 DEF Covered
  <1>3. CASE room[c].got # <<>> /\ since = Last(room[c].got)
    <2>1. Len(room[c].got) \in DOMAIN room[c].got /\ since = room[c].got[Len(room[c].got)]
      BY <1>1, <1>3 DEF Last
    <2> QED
      BY <1>1, <2>1 DEF SentInv
  <1> QED
    BY <1>2, <1>3 DEF Seen

LEMMA ConnectKeeps == ASSUME StoreInv, RoomsInv, NEW c \in Rooms, Connect(c) PROVE RoomsInv'
  <1> DEFINE m == room[c]
  <1>1. PICK since \in {0, Seen(c)} :
            room' = [room EXCEPT ![c] = [m EXCEPT !.pc = "subscribed", !.at = Len(bus), !.since = since]]
    BY DEF Connect
  <1> DEFINE new == [m EXCEPT !.pc = "subscribed", !.at = Len(bus), !.since = since]
  <1>2. m.pc = "off" /\ log' = log /\ hand' = hand /\ bus' = bus
    BY DEF Connect
  <1>3. m \in RoomType /\ RoomInv(m) /\ Len(bus) \in Nat /\ m.got \in Seq(Nat)
    BY RoomFacts
  <1>4. since \in Nat /\ since <= log[Bridged] /\ Covered(m, since)
    BY SeenFacts
  <1> HIDE DEF m
  <1>5. new \in RoomType
    BY <1>3, <1>4 DEF RoomType
  <1>6. /\ new.pc = "subscribed" /\ new.at = Len(bus) /\ new.since = since
        /\ new.got = m.got /\ new.before = m.before /\ new.lagged = m.lagged
    BY <1>3 DEF RoomType
  <1>7. room' = [room EXCEPT ![c] = new]
    BY <1>1
  <1> HIDE DEF new
  <1>8. \A top : Covered(m, top) => Covered(new, top)
    BY <1>6 DEF Covered
  <1>9. SentInv(new)
    BY <1>3, <1>6, <1>8 DEF RoomInv, SentInv
  <1>10. m.before = Len(m.got) /\ DOMAIN m.got = 1..Len(m.got) /\ Len(m.got) \in Nat
    BY <1>2, <1>3 DEF RoomInv, PhaseInv
  <1>11. OrderInv(new)
    <2>1. \A i \in DOMAIN m.got : ~(i > m.before)
      BY <1>10
    <2> QED
      BY <1>4, <1>6, <1>8, <1>10, <2>1 DEF OrderInv
  <1>12. RoomInv(new)
    BY <1>3, <1>6, <1>9, <1>10, <1>11 DEF RoomInv, PhaseInv
  <1> QED
    BY <1>2, <1>5, <1>7, <1>12, RoomsStep

LEMMA ReadStoreKeeps == ASSUME StoreInv, RoomsInv, NEW c \in Rooms, ReadStore(c) PROVE RoomsInv'
  <1> DEFINE m == room[c]
             missed == [i \in 1..(log[Bridged] - m.since) |-> m.since + i]
             new == [m EXCEPT !.pc = "replaying", !.floor = m.since, !.replay = missed]
  <1>1. /\ room' = [room EXCEPT ![c] = new] /\ log' = log /\ hand' = hand /\ bus' = bus
        /\ m.pc = "subscribed"
    BY DEF ReadStore
  <1>2. /\ m \in RoomType /\ RoomInv(m) /\ log[Bridged] \in Nat /\ m.since \in Nat
        /\ m.got \in Seq(Nat)
    BY RoomFacts
  <1> HIDE DEF m
  <1>3. m.since <= log[Bridged] /\ Covered(m, m.since) /\ m.before = Len(m.got)
    BY <1>1, <1>2 DEF RoomInv, OrderInv, PhaseInv
  <1> DEFINE k == log[Bridged] - m.since
  <1>4. k \in Nat /\ m.since + k = log[Bridged]
    BY <1>2, <1>3
  <1> HIDE DEF k
  <1>5. missed \in Seq(Nat) /\ Len(missed) = k /\ \A i \in DOMAIN missed : missed[i] = m.since + i
    <2>1. missed = [i \in 1..k |-> m.since + i]
      BY DEF k
    <2> HIDE DEF missed
    <2> QED
      BY <1>2, <1>4, <2>1, CountFacts
  <1> HIDE DEF missed
  <1>6. new \in RoomType
    BY <1>2, <1>5 DEF RoomType
  <1>7. /\ new.pc = "replaying" /\ new.at = m.at /\ new.floor = m.since /\ new.replay = missed
        /\ new.got = m.got /\ new.lagged = m.lagged /\ new.since = m.since /\ new.before = m.before
    BY <1>2 DEF RoomType
  <1> HIDE DEF new
  <1>8. Below(new.at, new.floor + Len(new.replay))
    <2> SUFFICES ASSUME NEW i \in DOMAIN bus, bus[i].session = Bridged
                 PROVE  bus[i].seq <= log[Bridged]
      BY <1>4, <1>5, <1>7 DEF Below
    <2> QED
      BY DEF StoreInv
  <1>9. \A top : Covered(m, top) => Covered(new, top)
    BY <1>7 DEF Covered
  <1>10. SentInv(new) /\ OrderInv(new)
    BY <1>2, <1>7, <1>9 DEF RoomInv, SentInv, OrderInv
  <1>11. FloorInv(new)
    <2>1. \A i \in DOMAIN m.got : ~(i > m.before)
      BY <1>2, <1>3
    <2> QED
      BY <1>2, <1>3, <1>7, <1>9, <2>1 DEF FloorInv
  <1>12. PhaseInv(new)
    <2>1. /\ \A i \in DOMAIN new.replay : new.replay[i] = new.floor + i
          /\ new.floor + Len(new.replay) <= log[Bridged]
      BY <1>2, <1>4, <1>5, <1>7
    <2> QED
      BY <1>7, <1>8, <1>11, <2>1 DEF PhaseInv
  <1>13. RoomInv(new)
    BY <1>2, <1>7, <1>10, <1>12 DEF RoomInv
  <1> QED
    BY <1>1, <1>6, <1>13, RoomsStep

LEMMA DisconnectKeeps == ASSUME StoreInv, RoomsInv, NEW c \in Rooms, Disconnect(c) PROVE RoomsInv'
  <1> DEFINE m == room[c]
             new == [m EXCEPT !.pc = "off", !.at = 0, !.since = 0, !.floor = 0, !.replay = <<>>,
                              !.before = Len(m.got), !.drops = m.drops + 1]
  <1>1. room' = [room EXCEPT ![c] = new] /\ log' = log /\ hand' = hand /\ bus' = bus
    BY DEF Disconnect
  <1>2. /\ m \in RoomType /\ RoomInv(m) /\ m.got \in Seq(Nat) /\ log[Bridged] \in Nat
        /\ Len(bus) \in Nat
    BY RoomFacts
  <1> HIDE DEF m
  <1>3. new \in RoomType
    <2>1. m.drops + 1 \in Nat /\ <<>> \in Seq(Nat) /\ Len(m.got) \in Nat
      BY <1>2 DEF RoomType
    <2> QED
      BY <1>2, <2>1 DEF RoomType
  <1>4. /\ new.pc = "off" /\ new.at = 0 /\ new.since = 0 /\ new.got = m.got
        /\ new.before = Len(m.got) /\ new.lagged = m.lagged
    BY <1>2 DEF RoomType
  <1> HIDE DEF new
  <1>5. \A top : Covered(m, top) => Covered(new, top)
    BY <1>4 DEF Covered
  <1>6. SentInv(new)
    BY <1>2, <1>4, <1>5 DEF RoomInv, SentInv
  <1>7. OrderInv(new)
    <2>1. /\ \A i \in DOMAIN m.got : ~(i > Len(m.got))
          /\ Len(m.got) <= Len(m.got)
      BY <1>2
    <2>2. Covered(new, 0)
      BY DEF Covered
    <2> QED
      BY <1>2, <1>4, <2>1, <2>2 DEF OrderInv
  <1>8. RoomInv(new)
    BY <1>2, <1>4, <1>6, <1>7 DEF RoomInv, PhaseInv
  <1> QED
    BY <1>1, <1>3, <1>8, RoomsStep

LEMMA ReplayKeeps == ASSUME StoreInv, RoomsInv, NEW c \in Rooms, Replay(c) PROVE RoomsInv'
  <1> DEFINE m == room[c]
             n == Head(m.replay)
             live == [m EXCEPT !.pc = "live"]
             new == [m EXCEPT !.got = Append(m.got, n), !.replay = Tail(m.replay), !.floor = n]
  <1>1. /\ m.pc = "replaying" /\ log' = log /\ hand' = hand /\ bus' = bus
        /\ m.replay = <<>> => room' = [room EXCEPT ![c] = live]
        /\ m.replay # <<>> => room' = [room EXCEPT ![c] = new]
    BY DEF Replay
  <1>2. /\ m \in RoomType /\ RoomInv(m) /\ log[Bridged] \in Nat
        /\ m.got \in Seq(Nat) /\ m.replay \in Seq(Nat) /\ m.floor \in Nat /\ m.at \in Nat
    BY RoomFacts
  <1> HIDE DEF m
  <1>3. /\ FloorInv(m) /\ SentInv(m) /\ OrderInv(m)
        /\ \A i \in DOMAIN m.replay : m.replay[i] = m.floor + i
        /\ m.floor + Len(m.replay) <= log[Bridged]
        /\ Below(m.at, m.floor + Len(m.replay))
    BY <1>1, <1>2 DEF RoomInv, PhaseInv
  <1>4. CASE m.replay = <<>>
    <2>1. live \in RoomType
      BY <1>2 DEF RoomType
    <2>2. /\ live.pc = "live" /\ live.at = m.at /\ live.floor = m.floor /\ live.got = m.got
          /\ live.lagged = m.lagged /\ live.since = m.since /\ live.before = m.before
      BY <1>2 DEF RoomType
    <2> HIDE DEF live
    <2>3. m.floor + Len(m.replay) = m.floor
      BY <1>2, <1>4
    <2>4. Below(live.at, live.floor)
      BY <1>3, <2>2, <2>3
    <2>5. \A top : Covered(m, top) => Covered(live, top)
      BY <2>2 DEF Covered
    <2>6. SentInv(live) /\ OrderInv(live) /\ FloorInv(live)
      BY <1>3, <2>2, <2>5 DEF SentInv, OrderInv, FloorInv
    <2>7. RoomInv(live)
      BY <1>2, <2>2, <2>4, <2>6 DEF RoomInv, PhaseInv
    <2> QED
      BY <1>1, <1>4, <2>1, <2>7, RoomsStep
  <1>5. CASE m.replay # <<>>
    <2> DEFINE rest == Tail(m.replay)
               sent == Append(m.got, n)
    <2>1. /\ n = m.floor + 1 /\ Len(m.replay) >= 1 /\ Len(m.replay) \in Nat
          /\ rest \in Seq(Nat) /\ Len(rest) = Len(m.replay) - 1
          /\ \A i \in DOMAIN rest : rest[i] = m.floor + 1 + i
      <3>1. /\ Len(m.replay) \in Nat /\ Len(m.replay) >= 1 /\ DOMAIN m.replay = 1..Len(m.replay)
            /\ rest \in Seq(Nat) /\ Len(rest) = Len(m.replay) - 1 /\ n = m.replay[1]
        BY <1>2, <1>5, TailFacts
      <3>2. \A i \in 1..(Len(m.replay) - 1) : rest[i] = m.replay[i + 1] /\ i + 1 \in DOMAIN m.replay
        BY <1>2, <1>5, TailFacts
      <3>3. DOMAIN rest = 1..(Len(m.replay) - 1)
        BY <1>2, <1>5, TailFacts
      <3> HIDE DEF rest
      <3>4. ASSUME NEW i \in DOMAIN rest PROVE rest[i] = m.floor + 1 + i
        <4>1. i \in 1..(Len(m.replay) - 1) /\ i \in Nat
          BY <3>1, <3>3
        <4>2. rest[i] = m.replay[i + 1] /\ i + 1 \in DOMAIN m.replay
          BY <3>2, <4>1
        <4>3. rest[i] = m.floor + (i + 1) /\ i \in Nat
          <5> DEFINE r == m.replay  k == i + 1
          <5>1. \A j \in DOMAIN r : r[j] = m.floor + j
            BY <1>3
          <5>2. rest[i] = r[k] /\ k \in DOMAIN r
            BY <4>2
          <5> HIDE DEF r, k
          <5>3. rest[i] = m.floor + k
            BY <5>1, <5>2
          <5> QED
            BY <4>1, <5>3 DEF k
        <4>4. \A x \in Nat, j \in Nat : x + (j + 1) = x + 1 + j
          OBVIOUS
        <4> QED
          BY <1>2, <4>1, <4>3, <4>4
      <3> QED
        BY <1>3, <3>1, <3>4
    <2>2. n \in 1..log[Bridged] /\ n > m.floor /\ n \in Nat
      BY <1>2, <1>3, <2>1
    <2>3. sent \in Seq(Nat)
      BY <1>2, <2>2, AppendFacts
    <2>4. new = [m EXCEPT !.got = sent, !.replay = rest, !.floor = n]
      OBVIOUS
    <2> HIDE DEF n, rest, new
    <2>5. new \in RoomType
      BY <1>2, <2>1, <2>2, <2>3, <2>4 DEF RoomType
    <2>6. /\ new.pc = "replaying" /\ new.at = m.at /\ new.floor = n /\ new.got = sent
          /\ new.replay = rest /\ new.lagged = m.lagged /\ new.since = m.since
          /\ new.before = m.before
      BY <1>1, <1>2, <2>4 DEF RoomType
    <2>7. n + Len(rest) = m.floor + Len(m.replay)
      <3> DEFINE a == Len(rest)  b == Len(m.replay)  x == m.floor
      <3>1. x \in Nat /\ b \in Nat /\ a = b - 1 /\ n = x + 1
        BY <1>2, <2>1
      <3> HIDE DEF a, b, x
      <3>2. n + a = x + b
        BY <3>1
      <3> QED
        BY <3>2 DEF a, b, x
    <2>8. \A k \in Nat : ~(m.floor < k /\ k < n)
      BY <1>2, <2>1
    <2>9. SentInv(new) /\ OrderInv(new) /\ FloorInv(new)
      BY <1>2, <1>3, <2>2, <2>5, <2>6, <2>8, SentOneMore
    <2>10. PhaseInv(new)
      <3>1. \A i \in DOMAIN rest : rest[i] = n + i
        BY <2>1
      <3> QED
        BY <1>3, <2>6, <2>7, <2>9, <3>1 DEF PhaseInv
    <2>11. RoomInv(new)
      BY <1>2, <2>6, <2>9, <2>10 DEF RoomInv
    <2> QED
      BY <1>1, <1>5, <2>5, <2>11, RoomsStep DEF new
  <1> QED
    BY <1>4, <1>5

\* The bus: what is taken off it above the floor is sent, and what it jumps over is
\* still in hand or behind it on the bus, for the store had given every number below.
LEMMA RoomRecvKeeps == ASSUME StoreInv, RoomsInv, NEW c \in Rooms, RoomRecv(c) PROVE RoomsInv'
  <1> DEFINE m == room[c]
             e == bus[m.at + 1]
             jump == [m EXCEPT !.at = Oldest, !.lagged = TRUE]
             send == [m EXCEPT !.at = m.at + 1, !.floor = e.seq, !.got = Append(m.got, e.seq)]
             skip == [m EXCEPT !.at = m.at + 1]
  <1>1. /\ m.pc = "live" /\ m.at < Len(bus) /\ log' = log /\ hand' = hand /\ bus' = bus
        /\ m.at < Oldest => room' = [room EXCEPT ![c] = jump]
        /\ ~(m.at < Oldest) /\ e.session = Bridged /\ e.seq > m.floor => room' = [room EXCEPT ![c] = send]
        /\ ~(m.at < Oldest) /\ ~(e.session = Bridged /\ e.seq > m.floor) => room' = [room EXCEPT ![c] = skip]
    BY DEF RoomRecv
  <1>2. /\ m \in RoomType /\ RoomInv(m) /\ log[Bridged] \in Nat
        /\ m.got \in Seq(Nat) /\ m.floor \in Nat /\ m.at \in Nat
        /\ Len(bus) \in Nat /\ DOMAIN bus = 1..Len(bus)
    BY RoomFacts
  <1> HIDE DEF m
  <1>3. /\ m.lagged = FALSE => Below(m.at, m.floor)
        /\ SentInv(m) /\ OrderInv(m) /\ FloorInv(m)
    BY <1>1, <1>2 DEF RoomInv, PhaseInv
  <1>4. /\ m.at + 1 \in DOMAIN bus /\ m.at + 1 \in Nat /\ m.at + 1 <= Len(bus)
        /\ \A i \in DOMAIN bus : i <= m.at + 1 => i <= m.at \/ i = m.at + 1
    BY <1>1, <1>2
  <1>5. e \in Event /\ e.seq <= log[e.session]
    BY <1>4 DEF StoreInv
  <1>6. e.seq \in Nat \ {0} /\ e.session \in Sessions
    BY <1>5 DEF Event
  <1> DEFINE k == m.at + 1
  <1> HIDE DEF e
  <1>7. CASE m.at < Oldest
    <2>1. Oldest \in Nat /\ Oldest <= Len(bus)
      BY <1>2, FeedAssumption DEF Oldest
    <2>2. jump \in RoomType
      BY <1>2, <2>1 DEF RoomType
    <2>3. /\ jump.pc = "live" /\ jump.at = Oldest /\ jump.floor = m.floor /\ jump.got = m.got
          /\ jump.since = m.since /\ jump.before = m.before
      BY <1>1, <1>2 DEF RoomType
    <2>4. jump.lagged = TRUE
      BY <1>2 DEF RoomType
    <2> HIDE DEF jump
    <2>5. \A top : Covered(jump, top)
      BY <2>4 DEF Covered
    <2>6. SentInv(jump) /\ OrderInv(jump) /\ FloorInv(jump)
      BY <1>3, <2>3, <2>5 DEF SentInv, OrderInv, FloorInv
    <2>7. RoomInv(jump)
      BY <1>2, <2>1, <2>3, <2>4, <2>6 DEF RoomInv, PhaseInv
    <2> QED
      BY <1>1, <1>7, <2>2, <2>7, RoomsStep
  <1>8. CASE ~(m.at < Oldest) /\ e.session = Bridged /\ e.seq > m.floor
    <2> DEFINE sent == Append(m.got, e.seq)
    <2>1. e.seq \in 1..log[Bridged] /\ e.seq > m.floor
      BY <1>2, <1>5, <1>6, <1>8
    <2>2. sent \in Seq(Nat)
      BY <1>2, <1>6, AppendFacts
    <2>3. send = [m EXCEPT !.at = k, !.floor = e.seq, !.got = sent] /\ k \in Nat
      BY <1>4
    <2> HIDE DEF send, k
    <2>4. send \in RoomType
      BY <1>2, <1>6, <2>2, <2>3 DEF RoomType
    <2>5. /\ send.pc = "live" /\ send.at = k /\ send.floor = e.seq /\ send.got = sent
          /\ send.lagged = m.lagged /\ send.since = m.since /\ send.before = m.before
      BY <1>1, <1>2, <2>3 DEF RoomType
    <2>6. ASSUME m.lagged = FALSE PROVE Below(k, e.seq)
      <3> SUFFICES ASSUME NEW i \in DOMAIN bus, i <= k, bus[i].session = Bridged
                   PROVE  bus[i].seq <= e.seq
        BY DEF Below
      <3>1. CASE i = k
        BY <1>6, <3>1 DEF e, k
      <3>2. CASE i <= m.at
        <4>1. bus[i].seq <= m.floor
          BY <1>3, <2>6, <3>2 DEF Below
        <4>2. bus[i].seq \in Nat
          <5>1. bus[i] \in Event
            BY DEF StoreInv
          <5> QED
            BY <5>1 DEF Event
        <4> QED
          BY <1>2, <1>6, <1>8, <4>1, <4>2
      <3> QED
        BY <1>4, <3>1, <3>2 DEF k
    <2>7. ASSUME m.lagged = FALSE, NEW n \in Nat, m.floor < n, n < e.seq PROVE Passed(n)
      <3>1. n \in 1..log[Bridged]
        BY <1>2, <2>1, <2>7
      <3>2. InHand(Numbered(Bridged, n)) \/ OnBus(Numbered(Bridged, n))
        BY <3>1, FeedAssumption DEF StoreInv
      <3>3. /\ k \in DOMAIN bus /\ bus[k].session = Bridged /\ bus[k].seq > n
        BY <1>4, <1>6, <1>8, <2>7 DEF e, k
      <3>4. ASSUME NEW j \in DOMAIN bus, bus[j] = Numbered(Bridged, n) PROVE Passed(n)
        <4>1. bus[j].session = Bridged /\ bus[j].seq = n
          BY <3>4 DEF Numbered
        <4>2. ~(j <= m.at)
          BY <1>2, <1>3, <2>7, <4>1 DEF Below
        <4>3. j # k
          BY <2>7, <3>3, <4>1
        <4>4. k < j
          BY <1>2, <1>4, <4>2, <4>3 DEF k
        <4> QED
          BY <3>3, <3>4, <4>4 DEF Passed
      <3>5. ASSUME InHand(Numbered(Bridged, n)) PROVE Passed(n)
        BY <3>3, <3>5 DEF Passed
      <3> QED
        BY <3>2, <3>4, <3>5 DEF OnBus
    <2>8. SentInv(send) /\ OrderInv(send) /\ FloorInv(send)
      BY <1>2, <1>3, <2>1, <2>4, <2>5, <2>7, SentOneMore
    <2>9. RoomInv(send)
      BY <1>4, <2>5, <2>6, <2>8 DEF RoomInv, PhaseInv, k
    <2> QED
      BY <1>1, <1>8, <2>4, <2>9, RoomsStep DEF send
  <1>9. CASE ~(m.at < Oldest) /\ ~(e.session = Bridged /\ e.seq > m.floor)
    <2>1. skip = [m EXCEPT !.at = k] /\ k \in Nat
      BY <1>4
    <2> HIDE DEF skip, k
    <2>2. skip \in RoomType
      BY <1>2, <2>1 DEF RoomType
    <2>3. /\ skip.pc = "live" /\ skip.at = k /\ skip.floor = m.floor /\ skip.got = m.got
          /\ skip.lagged = m.lagged /\ skip.since = m.since /\ skip.before = m.before
      BY <1>1, <1>2, <2>1 DEF RoomType
    <2>4. ASSUME m.lagged = FALSE PROVE Below(k, m.floor)
      <3> SUFFICES ASSUME NEW i \in DOMAIN bus, i <= k, bus[i].session = Bridged
                   PROVE  bus[i].seq <= m.floor
        BY DEF Below
      <3>1. CASE i = k
        BY <1>2, <1>6, <1>9, <3>1 DEF e, k
      <3>2. CASE i <= m.at
        BY <1>3, <2>4, <3>2 DEF Below
      <3> QED
        BY <1>4, <3>1, <3>2 DEF k
    <2>5. \A top : Covered(m, top) => Covered(skip, top)
      BY <2>3 DEF Covered
    <2>6. SentInv(skip) /\ OrderInv(skip) /\ FloorInv(skip)
      BY <1>3, <2>3, <2>5 DEF SentInv, OrderInv, FloorInv
    <2>7. RoomInv(skip)
      BY <1>4, <2>3, <2>4, <2>6 DEF RoomInv, PhaseInv, k
    <2> QED
      BY <1>1, <1>9, <2>2, <2>7, RoomsStep DEF skip
  <1> QED
    BY <1>7, <1>8, <1>9

-----------------------------------------------------------------------------
(* The streams                                                             *)

\* Of some numbers one is the least.
LEMMA LeastOf ==
  ASSUME NEW S \in SUBSET Nat, S # {}
  PROVE  \E x \in S : \A y \in S : x <= y
  <1>1. ASSUME NEW x \in Nat, NEW y \in Nat, x < y PROVE <<x, y>> \in OpToRel(<, Nat)
    BY <1>1 DEF OpToRel
  <1>2. PICK x \in S : \A y \in S : ~(<<y, x>> \in OpToRel(<, Nat))
    BY NatLessThanWellFounded, WFMin
  <1>3. \A y \in S : ~(y < x)
    BY <1>1, <1>2
  <1> QED
    BY <1>3

\* Of events none of which is of the session, none is picked.
LEMMA NoneMatching ==
  ASSUME NEW s \in Seq(Event), NEW id, \A i \in DOMAIN s : s[i].session # id
  PROVE  Matching(s, id) = <<>>
  <1> DEFINE L == Len(s)
             Def(F) == [n \in 0..L |-> IF n = 0 THEN <<>>
                                       ELSE IF s[n].session = id THEN Append(F[n - 1], s[n]) ELSE F[n - 1]]
             Z == [n \in 0..L |-> <<>>]
             M == CHOOSE F : F = Def(F)
  <1>1. L \in Nat /\ DOMAIN s = 1..L
    OBVIOUS
  <1>2. Matching(s, id) = M[L]
    BY DEF Matching
  <1> HIDE DEF L
  <1>3. Z = Def(Z)
    <2>1. \A n \in 0..L : n # 0 => n \in DOMAIN s /\ n - 1 \in 0..L
      BY <1>1
    <2>2. \A n \in 0..L : Z[n] = <<>>
      OBVIOUS
    <2>3. Z = [n \in 0..L |-> <<>>]
      OBVIOUS
    <2> HIDE DEF Z
    <2>4. \A n \in 0..L :
              (IF n = 0 THEN <<>> ELSE IF s[n].session = id THEN Append(Z[n - 1], s[n]) ELSE Z[n - 1]) = <<>>
      BY <2>1, <2>2
    <2> QED
      BY <2>3, <2>4
  <1>4. M = Def(M)
    <2> HIDE DEF Def, Z
    <2>1. \E F : F = Def(F)
      BY <1>3
    <2> QED
      BY Zenon, <2>1 DEF M
  <1> HIDE DEF M
  <1>5. M[0] = <<>> /\ \A n \in 1..L : M[n] = M[n - 1]
    <2>1. \A n \in 0..L : M[n] = Def(M)[n]
      BY <1>4
    <2>2. 0 \in 0..L /\ \A n \in 1..L : n \in 0..L /\ n # 0 /\ n \in DOMAIN s
      BY <1>1
    <2> QED
      BY <2>1, <2>2
  <1>6. \A n \in 0..L : M[n] = <<>>
    <2> DEFINE C == {n \in 0..L : M[n] # <<>>}
    <2> SUFFICES ASSUME C # {} PROVE FALSE
      OBVIOUS
    <2>1. C \in SUBSET Nat
      BY <1>1
    <2> HIDE DEF C
    <2>2. PICK x \in C : \A y \in C : x <= y
      BY <2>1, LeastOf
    <2>3. x \in 1..L /\ x \in Nat /\ M[x] # <<>>
      BY <1>1, <1>5 DEF C
    <2>4. x - 1 \in 0..L /\ M[x - 1] # <<>>
      BY <1>1, <1>5, <2>3
    <2>5. x - 1 \in C /\ x - 1 \in Nat /\ x - 1 < x
      BY <2>3, <2>4 DEF C
    <2>6. x <= x - 1
      BY <2>2, <2>5
    <2> QED
      BY <2>3, <2>5, <2>6
  <1> QED
    BY <1>1, <1>2, <1>6

LEMMA StreamsInit == Init => StreamsInv
  <1> SUFFICES ASSUME Init PROVE StreamsInv
    OBVIOUS
  <1> DEFINE q == [pc |-> "idle", key |-> None, session |-> None, wrote |-> {}]
             f == [poll |-> "off", at |-> 0, filter |-> None, notify |-> None, reply |-> None,
                   buffered |-> <<>>, out |-> <<>>, lagged |-> FALSE]
  <1>1. run = [r \in Runs |-> q] /\ feed = [r \in Runs |-> f] /\ bus = <<>> /\ Len(bus) = 0
    BY DEF Init
  <1>2. q \in RunType
    BY DEF RunType
  <1>3. f \in FeedType
    BY DEF FeedType
  <1>4. \A r \in Runs : hand[r] = None
    BY DEF Init, Writers
  <1>5. StreamInv(q, f, None, opened, bus)
    <2>1. ReportInv(q, f, None, opened)
      BY FeedAssumption DEF ReportInv
    <2>2. BufferInv(q, f, opened) /\ OutInv(q, f)
      BY FeedAssumption DEF BufferInv, OutInv
    <2>3. WholeInv(q, f, None, bus)
      BY <1>1 DEF WholeInv
    <2> QED
      BY <2>1, <2>2, <2>3 DEF StreamInv
  <1> QED
    BY <1>1, <1>2, <1>3, <1>4, <1>5 DEF StreamsInv

\* What a stream has stays as sessions are added.
LEMMA MoreSessions ==
  ASSUME NEW q, NEW f, NEW h, NEW exist, NEW more, exist \subseteq more, NEW sent,
         StreamInv(q, f, h, exist, sent)
  PROVE  StreamInv(q, f, h, more, sent)
  BY DEF StreamInv, ReportInv, BufferInv

\* A step of one run and its stream.
LEMMA StreamsStep ==
  ASSUME StreamsInv, NEW r \in Runs, NEW q \in RunType, NEW f \in FeedType,
         run' = [run EXCEPT ![r] = q], feed' = [feed EXCEPT ![r] = f],
         hand' = hand, bus' = bus, opened \subseteq opened',
         StreamInv(q, f, hand[r], opened', bus)
  PROVE  StreamsInv'
  <1>1. /\ run' \in [Runs -> RunType] /\ feed' \in [Runs -> FeedType]
        /\ run'[r] = q /\ feed'[r] = f
        /\ \A p \in Runs \ {r} : run'[p] = run[p] /\ feed'[p] = feed[p]
    BY DEF StreamsInv
  <1>2. ASSUME NEW p \in Runs PROVE StreamInv(run'[p], feed'[p], hand'[p], opened', bus')
    <2>1. CASE p = r
      BY <1>1, <2>1
    <2>2. CASE p # r
      BY <1>1, <2>2, MoreSessions DEF StreamsInv
    <2> QED
      BY <2>1, <2>2
  <1> QED
    BY <1>1, <1>2 DEF StreamsInv

\* What a step of a stream starts from.
LEMMA StreamFacts ==
  ASSUME StoreInv, StreamsInv, NEW r \in Runs
  PROVE  /\ run[r] \in RunType /\ feed[r] \in FeedType
         /\ StreamInv(run[r], feed[r], hand[r], opened, bus)
         /\ opened \subseteq Sessions
         /\ Len(bus) \in Nat /\ DOMAIN bus = 1..Len(bus)
  <1>1. bus \in Seq(Event)
    BY DEF StoreInv
  <1> QED
    BY <1>1 DEF StoreInv, StreamsInv, RunType

\* A chat request: the stream is on the bus before the run begins.
LEMMA ChatStreamKeeps ==
  ASSUME StoreInv, StreamsInv, NEW r \in Runs, NEW key \in opened \cup {New}, ChatStream(r, key)
  PROVE  StreamsInv'
  <1> DEFINE q == run[r]  f == feed[r]
             x == IF key = New THEN "pending" ELSE key
             nq == [q EXCEPT !.pc = "waiting", !.key = key]
             nf == [f EXCEPT !.poll = "bus", !.at = Len(bus), !.filter = x]
  <1>1. /\ q.pc = "idle" /\ run' = [run EXCEPT ![r] = nq] /\ feed' = [feed EXCEPT ![r] = nf]
        /\ hand' = hand /\ bus' = bus /\ opened' = opened
    BY DEF ChatStream
  <1>2. /\ q \in RunType /\ f \in FeedType /\ StreamInv(q, f, hand[r], opened, bus)
        /\ Len(bus) \in Nat /\ key \in Sessions \cup {New} /\ opened \subseteq Sessions
    BY StreamFacts
  <1> HIDE DEF q, f
  <1>3. x \in Sessions \cup {"pending"}
    BY <1>2
  <1>4. nq \in RunType /\ nq.pc = "waiting" /\ nq.key = key /\ nq.session = q.session /\ nq.wrote = q.wrote
    BY <1>2 DEF RunType
  <1>5. nf \in FeedType
    BY <1>2, <1>3 DEF FeedType
  <1>6. /\ nf.poll = "bus" /\ nf.at = Len(bus) /\ nf.filter = x /\ nf.notify = f.notify
        /\ nf.reply = f.reply /\ nf.buffered = f.buffered /\ nf.out = f.out /\ nf.lagged = f.lagged
    BY <1>2 DEF FeedType
  <1>7. /\ q.session = None /\ q.wrote = {} /\ hand[r] = None
        /\ f.notify = None /\ f.reply = None /\ f.buffered = <<>> /\ f.out = <<>>
    BY <1>1, <1>2 DEF StreamInv, ReportInv
  <1> HIDE DEF nq, nf
  <1>8. ReportInv(nq, nf, hand[r], opened)
    BY <1>2, <1>4, <1>6, <1>7, FeedAssumption DEF ReportInv
  <1>9. BufferInv(nq, nf, opened)
    BY <1>6, <1>7 DEF BufferInv
  <1>10. OutInv(nq, nf)
    BY <1>6, <1>7, FeedAssumption DEF OutInv
  <1>11. WholeInv(nq, nf, hand[r], bus)
    BY <1>2, <1>4, <1>6, <1>7 DEF WholeInv
  <1>12. StreamInv(nq, nf, hand[r], opened', bus)
    BY <1>1, <1>8, <1>9, <1>10, <1>11 DEF StreamInv
  <1> QED
    BY <1>1, <1>4, <1>5, <1>12, StreamsStep

\* The run gets its session: nothing on the stream, and nothing buffered, can be of it yet.
LEMMA OwnKeeps ==
  ASSUME StoreInv, StreamsInv, NEW r \in Runs, NEW s \in Sessions, Own(r, s)
  PROVE  StreamsInv'
  <1> DEFINE q == run[r]  f == feed[r]
             x == IF q.key = New THEN s ELSE None
             nq == [q EXCEPT !.pc = "owned", !.session = s]
             nf == [f EXCEPT !.notify = x]
  <1>1. /\ q.pc = "waiting" /\ run' = [run EXCEPT ![r] = nq] /\ feed' = [feed EXCEPT ![r] = nf]
        /\ hand' = hand /\ bus' = bus /\ opened' = opened \cup {s}
        /\ IF q.key = New THEN s \notin opened ELSE s = q.key
    BY DEF Own
  <1>2. /\ q \in RunType /\ f \in FeedType /\ StreamInv(q, f, hand[r], opened, bus)
    BY StreamFacts
  <1> HIDE DEF q, f
  <1>3. x \in Sessions \cup {None} /\ s # None /\ s # "pending"
    BY FeedAssumption
  <1>4. nq \in RunType /\ nq.pc = "owned" /\ nq.key = q.key /\ nq.session = s /\ nq.wrote = q.wrote
    BY <1>2 DEF RunType
  <1>5. nf \in FeedType
    BY <1>2, <1>3 DEF FeedType
  <1>6. /\ nf.poll = f.poll /\ nf.at = f.at /\ nf.filter = f.filter /\ nf.notify = x
        /\ nf.reply = f.reply /\ nf.buffered = f.buffered /\ nf.out = f.out /\ nf.lagged = f.lagged
    BY <1>2 DEF FeedType
  <1>7. /\ q.session = None /\ q.wrote = {} /\ hand[r] = None
        /\ f.notify = None /\ f.reply = None /\ q.key \in opened \cup {New} /\ f.poll # "off"
        /\ q.key # New => f.filter = q.key
        /\ q.key = New => f.filter \in {"pending", "absent"}
    BY <1>1, <1>2 DEF StreamInv, ReportInv
  <1> HIDE DEF nq, nf
  <1>8. q.key = New => f.filter = "pending"
    BY <1>1, <1>2, <1>7, FeedAssumption DEF StreamInv, ReportInv
  <1>9. ReportInv(nq, nf, hand[r], opened')
    BY <1>1, <1>3, <1>4, <1>6, <1>7, <1>8, FeedAssumption DEF ReportInv
  <1>10. BufferInv(nq, nf, opened')
    <2>1. /\ f.filter # "pending" => f.buffered = <<>>
          /\ \A i \in DOMAIN f.buffered : f.buffered[i].session \in opened
      BY <1>2 DEF StreamInv, BufferInv
    <2>2. CASE q.key = New
      BY <1>1, <1>4, <1>6, <2>1, <2>2 DEF BufferInv
    <2>3. CASE q.key # New
      <3>1. f.filter # "pending"
        BY <1>1, <1>3, <1>7, <2>3
      <3> QED
        BY <1>6, <2>1, <3>1 DEF BufferInv
    <2> QED
      BY <2>2, <2>3
  <1>11. OutInv(nq, nf)
    <2>1. \A i \in DOMAIN f.out : f.out[i] \in Frame /\ ~IsLast(f.out[i]) /\ f.out[i].session = OwnSession(q)
      BY <1>2, <1>7, FeedAssumption DEF StreamInv, OutInv, FeedType
    <2>2. CASE q.key = New
      <3>1. \A i \in DOMAIN f.out : f.out[i].session = None /\ f.out[i].session \in Sessions \cup {"reply", "error"}
        BY <1>7, <2>1, <2>2 DEF OwnSession, Frame
      <3>2. \A i \in DOMAIN f.out : FALSE
        BY <3>1, FeedAssumption
      <3> QED
        BY <1>2, <1>6, <1>7, <3>2 DEF StreamInv, OutInv
    <2>3. CASE q.key # New
      <3>1. OwnSession(nq) = OwnSession(q)
        BY <1>4, <2>3 DEF OwnSession
      <3> QED
        BY <1>2, <1>6, <3>1 DEF StreamInv, OutInv
    <2> QED
      BY <2>2, <2>3
  <1>12. WholeInv(nq, nf, hand[r], bus)
    BY <1>2, <1>4, <1>6, <1>7 DEF StreamInv, WholeInv
  <1>13. StreamInv(nq, nf, hand[r], opened', bus)
    BY <1>9, <1>10, <1>11, <1>12 DEF StreamInv
  <1> QED
    BY <1>1, <1>4, <1>5, <1>13, StreamsStep

\* The run writes an event: it is in hand, to come on the bus.
LEMMA WriteKeeps ==
  ASSUME StoreInv, StreamsInv, NEW r \in Runs, WriteEvent(r)
  PROVE  StreamsInv'
  <1> DEFINE q == run[r]  f == feed[r]
             n == log[q.session] + 1
             nq == [q EXCEPT !.wrote = q.wrote \cup {n}]
  <1>1. /\ q.pc = "owned" /\ run' = [run EXCEPT ![r] = nq] /\ feed' = feed
        /\ AppendEvent(r, q.session) /\ bus' = bus /\ opened' = opened
    BY DEF WriteEvent
  <1>2. q \in RunType /\ f \in FeedType /\ StreamInv(q, f, hand[r], opened, bus)
    BY StreamFacts
  <1>3. q.session \in opened /\ q.session # None
    BY <1>1, <1>2 DEF StreamInv, ReportInv
  <1>4. /\ hand[r] = None /\ hand'[r] = Numbered(q.session, n)
        /\ \A v \in Writers \ {r} : hand'[v] = hand[v]
        /\ n \in Nat \ {0}
    <2>1. r \in Writers /\ log[q.session] \in Nat
      BY <1>3 DEF Writers, StoreInv
    <2> QED
      BY <1>1, <1>3, <2>1, AppendKeeps
  <1> HIDE DEF q, f, n
  <1>5. /\ nq \in RunType /\ nq.pc = "owned" /\ nq.key = q.key /\ nq.session = q.session
        /\ nq.wrote = q.wrote \cup {n}
    BY <1>1, <1>2, <1>4 DEF RunType
  <1> HIDE DEF nq
  <1>6. ReportInv(nq, f, hand'[r], opened)
    BY <1>1, <1>2, <1>3, <1>5 DEF StreamInv, ReportInv
  <1>7. BufferInv(nq, f, opened) /\ OutInv(nq, f)
    BY <1>2, <1>5 DEF StreamInv, BufferInv, OutInv, OwnSession
  <1>8. f.reply = None
    BY <1>1, <1>2 DEF StreamInv, ReportInv
  <1>9. WholeInv(nq, f, hand'[r], bus)
    <2> SUFFICES ASSUME f.lagged = FALSE, NEW k \in nq.wrote PROVE Arrives(nq, f, hand'[r], bus, k)
      BY <1>2 DEF StreamInv, WholeInv
    <2>1. CASE k = n
      BY <1>4, <1>5, <1>8, <2>1, FeedAssumption DEF Arrives
    <2>2. CASE k \in q.wrote
      <3>1. Arrives(q, f, hand[r], bus, k)
        BY <1>2, <2>2 DEF StreamInv, WholeInv
      <3>2. k \in Nat \ {0} /\ q.session \in Sessions
        BY <1>2, <1>3, <2>2 DEF RunType
      <3>3. Numbered(q.session, k) \in Event
        BY <3>2 DEF Numbered, Event
      <3>4. hand[r] # Numbered(q.session, k)
        BY <1>4, <3>3, FeedAssumption
      <3> QED
        BY <1>5, <3>1, <3>4 DEF Arrives
    <2> QED
      BY <1>5, <2>1, <2>2
  <1>10. StreamInv(nq, f, hand'[r], opened, bus)
    BY <1>6, <1>7, <1>9 DEF StreamInv
  <1>11. ASSUME NEW p \in Runs PROVE StreamInv(run'[p], feed'[p], hand'[p], opened', bus')
    <2>1. CASE p = r
      BY <1>1, <1>10, <2>1 DEF StreamsInv, f
    <2>2. CASE p # r
      <3>1. hand'[p] = hand[p] /\ run'[p] = run[p]
        BY <1>1, <1>4, <2>2 DEF Writers, StreamsInv
      <3> QED
        BY <1>1, <3>1 DEF StreamsInv
    <2> QED
      BY <2>1, <2>2
  <1>12. run' \in [Runs -> RunType]
    BY <1>1, <1>5 DEF StreamsInv
  <1> QED
    BY <1>1, <1>11, <1>12 DEF StreamsInv

LEMMA RouteKeeps ==
  ASSUME StoreInv, StreamsInv, NEW b \in Bridges, RouteMessage(b)
  PROVE  StreamsInv'
  <1>1. /\ run' = run /\ feed' = feed /\ bus' = bus /\ opened' = opened
        /\ AppendEvent(b, Bridged) /\ Bridged \in opened /\ b \in Writers
    BY DEF RouteMessage, StoreInv, Writers
  <1>2. \A r \in Runs : hand'[r] = hand[r]
    <2>1. \A r \in Runs : r \in Writers \ {b}
      BY FeedAssumption DEF Writers
    <2> QED
      BY <1>1, <2>1, AppendKeeps
  <1> QED
    BY <1>1, <1>2 DEF StreamsInv

\* What is published comes after every stream's place on the bus.
LEMMA PublishStreams ==
  ASSUME StoreInv, StreamsInv, NEW w \in Writers, Publish(w)
  PROVE  StreamsInv'
  <1>1. /\ Len(bus') = Len(bus) + 1 /\ bus'[Len(bus) + 1] = hand[w] /\ hand'[w] = None
        /\ \A j \in DOMAIN bus : j \in DOMAIN bus' /\ bus'[j] = bus[j]
        /\ \A v \in Writers \ {w} : hand'[v] = hand[v]
        /\ bus' \in Seq(Event) /\ Len(bus) \in Nat
    BY PublishKeeps DEF StoreInv
  <1>2. run' = run /\ feed' = feed /\ opened' = opened
    BY DEF Publish
  <1>3. Len(bus) + 1 \in DOMAIN bus'
    BY <1>1
  <1> SUFFICES ASSUME NEW r \in Runs PROVE StreamInv(run'[r], feed'[r], hand'[r], opened', bus')
    BY <1>2 DEF StreamsInv
  <1> DEFINE q == run[r]  f == feed[r]
  <1>4. q \in RunType /\ f \in FeedType /\ StreamInv(q, f, hand[r], opened, bus)
    BY StreamFacts
  <1>5. hand'[r] = hand[r] \/ (w = r /\ hand'[r] = None)
    BY <1>1 DEF Writers
  <1>6. run'[r] = q /\ feed'[r] = f
    BY <1>2
  <1> HIDE DEF q, f
  <1>7. ReportInv(q, f, hand'[r], opened)
    BY <1>4, <1>5 DEF StreamInv, ReportInv
  <1>8. f.at \in Nat /\ f.at <= Len(bus)
    BY <1>4 DEF StreamInv, WholeInv, FeedType
  <1>9. WholeInv(q, f, hand'[r], bus')
    <2>1. f.at <= Len(bus') /\ f.at < Len(bus) + 1
      BY <1>1, <1>8
    <2> SUFFICES ASSUME f.lagged = FALSE, NEW k \in q.wrote PROVE Arrives(q, f, hand'[r], bus', k)
      BY <2>1 DEF WholeInv
    <2>2. Arrives(q, f, hand[r], bus, k)
      BY <1>4 DEF StreamInv, WholeInv
    <2>3. CASE hand[r] = Numbered(q.session, k) /\ ~(f.poll \in {"rest", "over"} /\ f.reply = "taken")
      <3>1. CASE hand'[r] = hand[r]
        BY <2>3, <3>1 DEF Arrives
      <3>2. CASE w = r
        BY <1>1, <1>3, <2>1, <2>3, <3>2 DEF Arrives
      <3> QED
        BY <1>5, <3>1, <3>2
    <2>4. CASE ~(hand[r] = Numbered(q.session, k) /\ ~(f.poll \in {"rest", "over"} /\ f.reply = "taken"))
      BY <1>1, <2>2, <2>4 DEF Arrives
    <2> QED
      BY <2>3, <2>4
  <1>10. StreamInv(q, f, hand'[r], opened, bus')
    BY <1>4, <1>7, <1>9 DEF StreamInv
  <1> QED
    BY <1>2, <1>6, <1>10

\* The reply, made when the run has published all it wrote.
LEMMA FinishKeeps ==
  ASSUME StoreInv, StreamsInv, NEW r \in Runs, Finish(r)
  PROVE  StreamsInv'
  <1> DEFINE q == run[r]  f == feed[r]
             x == IF f.notify = None THEN "closed" ELSE f.notify
             nq == [q EXCEPT !.pc = "over"]
  <1>1. PICK answer \in {"reply", "error"} :
            /\ answer = "reply" => q.pc = "owned"
            /\ feed' = [feed EXCEPT ![r] = [f EXCEPT !.reply = answer, !.notify = x]]
    BY DEF Finish, Answer
  <1> DEFINE nf == [f EXCEPT !.reply = answer, !.notify = x]
  <1>2. /\ q.pc \in {"owned", "waiting"} /\ (q.pc = "owned" => hand[r] = None)
        /\ run' = [run EXCEPT ![r] = nq] /\ feed' = [feed EXCEPT ![r] = nf]
        /\ hand' = hand /\ bus' = bus /\ opened' = opened
    BY <1>1 DEF Finish, Answer
  <1>3. q \in RunType /\ f \in FeedType /\ StreamInv(q, f, hand[r], opened, bus)
    BY StreamFacts
  <1> HIDE DEF q, f
  <1>4. /\ x \in Sessions \cup {"closed"} /\ x # None /\ answer # None /\ answer # "taken"
        /\ f.notify # None => x = f.notify
        /\ f.notify = None => x = "closed"
    BY <1>3, FeedAssumption DEF FeedType
  <1>5. nq \in RunType /\ nq.pc = "over" /\ nq.key = q.key /\ nq.session = q.session /\ nq.wrote = q.wrote
    BY <1>3 DEF RunType
  <1> HIDE DEF x
  <1>6. nf \in FeedType
    BY <1>3, <1>4 DEF FeedType
  <1>7. /\ nf.poll = f.poll /\ nf.at = f.at /\ nf.filter = f.filter /\ nf.notify = x
        /\ nf.reply = answer /\ nf.buffered = f.buffered /\ nf.out = f.out /\ nf.lagged = f.lagged
    BY <1>3 DEF FeedType
  <1> HIDE DEF nq, nf
  <1>8. f.reply = None /\ hand[r] = None
    BY <1>2, <1>3 DEF StreamInv, ReportInv
  <1>9. ReportInv(nq, nf, hand[r], opened)
    BY <1>1, <1>2, <1>3, <1>4, <1>5, <1>7, <1>8, FeedAssumption DEF StreamInv, ReportInv
  <1>10. BufferInv(nq, nf, opened) /\ OutInv(nq, nf)
    BY <1>3, <1>4, <1>5, <1>7, <1>8, FeedAssumption DEF StreamInv, BufferInv, OutInv, OwnSession
  <1>11. WholeInv(nq, nf, hand[r], bus)
    BY <1>3, <1>4, <1>5, <1>7, <1>8, FeedAssumption DEF StreamInv, WholeInv, Arrives
  <1>12. StreamInv(nq, nf, hand[r], opened', bus)
    BY <1>2, <1>9, <1>10, <1>11 DEF StreamInv
  <1> QED
    BY <1>2, <1>5, <1>6, <1>12, StreamsStep

\* What drain_session and flush_matching do to a stream that stands as the invariant
\* says: the report is taken in, and nothing buffered was ever of the session.
LEMMA DrainFacts ==
  ASSUME NEW q \in RunType, NEW f \in FeedType, NEW h, NEW exist \in SUBSET Sessions, NEW sent,
         StreamInv(q, f, h, exist, sent), q.pc # "idle", NEW g, g = DrainSession(f)
  PROVE  /\ g \in FeedType /\ StreamInv(q, g, h, exist, sent)
         /\ g.out = f.out /\ g.poll = f.poll /\ g.at = f.at /\ g.reply = f.reply
         /\ g.notify = f.notify /\ g.lagged = f.lagged
         /\ f.notify # None => g.filter # "pending"
         /\ q.session # None => g.filter = q.session
         /\ g.filter = "pending" => q.session = None
         /\ g.filter \in Sessions => g.filter = OwnSession(q)
         /\ g.filter \in Sessions \cup {"pending", "absent"}
  <1>1. CASE f.filter # "pending" \/ f.notify = None
    <2>1. g = f
      BY <1>1 DEF DrainSession
    <2> QED
      BY <1>1, <2>1, FeedAssumption DEF StreamInv, ReportInv, RunType, FeedType, OwnSession
  <1>2. CASE f.filter = "pending" /\ f.notify = "closed"
    <2>1. g = [f EXCEPT !.filter = "absent", !.buffered = <<>>]
      BY <1>2, FeedAssumption DEF DrainSession
    <2>2. g \in FeedType
      <3>1. <<>> \in Seq(Event)
        OBVIOUS
      <3> QED
        BY <2>1, <3>1 DEF FeedType
    <2>3. /\ g.out = f.out /\ g.poll = f.poll /\ g.at = f.at /\ g.reply = f.reply
          /\ g.notify = f.notify /\ g.lagged = f.lagged /\ g.filter = "absent" /\ g.buffered = <<>>
      BY <2>1 DEF FeedType
    <2>4. q.key = New /\ q.session = None
      BY <1>2, FeedAssumption DEF StreamInv, ReportInv, RunType
    <2>5. ReportInv(q, g, h, exist)
      BY <1>2, <2>3, <2>4 DEF StreamInv, ReportInv
    <2>6. BufferInv(q, g, exist) /\ OutInv(q, g)
      BY <2>3 DEF StreamInv, BufferInv, OutInv
    <2>7. WholeInv(q, g, h, sent)
      BY <2>3 DEF StreamInv, WholeInv, Arrives
    <2> QED
      BY <1>2, <2>2, <2>3, <2>4, <2>5, <2>6, <2>7, FeedAssumption DEF StreamInv, OwnSession
  <1>3. CASE f.filter = "pending" /\ f.notify \notin {None, "closed"}
    <2>1. /\ q.key = New /\ q.session # None /\ f.notify = q.session
          /\ q.session \in Sessions /\ f.out \in Seq(Frame) /\ f.buffered \in Seq(Event)
      BY <1>3, FeedAssumption DEF StreamInv, ReportInv, RunType, FeedType
    <2>2. Matching(f.buffered, f.notify) = <<>>
      BY <2>1, NoneMatching DEF StreamInv, BufferInv
    <2>3. f.out \o <<>> = f.out
      BY <2>1
    <2> DEFINE u == [f EXCEPT !.out = f.out, !.buffered = <<>>]
    <2>4. FlushMatching(f, f.notify) = u
      BY <2>2, <2>3 DEF FlushMatching
    <2>5. g = [u EXCEPT !.filter = f.notify]
      BY <1>3, <2>4 DEF DrainSession
    <2>6. g \in FeedType
      <3>1. <<>> \in Seq(Event)
        OBVIOUS
      <3> QED
        BY <2>1, <2>5, <3>1 DEF FeedType
    <2>7. /\ g.out = f.out /\ g.poll = f.poll /\ g.at = f.at /\ g.reply = f.reply
          /\ g.notify = f.notify /\ g.lagged = f.lagged /\ g.filter = q.session /\ g.buffered = <<>>
      BY <2>1, <2>5 DEF FeedType
    <2>8. ReportInv(q, g, h, exist)
      BY <2>1, <2>7, FeedAssumption DEF StreamInv, ReportInv
    <2>9. BufferInv(q, g, exist) /\ OutInv(q, g)
      BY <2>7 DEF StreamInv, BufferInv, OutInv
    <2>10. WholeInv(q, g, h, sent)
      BY <2>7 DEF StreamInv, WholeInv, Arrives
    <2> QED
      BY <2>1, <2>6, <2>7, <2>8, <2>9, <2>10, FeedAssumption DEF StreamInv, OwnSession
  <1> QED
    BY <1>1, <1>2, <1>3

\* Steps that only move on: the bus found empty, the stream's end, the report learned,
\* nothing to do.
LEMMA PollKeeps ==
  ASSUME StoreInv, StreamsInv, NEW r \in Runs,
         \/ StreamBusEmpty(r) \/ StreamEnd(r) \/ StreamLearn(r) \/ StreamSleep(r)
  PROVE  StreamsInv'
  <1> DEFINE q == run[r]  f == feed[r]
  <1>1. /\ run' = run /\ hand' = hand /\ bus' = bus /\ opened' = opened
        /\ f.poll \in {"bus", "rest"}
    BY DEF StreamBusEmpty, StreamEnd, StreamLearn, StreamSleep
  <1>2. /\ q \in RunType /\ f \in FeedType /\ StreamInv(q, f, hand[r], opened, bus)
        /\ opened \in SUBSET Sessions /\ Len(bus) \in Nat /\ DOMAIN bus = 1..Len(bus)
    BY StreamFacts
  <1>3. run' = [run EXCEPT ![r] = q]
    BY <1>1 DEF StreamsInv
  <1>4. q.pc # "idle"
    BY <1>1, <1>2 DEF StreamInv, ReportInv
  <1>5. ASSUME NEW g \in FeedType, StreamInv(q, g, hand[r], opened, bus),
               NEW poll \in {"bus", "rest", "over"},
               g.reply = "taken" /\ poll # "bus" => (g.poll # "bus" \/ g.at = Len(bus)),
               poll = "over" => g.reply = "taken",
               feed' = [feed EXCEPT ![r] = [g EXCEPT !.poll = poll]]
        PROVE  StreamsInv'
    <2> DEFINE nf == [g EXCEPT !.poll = poll]
    <2> HIDE DEF q, f
    <2>1. nf \in FeedType
      BY <1>5 DEF FeedType
    <2>2. /\ nf.poll = poll /\ nf.at = g.at /\ nf.filter = g.filter /\ nf.notify = g.notify
          /\ nf.reply = g.reply /\ nf.buffered = g.buffered /\ nf.out = g.out /\ nf.lagged = g.lagged
      BY <1>5 DEF FeedType
    <2>3. feed' = [feed EXCEPT ![r] = nf]
      BY <1>5
    <2> HIDE DEF nf
    <2>4. ReportInv(q, nf, hand[r], opened)
      BY <1>4, <1>5, <2>2 DEF StreamInv, ReportInv
    <2>5. BufferInv(q, nf, opened) /\ OutInv(q, nf)
      BY <1>5, <2>2 DEF StreamInv, BufferInv, OutInv
    <2>6. WholeInv(q, nf, hand[r], bus)
      <3> SUFFICES ASSUME g.lagged = FALSE, NEW k \in q.wrote PROVE Arrives(q, nf, hand[r], bus, k)
        BY <1>5, <2>2 DEF StreamInv, WholeInv
      <3>1. Arrives(q, g, hand[r], bus, k)
        BY <1>5 DEF StreamInv, WholeInv
      <3>2. CASE ~(poll \in {"rest", "over"} /\ g.reply = "taken")
        BY <2>2, <3>1, <3>2 DEF Arrives
      <3>3. CASE poll \in {"rest", "over"} /\ g.reply = "taken"
        <4>1. CASE g.poll \in {"rest", "over"}
          BY <2>2, <3>1, <3>3, <4>1 DEF Arrives
        <4>2. CASE g.at = Len(bus)
          <5>1. hand[r] = None
            BY <1>5, <3>3, FeedAssumption DEF StreamInv, ReportInv
          <5>2. Numbered(q.session, k) # None
            <6>1. k \in Nat \ {0} /\ q.session \in Sessions
              BY <1>2, <1>5 DEF RunType, StreamInv, ReportInv
            <6>2. Numbered(q.session, k) \in Event
              BY <6>1 DEF Numbered, Event
            <6> QED
              BY <6>2, FeedAssumption
          <5>3. ~ \E j \in DOMAIN bus : g.at < j
            BY <1>2, <4>2
          <5> QED
            BY <2>2, <3>1, <5>1, <5>2, <5>3 DEF Arrives
        <4>3. g.poll # "off"
          BY <1>4, <1>5 DEF StreamInv, ReportInv
        <4>4. g.poll \in {"off", "bus", "rest", "over"}
          BY DEF FeedType
        <4> QED
          BY <1>5, <3>3, <4>1, <4>2, <4>3, <4>4
      <3> QED
        BY <3>2, <3>3
    <2>7. StreamInv(q, nf, hand[r], opened', bus)
      BY <1>1, <2>4, <2>5, <2>6 DEF StreamInv
    <2> QED
      BY <1>1, <1>2, <1>3, <2>1, <2>3, <2>7, StreamsStep
  <1>6. CASE StreamBusEmpty(r)
    BY <1>2, <1>5, <1>6 DEF StreamBusEmpty
  <1>7. CASE StreamEnd(r)
    BY <1>2, <1>5, <1>7 DEF StreamEnd
  <1>8. CASE StreamSleep(r)
    BY <1>2, <1>5, <1>8 DEF StreamSleep
  <1>9. CASE StreamLearn(r)
    <2> DEFINE g == DrainSession(f)
    <2>1. g \in FeedType /\ StreamInv(q, g, hand[r], opened, bus)
      BY <1>2, <1>4, DrainFacts
    <2>2. feed' = [feed EXCEPT ![r] = [g EXCEPT !.poll = "bus"]]
      BY <1>9 DEF StreamLearn
    <2> HIDE DEF g
    <2> QED
      BY <1>5, <2>1, <2>2
  <1> QED
    BY <1>6, <1>7, <1>8, <1>9

\* One more frame.
LEMMA FrameFacts ==
  ASSUME NEW out \in Seq(Frame), NEW e \in Frame, NEW new, new = Append(out, e)
  PROVE  /\ new \in Seq(Frame)
         /\ Len(out) + 1 \in DOMAIN new /\ Len(out) + 1 \notin DOMAIN out /\ new[Len(out) + 1] = e
         /\ \A i \in DOMAIN out : i \in DOMAIN new /\ new[i] = out[i]
         /\ \A i \in DOMAIN new : i \in DOMAIN out \/ i = Len(out) + 1
  BY AppendFacts

\* The reply leaves after all that is buffered, which is nothing, and marks the end.
LEMMA ReplyKeeps ==
  ASSUME StoreInv, StreamsInv, NEW r \in Runs, StreamReply(r)
  PROVE  StreamsInv'
  <1> DEFINE q == run[r]  f == DrainSession(feed[r])
             id == IF f.filter \in Sessions THEN f.filter ELSE run[r].session
             g == IF f.filter \in Sessions \/ f.reply = "reply" THEN FlushMatching(f, id)
                  ELSE [f EXCEPT !.buffered = <<>>]
             last == LastFrame(f.reply)
  <1>1. /\ run' = run /\ hand' = hand /\ bus' = bus /\ opened' = opened
        /\ f.poll = "rest" /\ f.reply \in {"reply", "error"}
        /\ feed' = [feed EXCEPT ![r] = [g EXCEPT !.poll = "bus", !.reply = "taken",
                                                 !.out = Append(g.out, last)]]
    BY DEF StreamReply
  <1>2. /\ q \in RunType /\ feed[r] \in FeedType /\ StreamInv(q, feed[r], hand[r], opened, bus)
        /\ opened \in SUBSET Sessions
    BY StreamFacts
  <1>3. feed[r].poll \in {"rest", "off"} \/ q.pc # "idle"
    BY <1>2 DEF StreamInv, ReportInv
  <1>4. q.pc # "idle"
    <2> SUFFICES ASSUME q.pc = "idle" PROVE FALSE
      OBVIOUS
    <2>1. feed[r].filter = None /\ feed[r].poll = "off"
      BY <1>2 DEF StreamInv, ReportInv
    <2>2. f = feed[r]
      BY <2>1, FeedAssumption DEF DrainSession
    <2> QED
      BY <1>1, <2>1, <2>2
  <1>5. /\ f \in FeedType /\ StreamInv(q, f, hand[r], opened, bus)
        /\ q.session # None => f.filter = q.session
        /\ f.filter \in Sessions \cup {"pending", "absent"}
        /\ f.notify # None => f.filter # "pending"
        /\ f.notify = feed[r].notify
    BY <1>2, <1>4, DrainFacts
  <1> HIDE DEF f
  <1>6. /\ q.pc = "over" /\ f.notify # None /\ hand[r] = None
        /\ f.reply = "reply" => f.filter \in Sessions
    BY <1>1, <1>2, <1>5, FeedAssumption DEF StreamInv, ReportInv, RunType
  <1>7. f.buffered = <<>>
    BY <1>5, <1>6 DEF StreamInv, BufferInv
  <1>8. g = [f EXCEPT !.buffered = <<>>]
    <2>1. CASE f.filter \in Sessions
      <3>1. \A i \in DOMAIN f.buffered : f.buffered[i].session # id
        BY <1>7
      <3>2. f.buffered \in Seq(Event) /\ f.out \in Seq(Frame)
        BY <1>5 DEF FeedType
      <3>3. Matching(f.buffered, id) = <<>>
        BY <3>1, <3>2, NoneMatching
      <3>4. f.out \o <<>> = f.out
        BY <3>2
      <3>5. g = [f EXCEPT !.out = f.out, !.buffered = <<>>]
        BY <2>1, <3>3, <3>4 DEF FlushMatching
      <3> QED
        BY <1>5, <3>5 DEF FeedType
    <2>2. CASE f.filter \notin Sessions
      BY <1>6, <2>2
    <2> QED
      BY <2>1, <2>2
  <1>9. g = f
    BY <1>5, <1>7, <1>8 DEF FeedType
  <1> DEFINE new == Append(f.out, last)
             nf == [f EXCEPT !.poll = "bus", !.reply = "taken", !.out = new]
  <1>10. last \in Frame /\ IsLast(last) /\ f.out \in Seq(Frame)
    BY <1>1, <1>5 DEF LastFrame, IsLast, Frame, FeedType
  <1>11. feed' = [feed EXCEPT ![r] = nf] /\ run' = [run EXCEPT ![r] = q]
    BY <1>1, <1>9 DEF StreamsInv
  <1>12. /\ new \in Seq(Frame)
         /\ Len(f.out) + 1 \in DOMAIN new /\ Len(f.out) + 1 \notin DOMAIN f.out
         /\ new[Len(f.out) + 1] = last
         /\ \A i \in DOMAIN f.out : i \in DOMAIN new /\ new[i] = f.out[i]
         /\ \A i \in DOMAIN new : i \in DOMAIN f.out \/ i = Len(f.out) + 1
    BY <1>10, FrameFacts
  <1> HIDE DEF q, g, new, last
  <1>13. nf \in FeedType
    BY <1>5, <1>12 DEF FeedType
  <1>14. /\ nf.poll = "bus" /\ nf.at = f.at /\ nf.filter = f.filter /\ nf.notify = f.notify
         /\ nf.reply = "taken" /\ nf.buffered = f.buffered /\ nf.out = new /\ nf.lagged = f.lagged
    BY <1>5 DEF FeedType
  <1> HIDE DEF nf
  <1>15. ReportInv(q, nf, hand[r], opened)
    BY <1>4, <1>5, <1>6, <1>14, FeedAssumption DEF StreamInv, ReportInv
  <1>16. BufferInv(q, nf, opened)
    BY <1>7, <1>14 DEF BufferInv
  <1>17. \A i \in DOMAIN f.out : ~IsLast(f.out[i]) /\ f.out[i].session = OwnSession(q)
    BY <1>1, <1>5 DEF StreamInv, OutInv
  <1>18. OutInv(q, nf)
    <2>1. \A i \in DOMAIN new : IsLast(new[i]) <=> i = Len(f.out) + 1
      BY <1>10, <1>12, <1>17
    <2>2. \A i \in DOMAIN new : ~IsLast(new[i]) => new[i].session = OwnSession(q)
      BY <1>10, <1>12, <1>17
    <2> QED
      BY <1>12, <1>14, <2>1, <2>2 DEF OutInv
  <1>19. WholeInv(q, nf, hand[r], bus)
    <2> SUFFICES ASSUME f.lagged = FALSE, NEW k \in q.wrote PROVE Arrives(q, nf, hand[r], bus, k)
      BY <1>5, <1>14 DEF StreamInv, WholeInv
    <2>1. Arrives(q, f, hand[r], bus, k)
      BY <1>5 DEF StreamInv, WholeInv
    <2> QED
      BY <1>12, <1>14, <2>1 DEF Arrives
  <1>20. StreamInv(q, nf, hand[r], opened', bus)
    BY <1>1, <1>15, <1>16, <1>18, <1>19 DEF StreamInv
  <1> QED
    BY <1>1, <1>2, <1>11, <1>13, <1>20, StreamsStep

\* An event off the bus: passed over, buffered while the session is unknown, or sent;
\* what the run wrote is sent, for by then the session is known.
LEMMA RecvKeeps ==
  ASSUME StoreInv, StreamsInv, NEW r \in Runs, StreamRecv(r)
  PROVE  StreamsInv'
  <1> DEFINE q == run[r]  f == feed[r]  e == bus[f.at + 1]  g == DrainSession(f)
             k == f.at + 1
             jump == [f EXCEPT !.at = Oldest, !.lagged = TRUE]
             take == [TakeEvent(f, e) EXCEPT !.at = k]
  <1>1. /\ run' = run /\ hand' = hand /\ bus' = bus /\ opened' = opened
        /\ f.poll = "bus" /\ f.at < Len(bus)
        /\ f.at < Oldest => feed' = [feed EXCEPT ![r] = jump]
        /\ ~(f.at < Oldest) => feed' = [feed EXCEPT ![r] = take]
    BY DEF StreamRecv
  <1>2. /\ q \in RunType /\ f \in FeedType /\ StreamInv(q, f, hand[r], opened, bus)
        /\ opened \in SUBSET Sessions /\ Len(bus) \in Nat /\ DOMAIN bus = 1..Len(bus)
        /\ f.at \in Nat
    BY StreamFacts DEF FeedType
  <1>3. run' = [run EXCEPT ![r] = q]
    BY <1>1 DEF StreamsInv
  <1>4. q.pc # "idle"
    BY <1>1, <1>2 DEF StreamInv, ReportInv
  <1>5. /\ g \in FeedType /\ StreamInv(q, g, hand[r], opened, bus)
        /\ g.out = f.out /\ g.poll = f.poll /\ g.at = f.at /\ g.lagged = f.lagged
        /\ q.session # None => g.filter = q.session
        /\ g.filter = "pending" => q.session = None
        /\ g.filter \in Sessions => g.filter = OwnSession(q)
        /\ g.filter \in Sessions \cup {"pending", "absent"}
    BY <1>2, <1>4, DrainFacts
  <1>6. k \in DOMAIN bus /\ k \in Nat /\ k <= Len(bus) /\ (\A j \in DOMAIN bus : f.at < j => j = k \/ k < j)
    BY <1>1, <1>2
  <1>7. e \in Event /\ e.session \in opened
    BY <1>6 DEF StoreInv
  <1>8. e.session \in Sessions /\ e.seq \in Nat /\ e \in Frame /\ ~IsLast(e) /\ e.session # None
    BY <1>7, FeedAssumption DEF Event, Frame, IsLast
  <1>9. \/ g.filter = "pending" /\ TakeEvent(f, e) = PushPending(g, e)
        \/ g.filter = e.session /\ TakeEvent(f, e) = [g EXCEPT !.out = Append(g.out, e)]
        \/ g.filter \notin {"pending", e.session} /\ TakeEvent(f, e) = g
    <2> HIDE DEF g, e
    <2>1. TakeEvent(f, e) =
              IF g.filter = "pending" THEN PushPending(g, e)
              ELSE IF e.session = g.filter THEN [g EXCEPT !.out = Append(g.out, e)] ELSE g
      <3>1. CASE g.filter = "pending"
        BY <1>5, <3>1 DEF TakeEvent, g
      <3>2. CASE g.filter # "pending"
        BY <1>5, <3>2 DEF TakeEvent, g
      <3> QED
        BY <3>1, <3>2
    <2> QED
      BY <1>8, <2>1, FeedAssumption
  <1> HIDE DEF q, f, g, e, k
  <1>10. CASE f.at < Oldest
    <2>1. Oldest \in Nat /\ Oldest <= Len(bus)
      BY <1>2, FeedAssumption DEF Oldest
    <2>2. jump \in FeedType
      BY <1>2, <2>1 DEF FeedType
    <2>3. /\ jump.poll = f.poll /\ jump.at = Oldest /\ jump.filter = f.filter /\ jump.notify = f.notify
          /\ jump.reply = f.reply /\ jump.buffered = f.buffered /\ jump.out = f.out
      BY <1>2 DEF FeedType
    <2>4. jump.lagged = TRUE
      BY <1>2 DEF FeedType
    <2> HIDE DEF jump
    <2>5. ReportInv(q, jump, hand[r], opened)
      BY <1>2, <2>3 DEF StreamInv, ReportInv
    <2>6. BufferInv(q, jump, opened) /\ OutInv(q, jump)
      BY <1>2, <2>3 DEF StreamInv, BufferInv, OutInv
    <2>7. WholeInv(q, jump, hand[r], bus)
      BY <2>1, <2>3, <2>4 DEF WholeInv
    <2>8. StreamInv(q, jump, hand[r], opened', bus)
      BY <1>1, <2>5, <2>6, <2>7 DEF StreamInv
    <2> QED
      BY <1>1, <1>2, <1>3, <1>10, <2>2, <2>8, StreamsStep
  <1>11. ASSUME NEW nf \in FeedType, ~(f.at < Oldest), take = nf,
                nf.poll = g.poll, nf.at = k, nf.filter = g.filter, nf.notify = g.notify,
                nf.reply = g.reply, nf.lagged = g.lagged,
                BufferInv(q, nf, opened), OutInv(q, nf),
                \A i \in DOMAIN g.out : i \in DOMAIN nf.out /\ nf.out[i] = g.out[i],
                g.filter = e.session => \E i \in DOMAIN nf.out : nf.out[i] = e
         PROVE  StreamsInv'
    <2>1. ReportInv(q, nf, hand[r], opened)
      BY <1>4, <1>5, <1>11 DEF StreamInv, ReportInv
    <2>2. WholeInv(q, nf, hand[r], bus)
      <3> SUFFICES ASSUME g.lagged = FALSE, NEW n \in q.wrote PROVE Arrives(q, nf, hand[r], bus, n)
        BY <1>6, <1>11 DEF WholeInv
      <3>1. Arrives(q, g, hand[r], bus, n)
        BY <1>5 DEF StreamInv, WholeInv
      <3>2. CASE \E i \in DOMAIN g.out : g.out[i] = Numbered(q.session, n)
        BY <1>11, <3>2 DEF Arrives
      <3>3. CASE hand[r] = Numbered(q.session, n)
        BY <1>1, <1>5, <1>11, <3>3 DEF Arrives
      <3>4. ASSUME NEW j \in DOMAIN bus, f.at < j, bus[j] = Numbered(q.session, n)
            PROVE  Arrives(q, nf, hand[r], bus, n)
        <4>1. CASE k < j
          BY <1>1, <1>5, <1>11, <3>4, <4>1 DEF Arrives
        <4>2. CASE j = k
          <5>1. e = Numbered(q.session, n) /\ e.session = q.session
            BY <3>4, <4>2 DEF e, k, Numbered
          <5>2. g.filter = e.session
            BY <1>5, <1>8, <5>1
          <5> QED
            BY <1>11, <5>1, <5>2 DEF Arrives
        <4> QED
          BY <1>6, <3>4, <4>1, <4>2
      <3> QED
        BY <1>5, <3>1, <3>2, <3>3, <3>4 DEF Arrives
    <2>3. StreamInv(q, nf, hand[r], opened', bus)
      BY <1>1, <1>11, <2>1, <2>2 DEF StreamInv
    <2>4. feed' = [feed EXCEPT ![r] = nf]
      BY <1>1, <1>11
    <2> QED
      BY <1>1, <1>2, <1>3, <1>11, <2>3, <2>4, StreamsStep
  <1>12. CASE ~(f.at < Oldest) /\ g.filter = "pending" /\ TakeEvent(f, e) = PushPending(g, e)
    <2> DEFINE kept == IF Len(g.buffered) >= PendingCap THEN Tail(g.buffered) ELSE g.buffered
               buf == Append(kept, e)
               nf == [g EXCEPT !.buffered = buf, !.at = k]
    <2>1. g.buffered \in Seq(Event)
      BY <1>5 DEF FeedType
    <2>2. kept \in Seq(Event) /\ \A i \in DOMAIN kept : \E j \in DOMAIN g.buffered : kept[i] = g.buffered[j]
      <3>1. CASE Len(g.buffered) >= PendingCap
        <4>1. g.buffered # <<>>
          BY <3>1, FeedAssumption
        <4>2. /\ Tail(g.buffered) \in Seq(Event)
              /\ \A i \in DOMAIN Tail(g.buffered) :
                     Tail(g.buffered)[i] = g.buffered[i + 1] /\ i + 1 \in DOMAIN g.buffered
          BY <2>1, <4>1, TailFacts
        <4> QED
          BY <3>1, <4>2
      <3>2. CASE ~(Len(g.buffered) >= PendingCap)
        BY <2>1, <3>2
      <3> QED
        BY <3>1, <3>2
    <2> HIDE DEF kept
    <2>3. /\ buf \in Seq(Event)
          /\ \A i \in DOMAIN buf : buf[i] = e \/ \E j \in DOMAIN g.buffered : buf[i] = g.buffered[j]
      <3>1. /\ buf \in Seq(Event) /\ Len(kept) \in Nat /\ DOMAIN kept = 1..Len(kept)
            /\ DOMAIN buf = 1..(Len(kept) + 1) /\ buf[Len(kept) + 1] = e
            /\ \A i \in DOMAIN kept : buf[i] = kept[i]
        BY <1>7, <2>2, AppendFacts
      <3> HIDE DEF buf
      <3>2. \A i \in DOMAIN buf : i \in DOMAIN kept \/ i = Len(kept) + 1
        BY <3>1
      <3> QED
        BY <2>2, <3>1, <3>2
    <2>4. take = nf
      BY <1>12 DEF PushPending, kept
    <2> HIDE DEF buf, take
    <2>5. nf \in FeedType
      BY <1>5, <1>6, <2>3 DEF FeedType
    <2>6. /\ nf.poll = g.poll /\ nf.at = k /\ nf.filter = g.filter /\ nf.notify = g.notify
          /\ nf.reply = g.reply /\ nf.lagged = g.lagged /\ nf.buffered = buf /\ nf.out = g.out
      BY <1>5 DEF FeedType
    <2> HIDE DEF nf
    <2>7. BufferInv(q, nf, opened)
      <3>1. \A j \in DOMAIN g.buffered : g.buffered[j].session \in opened /\ g.buffered[j].session # q.session
        BY <1>5 DEF StreamInv, BufferInv
      <3>2. e.session # q.session
        BY <1>5, <1>8, <1>12
      <3> QED
        BY <1>7, <1>12, <2>3, <2>6, <3>1, <3>2 DEF BufferInv
    <2>8. OutInv(q, nf)
      BY <1>5, <2>6 DEF StreamInv, OutInv
    <2>9. g.filter # e.session
      BY <1>8, <1>12, FeedAssumption
    <2> QED
      BY <1>11, <1>12, <2>4, <2>5, <2>6, <2>7, <2>8, <2>9
  <1>13. CASE ~(f.at < Oldest) /\ g.filter = e.session /\ TakeEvent(f, e) = [g EXCEPT !.out = Append(g.out, e)]
    <2> DEFINE new == Append(g.out, e)
               nf == [g EXCEPT !.out = new, !.at = k]
    <2>1. g.out \in Seq(Frame)
      BY <1>5 DEF FeedType
    <2>2. /\ new \in Seq(Frame)
          /\ Len(g.out) + 1 \in DOMAIN new /\ Len(g.out) + 1 \notin DOMAIN g.out
          /\ new[Len(g.out) + 1] = e
          /\ \A i \in DOMAIN g.out : i \in DOMAIN new /\ new[i] = g.out[i]
          /\ \A i \in DOMAIN new : i \in DOMAIN g.out \/ i = Len(g.out) + 1
      BY <1>8, <2>1, FrameFacts
    <2>3. take = nf
      BY <1>13
    <2> HIDE DEF new, take
    <2>4. nf \in FeedType
      BY <1>5, <1>6, <2>2 DEF FeedType
    <2>5. /\ nf.poll = g.poll /\ nf.at = k /\ nf.filter = g.filter /\ nf.notify = g.notify
          /\ nf.reply = g.reply /\ nf.lagged = g.lagged /\ nf.buffered = g.buffered /\ nf.out = new
      BY <1>5 DEF FeedType
    <2> HIDE DEF nf
    <2>6. BufferInv(q, nf, opened)
      BY <1>5, <2>5 DEF StreamInv, BufferInv
    <2>7. OutInv(q, nf)
      <3>1. OutInv(q, g)
        BY <1>5 DEF StreamInv
      <3>2. e.session = OwnSession(q)
        BY <1>5, <1>8, <1>13
      <3>3. \A i \in DOMAIN new : ~IsLast(new[i]) => new[i].session = OwnSession(q)
        BY <2>2, <3>1, <3>2 DEF OutInv
      <3>4. g.reply # "taken" => \A i \in DOMAIN new : ~IsLast(new[i])
        BY <1>8, <2>2, <3>1 DEF OutInv
      <3>5. ASSUME g.reply = "taken"
            PROVE  \E i \in DOMAIN new : \A j \in DOMAIN new : IsLast(new[j]) <=> j = i
        <4>1. PICK i \in DOMAIN g.out : \A j \in DOMAIN g.out : IsLast(g.out[j]) <=> j = i
          BY <3>1, <3>5 DEF OutInv
        <4>2. \A j \in DOMAIN new : IsLast(new[j]) <=> j = i
          BY <1>8, <2>2, <4>1
        <4> QED
          BY <2>2, <4>2
      <3> QED
        BY <2>5, <3>1, <3>3, <3>4, <3>5 DEF OutInv
    <2> QED
      BY <1>11, <1>13, <2>2, <2>3, <2>4, <2>5, <2>6, <2>7
  <1>14. CASE ~(f.at < Oldest) /\ g.filter \notin {"pending", e.session} /\ TakeEvent(f, e) = g
    <2> DEFINE nf == [g EXCEPT !.at = k]
    <2>1. take = nf
      BY <1>14
    <2> HIDE DEF take
    <2>2. nf \in FeedType
      BY <1>5, <1>6 DEF FeedType
    <2>3. /\ nf.poll = g.poll /\ nf.at = k /\ nf.filter = g.filter /\ nf.notify = g.notify
          /\ nf.reply = g.reply /\ nf.lagged = g.lagged /\ nf.buffered = g.buffered /\ nf.out = g.out
      BY <1>5 DEF FeedType
    <2> HIDE DEF nf
    <2>4. BufferInv(q, nf, opened) /\ OutInv(q, nf)
      BY <1>5, <2>3 DEF StreamInv, BufferInv, OutInv
    <2> QED
      BY <1>11, <1>14, <2>1, <2>2, <2>3, <2>4
  <1> QED
    BY <1>9, <1>10, <1>12, <1>13, <1>14

-----------------------------------------------------------------------------
(* The system                                                              *)

\* Who leaves the store and the bus alone leaves them right, and the rooms too if it
\* leaves those.
LEMMA StoreKept ==
  ASSUME StoreInv, log' = log, hand' = hand, bus' = bus,
         opened \subseteq opened', opened' \subseteq Sessions
  PROVE  StoreInv' /\ (RoomsInv /\ room' = room => RoomsInv')
  <1>1. \A e : (InHand(e)' <=> InHand(e)) /\ (OnBus(e)' <=> OnBus(e))
    BY DEF InHand, OnBus
  <1>2. StoreInv'
    BY <1>1 DEF StoreInv
  <1>3. \A n : Passed(n)' <=> Passed(n)
    BY DEF Passed, InHand
  <1>4. ASSUME RoomsInv, room' = room, NEW c \in Rooms PROVE RoomInv(room[c])'
    BY <1>3, <1>4 DEF RoomsInv, RoomInv, SentInv, OrderInv, FloorInv, PhaseInv, Covered, Below
  <1> QED
    BY <1>2, <1>4 DEF RoomsInv

\* A step of a run or of its stream.
LEMMA RunKeeps ==
  ASSUME FeedInv, NEW r \in Runs,
         \/ \E key \in opened \cup {New} : ChatStream(r, key)
         \/ \E s \in Sessions : Own(r, s)
         \/ Finish(r) \/ Poll(r)
  PROVE  FeedInv'
  <1>1. /\ log' = log /\ hand' = hand /\ bus' = bus /\ room' = room
        /\ opened \subseteq opened' /\ opened' \subseteq Sessions
    <2>1. opened \subseteq Sessions
      BY DEF FeedInv, StoreInv
    <2> QED
      BY <2>1 DEF ChatStream, Own, Finish, Answer, Poll, StreamRecv, StreamBusEmpty, StreamReply,
                  StreamEnd, StreamLearn, StreamSleep
  <1>2. StoreInv' /\ RoomsInv'
    BY <1>1, StoreKept DEF FeedInv
  <1>3. StreamsInv'
    BY ChatStreamKeeps, OwnKeeps, FinishKeeps, RecvKeeps, ReplyKeeps, PollKeeps DEF FeedInv, Poll
  <1> QED
    BY <1>2, <1>3 DEF FeedInv

\* A step of a writer: an append or a publication.
LEMMA WriterKeeps ==
  ASSUME FeedInv,
         \/ \E r \in Runs : WriteEvent(r)
         \/ \E b \in Bridges : RouteMessage(b)
         \/ \E w \in Writers : Publish(w)
  PROVE  FeedInv'
  <1>1. bus \in Seq(Event) /\ Bridged \in Sessions /\ Bridged \in opened /\ log \in [Sessions -> Nat]
    BY FeedAssumption DEF FeedInv, StoreInv
  <1>2. Len(bus) \in Nat /\ log[Bridged] \in Nat
    BY <1>1
  <1>3. ASSUME NEW w \in Writers, NEW s \in opened, AppendEvent(w, s),
               opened' = opened, bus' = bus, room' = room
        PROVE  StoreInv' /\ RoomsInv'
    <2>1. /\ StoreInv' /\ \A t \in Sessions : log[t] <= log'[t]
          /\ \A n \in Nat \ {0} : Passed(n) => Passed(n)'
      BY <1>3, AppendKeeps DEF FeedInv
    <2> QED
      BY <1>1, <1>2, <1>3, <2>1, RoomsKept DEF FeedInv
  <1>4. ASSUME NEW r \in Runs, WriteEvent(r) PROVE FeedInv'
    <2>1. /\ run[r].pc = "owned" /\ AppendEvent(r, run[r].session)
          /\ bus' = bus /\ opened' = opened /\ room' = room /\ r \in Writers
      BY <1>4 DEF WriteEvent, Writers
    <2>2. run[r].session \in opened
      BY <2>1, StreamFacts DEF FeedInv, StreamInv, ReportInv
    <2> QED
      BY <1>3, <1>4, <2>1, <2>2, WriteKeeps DEF FeedInv
  <1>5. ASSUME NEW b \in Bridges, RouteMessage(b) PROVE FeedInv'
    BY <1>1, <1>3, <1>5, RouteKeeps DEF FeedInv, RouteMessage, Writers
  <1>6. ASSUME NEW w \in Writers, Publish(w) PROVE FeedInv'
    <2>1. /\ StoreInv' /\ Len(bus') = Len(bus) + 1
          /\ \A j \in DOMAIN bus : j \in DOMAIN bus' /\ bus'[j] = bus[j]
          /\ \A n \in Nat \ {0} : Passed(n) => Passed(n)'
      BY <1>6, PublishKeeps DEF FeedInv
    <2>2. log' = log /\ room' = room
      BY <1>6 DEF Publish
    <2>3. RoomsInv'
      BY <1>2, <2>1, <2>2, RoomsKept DEF FeedInv
    <2> QED
      BY <1>6, <2>1, <2>3, PublishStreams DEF FeedInv
  <1> QED
    BY <1>4, <1>5, <1>6

\* A step of a room.
LEMMA AttendKeeps ==
  ASSUME FeedInv, NEW c \in Rooms, Attend(c) \/ Disconnect(c)
  PROVE  FeedInv'
  <1>1. /\ log' = log /\ hand' = hand /\ bus' = bus /\ opened' = opened
        /\ run' = run /\ feed' = feed
    BY DEF Attend, Connect, ReadStore, Replay, RoomRecv, Disconnect
  <1>2. StoreInv'
    BY <1>1, StoreKept DEF FeedInv, StoreInv
  <1>3. RoomsInv'
    BY ConnectKeeps, ReadStoreKeeps, ReplayKeeps, RoomRecvKeeps, DisconnectKeeps DEF FeedInv, Attend
  <1>4. StreamsInv'
    BY <1>1 DEF FeedInv, StreamsInv
  <1> QED
    BY <1>2, <1>3, <1>4 DEF FeedInv

LEMMA FeedInvKept == FeedInv /\ [Next]_vars => FeedInv'
  <1> SUFFICES ASSUME FeedInv, [Next]_vars PROVE FeedInv'
    OBVIOUS
  <1>1. ASSUME NEW r \in Runs,
               \/ \E key \in opened \cup {New} : ChatStream(r, key)
               \/ \E s \in Sessions : Own(r, s)
               \/ Finish(r) \/ Poll(r)
        PROVE  FeedInv'
    BY <1>1, RunKeeps
  <1>2. CASE \/ \E r \in Runs : WriteEvent(r)
             \/ \E b \in Bridges : RouteMessage(b)
             \/ \E w \in Writers : Publish(w)
    BY <1>2, WriterKeeps
  <1>3. ASSUME NEW c \in Rooms, Attend(c) \/ Disconnect(c) PROVE FeedInv'
    BY <1>3, AttendKeeps
  <1>4. CASE UNCHANGED vars
    <2>1. /\ log' = log /\ hand' = hand /\ bus' = bus /\ opened' = opened
          /\ run' = run /\ feed' = feed /\ room' = room
      BY <1>4 DEF vars
    <2>2. StoreInv' /\ RoomsInv'
      BY <2>1, StoreKept DEF FeedInv, StoreInv
    <2> QED
      BY <2>1, <2>2 DEF FeedInv, StreamsInv
  <1> QED
    BY <1>1, <1>2, <1>3, <1>4 DEF Next

LEMMA FeedInvHolds == Spec => []FeedInv
  <1>1. Init => FeedInv
    BY StoreInit, RoomsInit, StreamsInit DEF FeedInv
  <1> QED
    BY <1>1, FeedInvKept, PTL DEF Spec

\* Whatever a room has not sent its client of the numbers up to any it sent, the room
\* lagged behind or another writer's event overtook: the replay out of the store and
\* the live bus leave no gap, however often the client reconnects and whatever became
\* of its handshake.
THEOREM GapsHold == Spec => []GapsExplained
  <1>1. FeedInv => GapsExplained
    <2> SUFFICES ASSUME FeedInv, NEW c \in Rooms, NEW m \in ToSet(room[c].got), NEW n \in 1..m
                 PROVE  n \in ToSet(room[c].got) \/ room[c].lagged \/ n \in Overtaken
      BY DEF GapsExplained
    <2>1. room[c] \in RoomType /\ RoomInv(room[c]) /\ log[Bridged] \in Nat
      BY RoomFacts DEF FeedInv
    <2>2. PICK i \in DOMAIN room[c].got : m = room[c].got[i]
      BY DEF ToSet
    <2>3. m \in 1..log[Bridged] /\ Covered(room[c], m)
      BY <2>1, <2>2 DEF RoomInv, SentInv
    <2>4. n \in 1..log[Bridged]
      BY <2>1, <2>3
    <2>5. CASE room[c].lagged = FALSE
      <3>1. n \in ToSet(room[c].got) \/ Passed(n)
        BY <2>3, <2>5 DEF Covered
      <3>2. Passed(n) => n \in Overtaken
        BY <2>4 DEF Passed, Overtaken, InHand, Numbered
      <3> QED
        BY <3>1, <3>2
    <2>6. CASE room[c].lagged = TRUE
      BY <2>6
    <2> QED
      BY <2>1, <2>5, <2>6 DEF RoomType
  <1> QED
    BY <1>1, FeedInvHolds, PTL

\* What a connection is sent ascends strictly from above the number its handshake
\* named, or from the beginning when that was lost; and all that leaves on a stream but
\* its last frame is of the stream's own session, in whatever order the session's
\* report, its events and the reply arrive.
THEOREM OrderHolds == Spec => []InOrderAndOwn
  <1>1. FeedInv => InOrderAndOwn
    <2> SUFFICES ASSUME FeedInv PROVE InOrderAndOwn
      OBVIOUS
    <2>1. \A c \in Rooms : OrderInv(room[c])
      BY DEF FeedInv, RoomsInv, RoomInv
    <2>2. \A r \in Runs : \A i \in DOMAIN feed[r].out :
              ~IsLast(feed[r].out[i]) => feed[r].out[i].session = OwnSession(run[r])
      BY DEF FeedInv, StreamsInv, StreamInv, OutInv
    <2> QED
      BY <2>1, <2>2 DEF InOrderAndOwn, OwnSession, OrderInv
  <1> QED
    BY <1>1, FeedInvHolds, PTL

\* A stream that has ended carried its answer once, reply or error, and, if it never
\* lagged, every event its run wrote, one that failed in the end included: none was
\* shed while the stream did not know its session.
THEOREM StreamsComplete == Spec => []StreamComplete
  <1>1. FeedInv => StreamComplete
    <2> SUFFICES ASSUME FeedInv, NEW r \in Runs, feed[r].poll = "over"
                 PROVE  /\ Cardinality({i \in DOMAIN feed[r].out : IsLast(feed[r].out[i])}) = 1
                        /\ feed[r].lagged \/ \A n \in run[r].wrote :
                               \E i \in DOMAIN feed[r].out :
                                   feed[r].out[i] = [session |-> run[r].session, seq |-> n]
      BY DEF StreamComplete
    <2>1. feed[r] \in FeedType /\ StreamInv(run[r], feed[r], hand[r], opened, bus)
      BY StreamFacts DEF FeedInv
    <2>2. feed[r].reply = "taken"
      BY <2>1 DEF StreamInv, OutInv
    <2>3. PICK k \in DOMAIN feed[r].out :
              \A i \in DOMAIN feed[r].out : IsLast(feed[r].out[i]) <=> i = k
      BY <2>1, <2>2 DEF StreamInv, OutInv
    <2>4. {i \in DOMAIN feed[r].out : IsLast(feed[r].out[i])} = {k}
      BY <2>3
    <2>5. Cardinality({k}) = 1
      BY FS_Singleton
    <2>6. CASE feed[r].lagged = FALSE
      <3>1. \A n \in run[r].wrote : Arrives(run[r], feed[r], hand[r], bus, n)
        BY <2>1, <2>6 DEF StreamInv, WholeInv
      <3>2. \A n \in run[r].wrote :
                \E i \in DOMAIN feed[r].out : feed[r].out[i] = Numbered(run[r].session, n)
        BY <2>2, <3>1 DEF Arrives
      <3> QED
        BY <2>4, <2>5, <3>2 DEF Numbered
    <2>7. CASE feed[r].lagged = TRUE
      BY <2>4, <2>5, <2>7
    <2> QED
      BY <2>1, <2>4, <2>5, <2>6, <2>7 DEF FeedType
  <1> QED
    BY <1>1, FeedInvHolds, PTL

=============================================================================

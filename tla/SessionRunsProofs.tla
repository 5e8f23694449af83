------------------------- MODULE SessionRunsProofs -------------------------
(***************************************************************************)
(* Runs on stored sessions, for every number of requests, sessions and     *)
(* calls: what one run writes stands together, what is sent is what a      *)
(* provider accepts, and the store, the log and the tools' effects agree.  *)
(***************************************************************************)
EXTENDS SessionRuns, TranscriptProofs, FiniteSetTheorems

-----------------------------------------------------------------------------
(* What a stored transcript is like                                        *)

\* Every call is made once, in one message, and every result answers an earlier call
\* that no other result answers.
Ordered(m) ==
    /\ m \in Seq(Message)
    /\ \A i \in DOMAIN m : /\ IsInjective(m[i].calls)
                           /\ m[i].role = "tool" => m[i].calls = <<>>
    /\ \A i, j \in DOMAIN m : i # j => ToSet(m[i].calls) \cap ToSet(m[j].calls) = {}
    /\ \A j \in DOMAIN m : m[j].result # None =>
           \E i \in DOMAIN m : i < j /\ m[j].result \in ToSet(m[i].calls)
    /\ \A i, j \in DOMAIN m : (m[i].result = m[j].result /\ m[i].result # None) => i = j

OpenCalls(m) == Calls(m) \ Results(m)

\* Results follow their calls at once, and nothing else follows a call that has none.
InPlace(m) ==
    \A i \in DOMAIN m : \A id \in ToSet(m[i].calls) :
        \/ \E j \in DOMAIN m : m[j].result = id /\ \A k \in (i + 1)..j : m[k].role = "tool"
        \/ id \notin Results(m) /\ \A k \in DOMAIN m : k > i => m[k].role = "tool"

Sound(m, n) == Ordered(m) /\ InPlace(m) /\ Calls(m) \subseteq 1..n

\* The transcript ends with a turn of a permitted width, but for the results of todo.
EndsWithTurn(m, todo) ==
    \E i \in DOMAIN m :
        /\ Len(m[i].calls) \in Widths /\ m[i].result = None
        /\ i + Len(m[i].calls) = Len(m) + Len(todo)
        /\ \A k \in DOMAIN m : k > i => /\ m[k].calls = <<>>
                                        /\ m[k].result \in ToSet(m[i].calls)

EndsWithPrompt(m) == m # <<>> /\ m[Len(m)].calls = <<>> /\ m[Len(m)].result = None

-----------------------------------------------------------------------------
(* The inductive invariant, in parts                                       *)

Inside == Phases \ (Over \cup {"locking", "opening"})

\* Where a run q is says what it holds, given the lock table and the sessions there have
\* been: the lock it holds or waits for is in the table.
PlaceInv(q, table, known) ==
    /\ q.pc \in Over => q.key = None /\ q.lock = None /\ q.session = None
    /\ q.pc \notin Over => /\ q.key \in Keys /\ q.lock \in Requests /\ table[q.key] = q.lock
                           /\ q.key # New => q.key \in known
    /\ q.pc \in {"locking", "opening"} => q.session = None
    /\ q.pc \in Inside => q.session \in known /\ q.key \in {New, q.session}

\* One holds a lock, and a session's first run is alone in naming it.
LockInv ==
    /\ chats \in [Keys -> Requests \cup {None}]
    /\ opened \subseteq Sessions
    /\ run \in [Requests -> Run]
    /\ \A r \in Requests : PlaceInv(run[r], chats, opened)
    /\ \A q, r \in Requests : Holding(q) /\ Holding(r) /\ run[q].lock = run[r].lock => q = r
    /\ \A q, r \in Requests :
           run[q].key = New /\ run[q].session # None => run[r].key # run[q].session

\* What a run q knows of its session when n calls have been issued and the store has m.
TextInv(q, n, m) ==
    /\ q.pc = "repairing" => /\ IsInjective(q.todo)
                             /\ m # None => ToSet(q.todo) = OpenCalls(m)
    /\ q.pc \in {"prompting", "setup"} /\ m # None => OpenCalls(m) = {}
    /\ q.pc = "setup" /\ m # None => EndsWithPrompt(m)
    /\ q.pc \in InLoop => /\ Sound(q.transcript, n)
                          /\ m # None => m = q.transcript
    /\ q.pc \in {"turn", "calling", "answered"} =>
           /\ OpenCalls(q.transcript) = {}
           /\ m # None => EndsWithPrompt(m) \/ EndsWithTurn(m, <<>>)
    /\ q.pc = "calling" => q.sent = CompactAt(q.transcript, Threshold)
    /\ q.pc = "answered" => /\ IsInjective(q.todo)
                            /\ ToSet(q.todo) \subseteq (1..n) \ Calls(q.transcript)
                            /\ Len(q.todo) \in Widths
    /\ q.pc \in {"tools", "handling", "handled"} =>
           /\ q.todo # <<>> /\ IsInjective(q.todo)
           /\ ToSet(q.todo) = OpenCalls(q.transcript)
           /\ EndsWithTurn(q.transcript, q.todo)

StoreInv ==
    /\ issued \in Nat
    /\ messages \in [Sessions -> Seq(Message) \cup {None}]
    /\ \A s \in Sessions : Stored(s) => s \in opened /\ Sound(messages[s], issued)
    /\ \A r \in Requests : run[r].pc \in Inside =>
           TextInv(run[r], issued, messages[run[r].session])

\* What a run writes is at the end of its session until it leaves.
AtEnd(m, r) == \A i, j \in DOMAIN m : i <= j /\ m[i].by = r => m[j].by = r

WriterInv ==
    /\ \A s \in Sessions : Stored(s) => \A i \in DOMAIN messages[s] :
           /\ messages[s][i].by \in Requests
           /\ run[messages[s][i].by].pc \notin {"idle", "locking", "opening"}
    /\ \A r \in Requests : run[r].pc \in Inside /\ Stored(run[r].session) =>
           AtEnd(messages[run[r].session], r)
    /\ RunsDoNotInterleave

\* What an event says of a call or a run is in the transcript.
Told(e, m) ==
    /\ e.kind = "finished" => e.call \in Results(m)
    /\ e.stop = "completed" => \E i \in DOMAIN m : m[i] = Assistant(e.by, <<>>)

\* A run's events are told to a session there is, and a run without a loop has none.
EventsInv(q, evs, m) ==
    /\ q.pc \notin InLoop \cup {"draining"} => evs = <<>>
    /\ q.pc \in InLoop \cup {"draining"} /\ m # None => \A i \in DOMAIN evs : Told(evs[i], m)

RecordsInv ==
    /\ events \in [Sessions -> Seq(Event)]
    /\ channel \in [Requests -> Seq(Event)]
    /\ \A s \in Sessions : IF Stored(s) THEN \A i \in DOMAIN events[s] : Told(events[s][i], messages[s])
                           ELSE events[s] = <<>>
    /\ \A r \in Requests : EventsInv(run[r], channel[r], messages[run[r].session])
    /\ ran \subseteq CallIds \X opened
    /\ \A id \in CallIds, s \in Sessions :
           <<id, s>> \in ran /\ Stored(s) => id \in Calls(messages[s])

RunsInv == LockInv /\ StoreInv /\ WriterInv /\ RecordsInv

-----------------------------------------------------------------------------
(* Transcripts that grow                                                   *)

\* An answer without calls makes none.
LEMMA NoCalls == ToSet(<<>>) = {}
  BY DEF ToSet

\* What stands where in a transcript x was added to.
LEMMA GrownFacts ==
    ASSUME NEW m \in Seq(Message), NEW x \in Seq(Message)
    PROVE  LET e == m \o x
           IN /\ e \in Seq(Message) /\ Len(m) \in Nat /\ Len(x) \in Nat
              /\ Len(e) = Len(m) + Len(x)
              /\ DOMAIN m = 1..Len(m) /\ DOMAIN x = 1..Len(x) /\ DOMAIN e = 1..(Len(m) + Len(x))
              /\ \A i \in DOMAIN m : i \in DOMAIN e /\ e[i] = m[i]
              /\ \A i \in DOMAIN x : Len(m) + i \in DOMAIN e /\ e[Len(m) + i] = x[i]
              /\ \A i \in DOMAIN e : i \notin DOMAIN m =>
                     i > Len(m) /\ i - Len(m) \in DOMAIN x /\ e[i] = x[i - Len(m)]
              /\ Calls(e) = Calls(m) \cup Calls(x)
              /\ Results(e) = Results(m) \cup Results(x)
  <1> DEFINE e == m \o x
  <1>1. /\ e \in Seq(Message) /\ Len(m) \in Nat /\ Len(x) \in Nat
        /\ Len(e) = Len(m) + Len(x)
        /\ DOMAIN m = 1..Len(m) /\ DOMAIN x = 1..Len(x) /\ DOMAIN e = 1..(Len(m) + Len(x))
    BY ConcatProperties, LenProperties
  <1>2. \A i \in 1..(Len(m) + Len(x)) : e[i] = IF i <= Len(m) THEN m[i] ELSE x[i - Len(m)]
    BY ConcatProperties
  <1>3. \A i \in DOMAIN m : i \in DOMAIN e /\ e[i] = m[i]
    BY <1>1, <1>2
  <1>4. \A i \in DOMAIN x : Len(m) + i \in DOMAIN e /\ e[Len(m) + i] = x[i]
    <2> SUFFICES ASSUME NEW i \in DOMAIN x PROVE Len(m) + i \in DOMAIN e /\ e[Len(m) + i] = x[i]
      OBVIOUS
    <2>1. Len(m) + i \in 1..(Len(m) + Len(x)) /\ ~(Len(m) + i <= Len(m)) /\ (Len(m) + i) - Len(m) = i
      BY <1>1
    <2> QED
      BY <1>1, <1>2, <2>1
  <1>5. \A i \in DOMAIN e : i \notin DOMAIN m =>
            i > Len(m) /\ i - Len(m) \in DOMAIN x /\ e[i] = x[i - Len(m)]
    BY <1>1, <1>2
  <1>6. Calls(e) = Calls(m) \cup Calls(x) /\ Results(e) = Results(m) \cup Results(x)
    BY PartsOfConcat
  <1> QED
    BY <1>1, <1>3, <1>4, <1>5, <1>6

\* Calls and results, one at a time.
LEMMA InCalls ==
    ASSUME NEW m, NEW id
    PROVE  /\ id \in Calls(m) <=> \E i \in DOMAIN m : id \in ToSet(m[i].calls)
           /\ id \in Results(m) <=> id # None /\ \E i \in DOMAIN m : m[i].result = id
  BY DEF Calls, Results

\* What every message that is not a result adds.
LEMMA PlainGrows ==
    ASSUME NEW m, NEW y \in Message, Ordered(m), InPlace(m), OpenCalls(m) = {},
           y.role # "tool", y.result = None, IsInjective(y.calls),
           ToSet(y.calls) \cap Calls(m) = {}, None \notin CallIds
    PROVE  /\ Ordered(m \o <<y>>) /\ InPlace(m \o <<y>>)
           /\ Calls(m \o <<y>>) = Calls(m) \cup ToSet(y.calls)
           /\ OpenCalls(m \o <<y>>) = ToSet(y.calls)
  <1> DEFINE x == <<y>>
             e == m \o x
  <1>0. m \in Seq(Message) /\ x \in Seq(Message) /\ Len(x) = 1 /\ x[1] = y /\ DOMAIN x = {1}
    BY DEF Ordered
  <1>1. /\ e \in Seq(Message) /\ Len(m) \in Nat
        /\ DOMAIN m = 1..Len(m) /\ DOMAIN e = 1..(Len(m) + 1)
        /\ \A i \in DOMAIN m : i \in DOMAIN e /\ e[i] = m[i]
        /\ \A i \in DOMAIN e : i \notin DOMAIN m => i = Len(m) + 1
        /\ Len(m) + 1 \in DOMAIN e /\ e[Len(m) + 1] = y
        /\ Calls(e) = Calls(m) \cup Calls(x) /\ Results(e) = Results(m) \cup Results(x)
    <2> HIDE DEF x
    <2> QED
      BY <1>0, GrownFacts
  <1>2. Calls(x) = ToSet(y.calls) /\ Results(x) = {}
    BY <1>0 DEF Calls, Results
  <1>3. ToSet(y.calls) \subseteq CallIds
    BY DEF Message, ToSet
  <1> DEFINE n == Len(m) + 1
  <1>4. \A i \in DOMAIN e : i \in DOMAIN m \/ i = n
    BY <1>1
  <1>5. \A i \in DOMAIN m : i < n
    BY <1>1
  <1> HIDE DEF e, n, x
  <1>6. Ordered(e)
    <2>1. \A i \in DOMAIN e : IsInjective(e[i].calls) /\ (e[i].role = "tool" => e[i].calls = <<>>)
      BY <1>1, <1>4 DEF Ordered, n
    <2>2. \A i \in DOMAIN m : ToSet(m[i].calls) \cap ToSet(y.calls) = {}
      BY DEF Calls
    <2>3. \A i, j \in DOMAIN e : i # j => ToSet(e[i].calls) \cap ToSet(e[j].calls) = {}
      <3> SUFFICES ASSUME NEW i \in DOMAIN e, NEW j \in DOMAIN e, i # j
                   PROVE  ToSet(e[i].calls) \cap ToSet(e[j].calls) = {}
        OBVIOUS
      <3>1. CASE i \in DOMAIN m /\ j \in DOMAIN m
        BY <1>1, <3>1 DEF Ordered
      <3>2. CASE i \in DOMAIN m /\ j = n
        BY <1>1, <2>2, <3>2 DEF n
      <3>3. CASE i = n /\ j \in DOMAIN m
        BY <1>1, <2>2, <3>3 DEF n
      <3> QED
        BY <1>4, <3>1, <3>2, <3>3
    <2>4. \A j \in DOMAIN e : e[j].result # None =>
              \E i \in DOMAIN e : i < j /\ e[j].result \in ToSet(e[i].calls)
      <3> SUFFICES ASSUME NEW j \in DOMAIN e, e[j].result # None
                   PROVE  \E i \in DOMAIN e : i < j /\ e[j].result \in ToSet(e[i].calls)
        OBVIOUS
      <3>1. j \in DOMAIN m /\ e[j] = m[j]
        BY <1>1, <1>4 DEF n
      <3>2. PICK i \in DOMAIN m : i < j /\ m[j].result \in ToSet(m[i].calls)
        BY <3>1 DEF Ordered
      <3> QED
        BY <1>1, <3>1, <3>2
    <2>5. \A i, j \in DOMAIN e : (e[i].result = e[j].result /\ e[i].result # None) => i = j
      BY <1>1, <1>4 DEF Ordered, n
    <2> QED
      BY <1>1, <2>1, <2>3, <2>4, <2>5 DEF Ordered
  <1>7. OpenCalls(e) = ToSet(y.calls)
    <2>1. Calls(m) \subseteq Results(m)
      BY DEF OpenCalls
    <2>2. Results(m) \subseteq Calls(m)
      BY InCalls DEF Ordered
    <2> QED
      BY <1>1, <1>2, <2>1, <2>2 DEF OpenCalls
  <1>8. InPlace(e)
    <2> SUFFICES ASSUME NEW i \in DOMAIN e, NEW id \in ToSet(e[i].calls)
                 PROVE  \/ \E j \in DOMAIN e : e[j].result = id /\ \A k \in (i + 1)..j : e[k].role = "tool"
                        \/ id \notin Results(e) /\ \A k \in DOMAIN e : k > i => e[k].role = "tool"
      BY DEF InPlace
    <2>1. CASE i \in DOMAIN m
      <3>1. id \in ToSet(m[i].calls) /\ id \in Calls(m)
        BY <1>1, <2>1, InCalls
      <3>2. id \in Results(m)
        BY <3>1 DEF OpenCalls
      <3>3. PICK j \in DOMAIN m : m[j].result = id /\ \A k \in (i + 1)..j : m[k].role = "tool"
        BY <2>1, <3>1, <3>2 DEF InPlace
      <3>4. \A k \in (i + 1)..j : k \in DOMAIN m
        BY <1>1, <2>1
      <3> QED
        BY <1>1, <3>3, <3>4
    <2>2. CASE i = n
      <3>1. id \in OpenCalls(e)
        BY <1>1, <1>7, <2>2 DEF n
      <3>2. \A k \in DOMAIN e : ~(k > i)
        BY <1>1, <2>2 DEF n
      <3> QED
        BY <3>1, <3>2 DEF OpenCalls
    <2> QED
      BY <1>4, <2>1, <2>2
  <1> QED
    BY <1>1, <1>2, <1>6, <1>7, <1>8 DEF e, x

\* What results of open calls add.
LEMMA ResultsGrow ==
    ASSUME NEW m, NEW ids \in Seq(CallIds), NEW x \in Seq(Message), Len(x) = Len(ids),
           Ordered(m), InPlace(m), IsInjective(ids), ToSet(ids) \subseteq OpenCalls(m),
           \A i \in DOMAIN x : x[i].role = "tool" /\ x[i].calls = <<>> /\ x[i].result = ids[i]
    PROVE  /\ Ordered(m \o x) /\ InPlace(m \o x)
           /\ Calls(m \o x) = Calls(m)
           /\ OpenCalls(m \o x) = OpenCalls(m) \ ToSet(ids)
           /\ ToSet(ids) \subseteq Results(m \o x)
  <1> DEFINE e == m \o x
  <1>0. /\ m \in Seq(Message) /\ None \notin CallIds
        /\ Len(ids) \in Nat /\ DOMAIN ids = 1..Len(ids) /\ \A i \in DOMAIN ids : ids[i] \in CallIds
    BY RunsAssumption, LenProperties, ElementOfSeq DEF Ordered
  <1>1. DOMAIN x = DOMAIN ids
    BY <1>0, LenProperties
  <1>2. \A i \in DOMAIN x : /\ x[i].role = "tool" /\ x[i].calls = <<>>
                            /\ x[i].result = ids[i] /\ x[i].result # None
    BY <1>0, <1>1
  <1>4. Calls(x) = {} /\ Results(x) = ToSet(ids)
    <2>1. Calls(x) = {}
      BY <1>2, NoCalls DEF Calls
    <2>2. Results(x) = ToSet(ids)
      BY <1>1, <1>2 DEF Results, ToSet
    <2> QED
      BY <2>1, <2>2
  <1>5. /\ e \in Seq(Message) /\ Len(m) \in Nat /\ Len(x) \in Nat
        /\ DOMAIN m = 1..Len(m) /\ DOMAIN x = 1..Len(x) /\ DOMAIN e = 1..(Len(m) + Len(x))
        /\ \A i \in DOMAIN m : i \in DOMAIN e /\ e[i] = m[i]
        /\ \A i \in DOMAIN x : Len(m) + i \in DOMAIN e /\ e[Len(m) + i] = x[i]
        /\ \A i \in DOMAIN e : i \notin DOMAIN m =>
               i > Len(m) /\ i - Len(m) \in DOMAIN x /\ e[i] = x[i - Len(m)]
        /\ Calls(e) = Calls(m) \cup Calls(x)
        /\ Results(e) = Results(m) \cup Results(x)
    BY <1>0, GrownFacts
  <1> HIDE DEF e
  <1>6. \A i \in DOMAIN e : i \notin DOMAIN m =>
            /\ e[i].role = "tool" /\ e[i].calls = <<>> /\ e[i].result # None
            /\ e[i].result \in ToSet(ids) /\ e[i].result = ids[i - Len(m)]
            /\ i - Len(m) \in DOMAIN ids
    BY <1>1, <1>2, <1>5 DEF ToSet
  <1>7. \A id \in ToSet(ids) : id \notin Results(m) /\ id \in Calls(m)
    BY DEF OpenCalls
  <1>8. Ordered(e)
    <2>1. \A i \in DOMAIN e : IsInjective(e[i].calls) /\ (e[i].role = "tool" => e[i].calls = <<>>)
      <3>1. IsInjective(<<>>)
        BY DEF IsInjective
      <3> QED
        BY <1>5, <1>6, <3>1 DEF Ordered
    <2>2. \A i, j \in DOMAIN e : i # j => ToSet(e[i].calls) \cap ToSet(e[j].calls) = {}
      <3> SUFFICES ASSUME NEW i \in DOMAIN e, NEW j \in DOMAIN e, i # j
                   PROVE  ToSet(e[i].calls) \cap ToSet(e[j].calls) = {}
        OBVIOUS
      <3>1. CASE i \in DOMAIN m /\ j \in DOMAIN m
        BY <1>5, <3>1 DEF Ordered
      <3>2. CASE i \notin DOMAIN m \/ j \notin DOMAIN m
        BY <1>6, <3>2, NoCalls
      <3> QED
        BY <3>1, <3>2
    <2>3. \A j \in DOMAIN e : e[j].result # None =>
              \E i \in DOMAIN e : i < j /\ e[j].result \in ToSet(e[i].calls)
      <3> SUFFICES ASSUME NEW j \in DOMAIN e, e[j].result # None
                   PROVE  \E i \in DOMAIN e : i < j /\ e[j].result \in ToSet(e[i].calls)
        OBVIOUS
      <3>1. CASE j \in DOMAIN m
        <4>1. PICK i \in DOMAIN m : i < j /\ m[j].result \in ToSet(m[i].calls)
          BY <1>5, <3>1 DEF Ordered
        <4> QED
          BY <1>5, <3>1, <4>1
      <3>2. CASE j \notin DOMAIN m
        <4>1. e[j].result \in Calls(m) /\ j > Len(m)
          BY <1>5, <1>6, <1>7, <3>2
        <4>2. PICK i \in DOMAIN m : e[j].result \in ToSet(m[i].calls)
          BY <4>1, InCalls
        <4>3. i < j
          BY <1>5, <4>1
        <4> QED
          BY <1>5, <4>2, <4>3
      <3> QED
        BY <3>1, <3>2
    <2>4. \A i, j \in DOMAIN e : (e[i].result = e[j].result /\ e[i].result # None) => i = j
      <3> SUFFICES ASSUME NEW i \in DOMAIN e, NEW j \in DOMAIN e,
                          e[i].result = e[j].result, e[i].result # None
                   PROVE  i = j
        OBVIOUS
      <3>1. CASE i \in DOMAIN m /\ j \in DOMAIN m
        BY <1>5, <3>1 DEF Ordered
      <3>2. CASE i \notin DOMAIN m /\ j \notin DOMAIN m
        <4>1. ids[i - Len(m)] = ids[j - Len(m)] /\ i - Len(m) \in DOMAIN ids /\ j - Len(m) \in DOMAIN ids
          BY <1>6, <3>2
        <4>2. i - Len(m) = j - Len(m)
          BY <4>1 DEF IsInjective
        <4> QED
          BY <1>5, <4>2
      <3>3. \A k \in DOMAIN m : m[k].result # None => m[k].result \in Results(m)
        BY InCalls
      <3>4. CASE i \in DOMAIN m /\ j \notin DOMAIN m
        BY <1>5, <1>6, <1>7, <3>3, <3>4
      <3>5. CASE i \notin DOMAIN m /\ j \in DOMAIN m
        BY <1>5, <1>6, <1>7, <3>3, <3>5
      <3> QED
        BY <3>1, <3>2, <3>4, <3>5
    <2> QED
      BY <1>5, <2>1, <2>2, <2>3, <2>4 DEF Ordered
  <1>9. InPlace(e)
    <2> SUFFICES ASSUME NEW i \in DOMAIN e, NEW id \in ToSet(e[i].calls)
                 PROVE  \/ \E j \in DOMAIN e : e[j].result = id /\ \A k \in (i + 1)..j : e[k].role = "tool"
                        \/ id \notin Results(e) /\ \A k \in DOMAIN e : k > i => e[k].role = "tool"
      BY DEF InPlace
    <2>1. i \in DOMAIN m /\ id \in ToSet(m[i].calls)
      BY <1>5, <1>6, NoCalls
    <2>2. CASE \E j \in DOMAIN m : m[j].result = id /\ \A k \in (i + 1)..j : m[k].role = "tool"
      <3>1. PICK j \in DOMAIN m : m[j].result = id /\ \A k \in (i + 1)..j : m[k].role = "tool"
        BY <2>2
      <3>2. \A k \in (i + 1)..j : k \in DOMAIN m
        BY <1>5, <2>1
      <3>3. \A k \in (i + 1)..j : e[k].role = "tool"
        BY <1>5, <3>1, <3>2
      <3>4. j \in DOMAIN e /\ e[j].result = id
        BY <1>5, <3>1
      <3> QED
        BY <3>3, <3>4
    <2>3. CASE id \notin Results(m) /\ \A k \in DOMAIN m : k > i => m[k].role = "tool"
      <3>1. \A k \in DOMAIN e : k > i => e[k].role = "tool"
        BY <1>5, <1>6, <2>3
      <3>2. CASE id \in ToSet(ids)
        <4>1. PICK a \in DOMAIN ids : ids[a] = id
          BY <3>2 DEF ToSet
        <4>2. Len(m) + a \in DOMAIN e /\ e[Len(m) + a].result = id
          BY <1>1, <1>2, <1>5, <4>1
        <4>3. \A k \in (i + 1)..(Len(m) + a) : k \in DOMAIN e /\ k > i
          BY <1>0, <1>5, <2>1, <4>2
        <4> QED
          BY <3>1, <4>2, <4>3
      <3>3. CASE id \notin ToSet(ids)
        BY <1>4, <1>5, <2>3, <3>1, <3>3
      <3> QED
        BY <3>2, <3>3
    <2> QED
      BY <2>1, <2>2, <2>3 DEF InPlace
  <1>10. /\ Calls(e) = Calls(m) /\ OpenCalls(e) = OpenCalls(m) \ ToSet(ids)
         /\ ToSet(ids) \subseteq Results(e)
    BY <1>4, <1>5 DEF OpenCalls
  <1> QED
    BY <1>8, <1>9, <1>10 DEF e

\* A transcript whose calls all have their results is a request a provider accepts.
LEMMA ClosedIsSendable ==
    ASSUME NEW m, Ordered(m), InPlace(m), OpenCalls(m) = {}
    PROVE  Sendable(m)
  <1>1. Results(m) \subseteq Calls(m)
    BY InCalls DEF Ordered
  <1>2. ASSUME NEW i \in DOMAIN m, NEW id \in ToSet(m[i].calls)
        PROVE  \E j \in DOMAIN m :
                   /\ {k \in DOMAIN m : m[k].result = id} = {j}
                   /\ i < j
                   /\ \A k \in (i + 1)..j : m[k].role = "tool"
    <2>1. id \in Results(m)
      BY <1>2, InCalls DEF OpenCalls
    <2>2. PICK j \in DOMAIN m : m[j].result = id /\ \A k \in (i + 1)..j : m[k].role = "tool"
      BY <1>2, <2>1 DEF InPlace
    <2>3. id # None
      BY <2>1, InCalls
    <2>4. {k \in DOMAIN m : m[k].result = id} = {j}
      BY <2>2, <2>3 DEF Ordered
    <2>5. PICK h \in DOMAIN m : h < j /\ id \in ToSet(m[h].calls)
      BY <2>2, <2>3 DEF Ordered
    <2>6. h = i
      BY <1>2, <2>5 DEF Ordered
    <2> QED
      BY <2>2, <2>4, <2>5, <2>6
  <1> QED
    BY <1>1, <1>2 DEF Sendable

\* Where the messages of a suffix stand.
LEMMA SuffixFacts ==
    ASSUME NEW m \in Seq(Message), NEW t \in 0..Len(m)
    PROVE  LET later == SubSeq(m, t + 1, Len(m))
           IN /\ later \in Seq(Message) /\ Len(later) = Len(m) - t
              /\ DOMAIN later = 1..(Len(m) - t)
              /\ \A i \in DOMAIN later : t + i \in DOMAIN m /\ later[i] = m[t + i]
              /\ \A i \in DOMAIN m : i > t => i - t \in DOMAIN later /\ later[i - t] = m[i]
  <1> DEFINE later == SubSeq(m, t + 1, Len(m))
  <1>0. /\ Len(m) \in Nat /\ t \in Nat /\ t <= Len(m) /\ DOMAIN m = 1..Len(m)
        /\ \A i \in DOMAIN m : m[i] \in Message
    BY LenProperties, ElementOfSeq
  <1>1. \A i \in (t + 1)..Len(m) : m[i] \in Message
    BY <1>0
  <1>2. /\ later \in Seq(Message)
        /\ Len(later) = IF t + 1 <= Len(m) THEN Len(m) - (t + 1) + 1 ELSE 0
        /\ \A i \in 1..(Len(m) - (t + 1) + 1) : later[i] = m[(t + 1) + i - 1]
    BY <1>0, <1>1, SubSeqProperties
  <1>3. Len(later) = Len(m) - t /\ DOMAIN later = 1..(Len(m) - t)
    <2>1. DOMAIN later = 1..Len(later)
      BY <1>2, LenProperties
    <2> HIDE DEF later
    <2>2. Len(m) \in Nat /\ t \in Nat /\ t <= Len(m)
      BY <1>0
    <2>3. Len(later) = IF t + 1 <= Len(m) THEN Len(m) - (t + 1) + 1 ELSE 0
      BY <1>2
    <2>4. Len(later) = Len(m) - t
      BY ONLY <2>2, <2>3
    <2> QED
      BY <2>1, <2>4
  <1> HIDE DEF later
  <1>4. \A i \in 1..(Len(m) - t) : later[i] = m[t + i]
    <2> SUFFICES ASSUME NEW i \in 1..(Len(m) - t) PROVE later[i] = m[t + i]
      OBVIOUS
    <2>1. i \in 1..(Len(m) - (t + 1) + 1) /\ (t + 1) + i - 1 = t + i
      BY <1>0
    <2> QED
      BY <1>2, <2>1
  <1>5. \A i \in DOMAIN later : t + i \in DOMAIN m
    BY <1>0, <1>3
  <1>6. ASSUME NEW i \in DOMAIN m, i > t PROVE i - t \in DOMAIN later /\ later[i - t] = m[i]
    <2>1. i - t \in 1..(Len(m) - t) /\ t + (i - t) = i
      BY <1>0, <1>6
    <2> QED
      BY <1>3, <1>4, <2>1
  <1> QED
    BY <1>2, <1>3, <1>4, <1>5, <1>6 DEF later

\* close_interrupted finds the open calls, each once.
LEMMA InterruptedFacts ==
    ASSUME NEW m, Ordered(m), InPlace(m)
    PROVE  /\ InterruptedCalls(m) \in Seq(CallIds) /\ IsInjective(InterruptedCalls(m))
           /\ ToSet(InterruptedCalls(m)) = OpenCalls(m)
  <1> DEFINE turns == {i \in DOMAIN m : m[i].calls # <<>>}
             last == Max(turns)
             later == SubSeq(m, last + 1, Len(m))
  <1>0. /\ m \in Seq(Message) /\ Len(m) \in Nat /\ DOMAIN m = 1..Len(m)
        /\ \A i \in DOMAIN m : m[i].calls \in Seq(CallIds)
    <2>1. m \in Seq(Message) /\ Len(m) \in Nat /\ DOMAIN m = 1..Len(m)
      BY LenProperties DEF Ordered
    <2>2. \A i \in DOMAIN m : m[i] \in Message
      BY <2>1, ElementOfSeq
    <2> QED
      BY <2>1, <2>2 DEF Message
  <1>1. CASE turns = {}
    <2>1. Calls(m) = {}
      BY <1>1, NoCalls DEF Calls
    <2>2. InterruptedCalls(m) = <<>>
      BY <1>1 DEF InterruptedCalls
    <2>3. OpenCalls(m) = {}
      BY <2>1 DEF OpenCalls
    <2> QED
      BY <2>2, <2>3, NoCalls DEF IsInjective
  <1>2. CASE turns # {}
    <2>1. turns \in SUBSET (0..Len(m))
      BY <1>0
    <2>2. last \in turns
      BY <1>0, <1>2, <2>1, MaxIn
    <2>3. \A i \in turns : i <= last
      BY <1>0, <1>2, <2>1, MaxIn
    <2> HIDE DEF turns, last
    <2>4. last \in 1..Len(m) /\ last \in DOMAIN m /\ m[last].calls # <<>>
      BY <1>0, <2>2 DEF turns
    <2>5. /\ \A i \in DOMAIN later : last + i \in DOMAIN m /\ later[i] = m[last + i]
          /\ \A i \in DOMAIN m : i > last => i - last \in DOMAIN later /\ later[i - last] = m[i]
      <3>1. last \in 0..Len(m)
        BY <1>0, <2>4
      <3> QED
        BY <1>0, <3>1, SuffixFacts
    <2> HIDE DEF later
    <2>6. InterruptedCalls(m) = Unanswered(m[last].calls, Results(later))
      BY <1>2 DEF InterruptedCalls, turns, last, later
    <2>7. m[last].calls \in Seq(CallIds) /\ IsInjective(m[last].calls)
      BY <1>0, <2>4 DEF Ordered
    <2>8. ToSet(m[last].calls) \ Results(later) = OpenCalls(m)
      <3>1. ASSUME NEW id \in OpenCalls(m) PROVE id \in ToSet(m[last].calls) \ Results(later)
        <4>1. PICK i \in DOMAIN m : id \in ToSet(m[i].calls)
          BY InCalls DEF OpenCalls
        <4>2. id \notin Results(m)
          BY DEF OpenCalls
        <4>3. id # None
          BY <1>0, <4>1, RunsAssumption DEF ToSet
        <4>4. \A j \in DOMAIN m : m[j].result # id
          BY <4>2, <4>3, InCalls
        <4>5. \A k \in DOMAIN m : k > i => m[k].role = "tool"
          BY <4>1, <4>4 DEF InPlace
        <4>6. m[i].calls # <<>>
          BY <4>1, NoCalls
        <4>7. i <= last
          BY <2>3, <4>6 DEF turns
        <4>8. ~(last > i)
          BY <2>4, <4>5 DEF Ordered
        <4>9. i = last
          BY <1>0, <2>4, <4>7, <4>8
        <4>10. id \notin Results(later)
          BY <2>5, <4>4, InCalls
        <4> QED
          BY <4>1, <4>9, <4>10
      <3>2. ASSUME NEW id \in ToSet(m[last].calls) \ Results(later) PROVE id \in OpenCalls(m)
        <4>1. id \in Calls(m) /\ id # None
          <5>1. id \in CallIds
            BY <2>7 DEF ToSet
          <5> QED
            BY <2>4, <5>1, InCalls, RunsAssumption
        <4>2. ASSUME id \in Results(m) PROVE FALSE
          <5>1. PICK j \in DOMAIN m : m[j].result = id
            BY <4>2, InCalls
          <5>2. PICK h \in DOMAIN m : h < j /\ id \in ToSet(m[h].calls)
            BY <4>1, <5>1 DEF Ordered
          <5>3. h = last
            BY <2>4, <5>2 DEF Ordered
          <5>4. id \in Results(later)
            BY <2>5, <4>1, <5>1, <5>2, <5>3, InCalls
          <5> QED
            BY <5>4
        <4> QED
          BY <4>1, <4>2 DEF OpenCalls
      <3> QED
        BY <3>1, <3>2
    <2> QED
      BY <2>6, <2>7, <2>8, UnansweredFacts
  <1> QED
    BY <1>1, <1>2

\* Where the messages of a compacted request come from: h of the transcript's first,
\* the marker, and those after its t first.
Compacted(m, e, h, t) ==
    /\ h < t /\ t = SafeTailBefore(m, KeepTail)
    /\ IsPairSafe(SubSeq(m, 1, h)) /\ IsPairSafe(SubSeq(m, t + 1, Len(m)))
    /\ e \in Seq(Message) /\ Len(e) = h + 1 + (Len(m) - t)
    /\ DOMAIN e = 1..(h + 1 + (Len(m) - t))
    /\ \A i \in 1..h : e[i] = m[i]
    /\ e[h + 1] = Marker
    /\ \A i \in (t + 1)..Len(m) : e[i - t + h + 1] = m[i]

\* A request is the transcript, or what compaction left of it.
LEMMA CompactFacts ==
    ASSUME NEW m \in Seq(Message), NEW e, e = CompactAt(m, Threshold)
    PROVE  e = m \/ \E h, t \in 0..Len(m) : Compacted(m, e, h, t)
  <1> DEFINE h == SafeHeadEnd(m, KeepHead)
             t == SafeTailBefore(m, KeepTail)
             front == SubSeq(m, 1, h)
             back == SubSeq(m, t + 1, Len(m))
  <1>1. CASE Threshold = 0 \/ Tokens(m) <= Threshold \/ h >= t
    BY <1>1 DEF CompactAt
  <1>2. CASE ~(Threshold = 0 \/ Tokens(m) <= Threshold \/ h >= t)
    <2>1. e = (front \o <<Marker>>) \o back
      BY <1>2 DEF CompactAt
    <2>2. /\ h \in 0..Len(m) /\ IsPairSafe(front)
          /\ t \in 0..Len(m) /\ IsPairSafe(back)
      BY KeepAssumption, SafeHead, SafeTail
    <2>3. Len(m) \in Nat /\ DOMAIN m = 1..Len(m) /\ \A i \in 1..Len(m) : m[i] \in Message
      BY LenProperties, ElementOfSeq
    <2>4. h < t
      BY <1>2, <2>2, <2>3
    <2>5. back \in Seq(Message) /\ Len(back) = Len(m) - t /\ DOMAIN back = 1..(Len(m) - t)
          /\ \A i \in DOMAIN m : i > t => i - t \in DOMAIN back /\ back[i - t] = m[i]
      BY <2>2, SuffixFacts
    <2> HIDE DEF h, t
    <2>6. front \in Seq(Message) /\ Len(front) = h /\ \A i \in 1..h : front[i] = m[i]
      <3>1. \A i \in 1..h : m[i] \in Message
        BY <2>2, <2>3
      <3>2. /\ front \in Seq(Message) /\ Len(front) = IF 1 <= h THEN h - 1 + 1 ELSE 0
            /\ \A i \in 1..(h - 1 + 1) : front[i] = m[1 + i - 1]
        BY <2>2, <3>1, SubSeqProperties
      <3> HIDE DEF front
      <3>3. Len(front) = h
        BY <2>2, <2>3, <3>2
      <3>4. ASSUME NEW i \in 1..h PROVE front[i] = m[i]
        <4>1. i \in 1..(h - 1 + 1) /\ 1 + i - 1 = i
          BY <2>2, <2>3
        <4> QED
          BY <3>2, <4>1
      <3> QED
        BY <3>2, <3>3, <3>4
    <2> HIDE DEF front, back
    <2>7. <<Marker>> \in Seq(Message) /\ Len(<<Marker>>) = 1 /\ <<Marker>>[1] = Marker
      BY RunsAssumption, MarkerIsPairSafe
    <2> DEFINE f == front \o <<Marker>>
    <2>8. /\ f \in Seq(Message) /\ Len(f) = h + 1
          /\ \A i \in 1..(h + 1) : f[i] = IF i <= h THEN front[i] ELSE <<Marker>>[i - h]
      BY <2>6, <2>7, ConcatProperties
    <2> HIDE DEF f
    <2>9. /\ e \in Seq(Message) /\ Len(e) = (h + 1) + (Len(m) - t)
          /\ \A i \in 1..((h + 1) + (Len(m) - t)) :
                 e[i] = IF i <= h + 1 THEN f[i] ELSE back[i - (h + 1)]
      BY <2>1, <2>5, <2>8, ConcatProperties DEF f
    <2>10. DOMAIN e = 1..(h + 1 + (Len(m) - t))
      BY <2>9, LenProperties
    <2>11. ASSUME NEW i \in 1..h PROVE e[i] = m[i]
      <3>1. i \in 1..(h + 1) /\ i \in 1..((h + 1) + (Len(m) - t)) /\ i <= h /\ i <= h + 1
        BY <2>2, <2>3
      <3> QED
        BY <2>6, <2>8, <2>9, <3>1
    <2>12. e[h + 1] = Marker
      <3>1. /\ h + 1 \in 1..(h + 1) /\ h + 1 \in 1..((h + 1) + (Len(m) - t))
            /\ ~(h + 1 <= h) /\ h + 1 <= h + 1 /\ (h + 1) - h = 1
        BY <2>2, <2>3
      <3> QED
        BY <2>7, <2>8, <2>9, <3>1
    <2>13. ASSUME NEW i \in (t + 1)..Len(m) PROVE e[i - t + h + 1] = m[i]
      <3>1. /\ i - t + h + 1 \in 1..((h + 1) + (Len(m) - t)) /\ ~(i - t + h + 1 <= h + 1)
            /\ (i - t + h + 1) - (h + 1) = i - t /\ i \in DOMAIN m /\ i > t
        BY <2>2, <2>3
      <3> QED
        BY <2>5, <2>9, <3>1
    <2>14. Compacted(m, e, h, t)
      BY <2>2, <2>4, <2>9, <2>10, <2>11, <2>12, <2>13 DEF front, back, t, Compacted
    <2> QED
      BY <2>2, <2>14
  <1> QED
    BY <1>1, <1>2

\* Wherever compaction cuts, a request a provider accepts stays one.
LEMMA CompactSendable ==
    ASSUME NEW m, Ordered(m), InPlace(m), OpenCalls(m) = {},
           NEW e, e = CompactAt(m, Threshold)
    PROVE  Sendable(e)
  <1>0. m \in Seq(Message) /\ Sendable(m) /\ Len(m) \in Nat /\ DOMAIN m = 1..Len(m)
    BY ClosedIsSendable, LenProperties DEF Ordered
  <1>1. CASE e = m
    BY <1>0, <1>1
  <1>2. ASSUME NEW h \in 0..Len(m), NEW t \in 0..Len(m), Compacted(m, e, h, t)
        PROVE  Sendable(e)
    <2>9. /\ h \in 0..Len(m) /\ t \in 0..Len(m) /\ h < t
          /\ IsPairSafe(SubSeq(m, 1, h)) /\ IsPairSafe(SubSeq(m, t + 1, Len(m)))
          /\ DOMAIN e = 1..(h + 1 + (Len(m) - t))
          /\ \A i \in 1..h : e[i] = m[i]
          /\ e[h + 1] = Marker
          /\ \A i \in (t + 1)..Len(m) : e[i - t + h + 1] = m[i]
      BY <1>2 DEF Compacted
    <2> DEFINE front == SubSeq(m, 1, h)
               back == SubSeq(m, t + 1, Len(m))
               At(i) == IF i <= h THEN i ELSE i + t - h - 1
    <2>0. h \in Nat /\ t \in Nat /\ Len(m) \in Nat /\ h < t /\ t <= Len(m)
      BY <1>0, <2>9
    <2>1. Results(e) \subseteq Calls(e)
      <3>1. IsPairSafe(m)
        BY <1>0 DEF IsPairSafe, Sendable, OpenCalls
      <3>2. IsPairSafe(e)
        BY <1>0, <3>1, RunsAssumption, CompactionKeepsPairs
      <3> QED
        BY <3>2 DEF IsPairSafe
    <2>2. \A i \in DOMAIN e : i # h + 1 => At(i) \in DOMAIN m /\ e[i] = m[At(i)]
      <3> SUFFICES ASSUME NEW i \in DOMAIN e, i # h + 1 PROVE At(i) \in DOMAIN m /\ e[i] = m[At(i)]
        OBVIOUS
      <3>1. CASE i <= h
        BY <1>0, <2>9, <3>1
      <3>2. CASE i > h
        <4> DEFINE c == i + t - h - 1
        <4>1. i \in Nat /\ i > h + 1 /\ i <= h + 1 + (Len(m) - t)
          BY <2>9, <2>0, <3>2
        <4>2. c \in (t + 1)..Len(m) /\ c - t + h + 1 = i /\ ~(i <= h)
          BY <2>0, <4>1
        <4>3. c \in DOMAIN m /\ At(i) = c
          BY <1>0, <2>0, <4>2
        <4> HIDE DEF c, At
        <4>4. e[c - t + h + 1] = m[c]
          BY <2>9, <4>2
        <4> QED
          BY <4>2, <4>3, <4>4
      <3> QED
        BY <1>0, <2>9, <3>1, <3>2
    <2>3. Marker.calls = <<>> /\ Marker.result = None
      BY DEF Marker, Assistant
    <2>4. /\ \A i \in 1..h : \A id \in ToSet(m[i].calls) : \E j \in 1..h : m[j].result = id
          /\ \A i \in (t + 1)..Len(m) : \A id \in ToSet(m[i].calls) :
                 \E j \in (t + 1)..Len(m) : m[j].result = id
      <3>1. /\ DOMAIN front = 1..h /\ \A i \in 1..h : front[i] = m[i]
        <4>1. front = SubSeq(m, 1, h) /\ h \in 0..Len(m) /\ Len(m) \in Nat
          BY <1>0
        <4> QED
          BY <1>0, <4>1
      <3>2. /\ DOMAIN back = 1..(Len(m) - t)
            /\ \A i \in DOMAIN back : t + i \in DOMAIN m /\ back[i] = m[t + i]
            /\ \A i \in DOMAIN m : i > t => i - t \in DOMAIN back /\ back[i - t] = m[i]
        BY <1>0, SuffixFacts
      <3> HIDE DEF front, back
      <3>3. Calls(front) = Results(front) /\ Calls(back) = Results(back)
        BY <2>9 DEF IsPairSafe, front, back
      <3>4. ASSUME NEW i \in 1..h, NEW id \in ToSet(m[i].calls) PROVE \E j \in 1..h : m[j].result = id
        <4>1. id \in Results(front)
          BY <3>1, <3>3, <3>4, InCalls
        <4> QED
          BY <3>1, <4>1, InCalls
      <3>5. ASSUME NEW i \in (t + 1)..Len(m), NEW id \in ToSet(m[i].calls)
            PROVE \E j \in (t + 1)..Len(m) : m[j].result = id
        <4>1. i \in DOMAIN m /\ i > t
          BY <1>0
        <4>2. id \in Results(back)
          BY <3>2, <3>3, <3>5, <4>1, InCalls
        <4>3. PICK j \in DOMAIN back : back[j].result = id
          BY <4>2, InCalls
        <4>4. t + j \in (t + 1)..Len(m) /\ m[t + j].result = id
          BY <1>0, <3>2, <4>3
        <4> QED
          BY <4>4
      <3> QED
        BY <3>4, <3>5
    <2>5. ASSUME NEW i \in DOMAIN e, NEW id \in ToSet(e[i].calls)
          PROVE  \E j \in DOMAIN e :
                     /\ {k \in DOMAIN e : e[k].result = id} = {j}
                     /\ i < j
                     /\ \A k \in (i + 1)..j : e[k].role = "tool"
      <3>1. i # h + 1
        BY <2>9, <2>3, <2>5, NoCalls
      <3> DEFINE a == At(i)
      <3>2. a \in DOMAIN m /\ e[i] = m[a] /\ id \in ToSet(m[a].calls)
        BY <2>2, <2>5, <3>1
      <3>3. PICK b \in DOMAIN m : /\ {k \in DOMAIN m : m[k].result = id} = {b}
                                  /\ a < b
                                  /\ \A k \in (a + 1)..b : m[k].role = "tool"
        BY <1>0, <3>2 DEF Sendable
      <3>4. id # None
        <4>1. id \in Calls(m)
          BY <3>2, InCalls
        <4> QED
          BY <4>1, InCalls DEF OpenCalls
      <3>5. m[b].result = id /\ \A k \in DOMAIN m : m[k].result = id => k = b
        BY <3>3
      <3>6. CASE i <= h
        <4>1. a = i /\ i \in 1..h
          BY <2>9, <3>6
        <4>2. b \in 1..h
          <5>1. PICK j \in 1..h : m[j].result = id
            BY <2>4, <3>2, <4>1
          <5>2. j \in DOMAIN m
            BY <1>0, <2>0
          <5> QED
            BY <3>5, <5>1, <5>2
        <4>3. b \in DOMAIN e /\ e[b].result = id
          BY <1>0, <2>9, <3>5, <4>2
        <4>4. ASSUME NEW k \in DOMAIN e, e[k].result = id PROVE k = b
          <5>1. k # h + 1
            BY <2>9, <2>3, <3>4, <4>4
          <5>2. At(k) = b
            BY <2>2, <3>5, <4>4, <5>1
          <5> QED
            BY <1>0, <2>9, <4>2, <5>1, <5>2
        <4>5. \A k \in (i + 1)..b : k \in 1..h /\ e[k] = m[k]
          BY <1>0, <2>9, <4>1, <4>2
        <4> QED
          BY <3>3, <4>1, <4>3, <4>4, <4>5
      <3>7. CASE i > h
        <4> DEFINE j == b - t + h + 1
        <4>1. a = i + t - h - 1 /\ a \in (t + 1)..Len(m)
          BY <1>0, <2>9, <3>1, <3>7
        <4>2. b \in (t + 1)..Len(m)
          <5>1. PICK c \in (t + 1)..Len(m) : m[c].result = id
            BY <2>4, <3>2, <4>1
          <5>2. c \in DOMAIN m
            BY <1>0, <2>0
          <5> QED
            BY <3>5, <5>1, <5>2
        <4>3. j \in DOMAIN e /\ e[j].result = id /\ i < j
          <5>1. e[j] = m[b]
            BY <2>9, <4>2
          <5>2. i \in Nat
            BY <2>9, <2>0
          <5>3. j \in 1..(h + 1 + (Len(m) - t)) /\ i < j
            BY <2>0, <3>3, <4>1, <4>2, <5>2
          <5> QED
            BY <2>9, <3>5, <5>1, <5>3
        <4>4. ASSUME NEW k \in DOMAIN e, e[k].result = id PROVE k = j
          <5>1. k # h + 1
            BY <2>9, <2>3, <3>4, <4>4
          <5>2. At(k) = b
            BY <2>2, <3>5, <4>4, <5>1
          <5>3. k \in Nat /\ b \in Nat /\ b > t
            BY <2>0, <2>9, <4>2
          <5> QED
            BY <2>0, <5>1, <5>2, <5>3
        <4>5. ASSUME NEW k \in (i + 1)..j PROVE e[k].role = "tool"
          <5>1. k + t - h - 1 \in (a + 1)..b /\ k \in DOMAIN e /\ k # h + 1 /\ ~(k <= h)
            BY <1>0, <2>9, <3>1, <3>7, <4>1, <4>2
          <5>2. e[k] = m[k + t - h - 1]
            BY <2>2, <5>1
          <5> QED
            BY <3>3, <5>1, <5>2
        <4> HIDE DEF j
        <4> QED
          BY <4>3, <4>4, <4>5
      <3>8. i <= h \/ i > h
        BY <2>9, <2>0
      <3> QED
        BY <3>6, <3>7, <3>8
    <2> QED
      BY <2>1, <2>5 DEF Sendable
  <1> QED
    BY <1>0, <1>1, <1>2, CompactFacts

\* A self-contained end that the tail has room for.
ShortTail(m) ==
    \E start \in 0..Len(m) :
        /\ start < Len(m) /\ Len(m) - start <= KeepTail
        /\ IsPairSafe(SubSeq(m, start + 1, Len(m)))

\* With such an end, what is sent ends as the transcript does.
LEMMA LastIsSent ==
    ASSUME NEW m \in Seq(Message), ShortTail(m), NEW e, e = CompactAt(m, Threshold)
    PROVE  e # <<>> /\ Last(e) = Last(m)
  <1>0. Len(m) \in Nat
    BY LenProperties
  <1>1. PICK start \in 0..Len(m) : /\ start < Len(m) /\ Len(m) - start <= KeepTail
                                   /\ IsPairSafe(SubSeq(m, start + 1, Len(m)))
    BY DEF ShortTail
  <1>2. CASE e = m
    <2>1. m # <<>>
      BY <1>0, <1>1, EmptySeq
    <2> QED
      BY <1>2, <2>1
  <1>3. ASSUME NEW h \in 0..Len(m), NEW t \in 0..Len(m), Compacted(m, e, h, t)
        PROVE  e # <<>> /\ Last(e) = Last(m)
    <2>0. /\ h \in 0..Len(m) /\ t \in 0..Len(m)
          /\ t = SafeTailBefore(m, KeepTail) /\ e \in Seq(Message)
          /\ Len(e) = h + 1 + (Len(m) - t)
          /\ \A i \in (t + 1)..Len(m) : e[i - t + h + 1] = m[i]
      BY <1>3 DEF Compacted
    <2> DEFINE wanted == IF KeepTail >= Len(m) THEN 0 ELSE Len(m) - KeepTail
               S == {s \in wanted..Len(m) : IsPairSafe(SubSeq(m, s + 1, Len(m)))}
    <2>1. wanted \in Nat /\ start \in wanted..Len(m)
      BY <1>0, <1>1, KeepAssumption
    <2>2. start \in S /\ S \in SUBSET Nat
      BY <1>0, <1>1, <2>1
    <2>3. t = Min(S)
      BY <2>0 DEF SafeTailBefore
    <2> HIDE DEF S
    <2>4. t <= start
      BY <2>2, <2>3, MinIn
    <2>5. Len(m) \in (t + 1)..Len(m) /\ Len(m) - t + h + 1 = Len(e) /\ Len(e) > 0
      BY <1>0, <1>1, <2>0, <2>4
    <2>6. e[Len(e)] = m[Len(m)]
      BY <2>0, <2>5
    <2>7. e # <<>>
      BY <2>5, EmptySeq
    <2> QED
      BY <2>6, <2>7 DEF Last
  <1> QED
    BY <1>2, <1>3, CompactFacts

\* A transcript that ends with a prompt has one.
LEMMA PromptIsShort ==
    ASSUME NEW m \in Seq(Message), EndsWithPrompt(m), KeepTail > 0
    PROVE  ShortTail(m)
  <1>1. Len(m) \in Nat /\ Len(m) > 0 /\ DOMAIN m = 1..Len(m)
    BY LenProperties, EmptySeq DEF EndsWithPrompt
  <1> DEFINE start == Len(m) - 1
             later == SubSeq(m, start + 1, Len(m))
  <1>2. start \in 0..Len(m) /\ start < Len(m) /\ Len(m) - start <= KeepTail /\ Len(m) - start = 1
    BY <1>1, KeepAssumption
  <1>3. /\ DOMAIN later = 1..(Len(m) - start)
        /\ \A i \in DOMAIN later : start + i \in DOMAIN m /\ later[i] = m[start + i]
    BY <1>2, SuffixFacts
  <1> HIDE DEF later
  <1>4. \A i \in DOMAIN later : later[i] = m[Len(m)]
    BY <1>1, <1>2, <1>3
  <1>5. Calls(later) = {}
    BY <1>4, NoCalls DEF Calls, EndsWithPrompt
  <1>6. Results(later) = {}
    BY <1>4 DEF Results, EndsWithPrompt
  <1>7. IsPairSafe(later)
    BY <1>5, <1>6 DEF IsPairSafe
  <1> QED
    BY <1>2, <1>7 DEF ShortTail, later

\* So has one that ends with a whole turn of fewer calls than the tail keeps messages.
LEMMA TurnIsShort ==
    ASSUME NEW m, Ordered(m), OpenCalls(m) = {}, EndsWithTurn(m, <<>>),
           \A width \in Widths : width < KeepTail
    PROVE  ShortTail(m)
  <1>0. m \in Seq(Message) /\ Len(m) \in Nat /\ DOMAIN m = 1..Len(m)
    BY LenProperties DEF Ordered
  <1>1. PICK i \in DOMAIN m :
            /\ Len(m[i].calls) \in Widths /\ m[i].result = None
            /\ i + Len(m[i].calls) = Len(m) + Len(<<>>)
            /\ \A k \in DOMAIN m : k > i => /\ m[k].calls = <<>>
                                            /\ m[k].result \in ToSet(m[i].calls)
    BY DEF EndsWithTurn
  <1> DEFINE start == i - 1
             later == SubSeq(m, start + 1, Len(m))
  <1>2. /\ start \in 0..Len(m) /\ start < Len(m) /\ Len(m) - start <= KeepTail
    <2>1. Len(m[i].calls) < KeepTail /\ Len(m[i].calls) \in Nat
      BY <1>1, RunsAssumption
    <2>2. i + Len(m[i].calls) = Len(m)
      BY <1>0, <1>1
    <2> QED
      BY <1>0, <2>1, <2>2, KeepAssumption
  <1>3. /\ DOMAIN later = 1..(Len(m) - start)
        /\ \A k \in DOMAIN later : start + k \in DOMAIN m /\ later[k] = m[start + k]
        /\ \A k \in DOMAIN m : k > start => k - start \in DOMAIN later /\ later[k - start] = m[k]
    BY <1>0, <1>2, SuffixFacts
  <1> HIDE DEF later
  <1>4. Calls(later) \subseteq ToSet(m[i].calls)
    <2> SUFFICES ASSUME NEW k \in DOMAIN later, NEW id \in ToSet(later[k].calls)
                 PROVE  id \in ToSet(m[i].calls)
      BY InCalls
    <2>1. start + k = i \/ start + k > i
      BY <1>0, <1>3
    <2> QED
      BY <1>1, <1>3, <2>1, NoCalls
  <1>5. Results(later) \subseteq ToSet(m[i].calls)
    <2> SUFFICES ASSUME NEW k \in DOMAIN later, later[k].result # None
                 PROVE  later[k].result \in ToSet(m[i].calls)
      BY InCalls
    <2>1. start + k = i \/ start + k > i
      BY <1>0, <1>3
    <2> QED
      BY <1>1, <1>3, <2>1
  <1>6. ASSUME NEW id \in ToSet(m[i].calls) PROVE id \in Calls(later) /\ id \in Results(later)
    <2>1. i > start /\ i \in DOMAIN m
      BY <1>0
    <2>2. id \in Calls(later)
      BY <1>3, <1>6, <2>1, InCalls
    <2>3. id \in Results(m)
      BY <1>6, <2>1, InCalls DEF OpenCalls
    <2>4. PICK j \in DOMAIN m : m[j].result = id /\ id # None
      BY <2>3, InCalls
    <2>5. PICK h \in DOMAIN m : h < j /\ id \in ToSet(m[h].calls)
      BY <2>4 DEF Ordered
    <2>6. h = i
      BY <1>6, <2>5 DEF Ordered
    <2>7. j > start
      BY <1>0, <2>5, <2>6
    <2> QED
      BY <1>3, <2>2, <2>4, <2>7, InCalls
  <1>7. IsPairSafe(later)
    BY <1>4, <1>5, <1>6 DEF IsPairSafe
  <1> QED
    BY <1>2, <1>7 DEF ShortTail, later

\* An answer with calls begins a turn that lacks all its results.
LEMMA TurnBegins ==
    ASSUME NEW m \in Seq(Message), NEW y \in Message, y.result = None, Len(y.calls) \in Widths
    PROVE  EndsWithTurn(m \o <<y>>, y.calls)
  <1> DEFINE e == m \o <<y>>
  <1>1. /\ <<y>> \in Seq(Message) /\ Len(<<y>>) = 1 /\ DOMAIN <<y>> = {1} /\ <<y>>[1] = y
    OBVIOUS
  <1>2. /\ Len(m) \in Nat /\ Len(e) = Len(m) + 1 /\ DOMAIN e = 1..(Len(m) + 1)
        /\ e[Len(m) + 1] = y
    BY <1>1, GrownFacts
  <1> HIDE DEF e
  <1>3. Len(m) + 1 \in DOMAIN e /\ \A k \in DOMAIN e : ~(k > Len(m) + 1)
    BY <1>2
  <1>4. (Len(m) + 1) + Len(e[Len(m) + 1].calls) = Len(e) + Len(y.calls)
    BY <1>2
  <1> QED
    BY <1>2, <1>3, <1>4 DEF EndsWithTurn, e

\* A result of the first call in hand leaves it lacking the others.
LEMMA TurnGoesOn ==
    ASSUME NEW m, Ordered(m), InPlace(m), NEW todo \in Seq(CallIds), todo # <<>>,
           ToSet(todo) \subseteq OpenCalls(m), EndsWithTurn(m, todo),
           NEW y \in Message, y.calls = <<>>, y.result = Head(todo)
    PROVE  EndsWithTurn(m \o <<y>>, Tail(todo))
  <1> DEFINE e == m \o <<y>>
  <1>0. m \in Seq(Message) /\ Len(todo) \in Nat /\ Len(todo) > 0 /\ Head(todo) \in ToSet(todo)
        /\ Len(Tail(todo)) = Len(todo) - 1 /\ Head(todo) \in CallIds
    <2>1. Len(todo) \in Nat /\ Len(todo) > 0 /\ 1 \in DOMAIN todo /\ Head(todo) = todo[1]
      BY LenProperties, EmptySeq
    <2> QED
      BY <2>1, HeadTailProperties DEF Ordered, ToSet
  <1>1. /\ <<y>> \in Seq(Message) /\ Len(<<y>>) = 1 /\ DOMAIN <<y>> = {1} /\ <<y>>[1] = y
    OBVIOUS
  <1>2. /\ Len(m) \in Nat /\ Len(e) = Len(m) + 1 /\ DOMAIN e = 1..(Len(m) + 1)
        /\ DOMAIN m = 1..Len(m) /\ e[Len(m) + 1] = y
        /\ \A k \in DOMAIN m : k \in DOMAIN e /\ e[k] = m[k]
    BY <1>0, <1>1, GrownFacts
  <1> HIDE DEF e
  <1>3. PICK i \in DOMAIN m :
            /\ Len(m[i].calls) \in Widths /\ m[i].result = None
            /\ i + Len(m[i].calls) = Len(m) + Len(todo)
            /\ \A k \in DOMAIN m : k > i => /\ m[k].calls = <<>>
                                            /\ m[k].result \in ToSet(m[i].calls)
    BY DEF EndsWithTurn
  <1>4. m[i].calls # <<>>
    <2>1. Len(m[i].calls) \in Nat
      BY <1>3, RunsAssumption
    <2>2. Len(m[i].calls) > 0
      BY <1>0, <1>2, <1>3, <2>1
    <2> QED
      BY <2>2, EmptySeq
  <1>5. Head(todo) \in ToSet(m[i].calls)
    <2>1. Head(todo) \in Calls(m) /\ Head(todo) \notin Results(m) /\ Head(todo) # None
      BY <1>0, RunsAssumption DEF OpenCalls
    <2>2. PICK h \in DOMAIN m : Head(todo) \in ToSet(m[h].calls)
      BY <2>1, InCalls
    <2>3. \A j \in DOMAIN m : m[j].result # Head(todo)
      BY <2>1, InCalls
    <2>4. \A k \in DOMAIN m : k > h => m[k].role = "tool"
      BY <2>2, <2>3 DEF InPlace
    <2>5. ~(h > i)
      BY <1>3, <2>2, NoCalls
    <2>6. ~(i > h)
      BY <1>4, <2>4 DEF Ordered
    <2>7. h = i
      BY <1>2, <2>5, <2>6
    <2> QED
      BY <2>2, <2>7
  <1>6. \A k \in DOMAIN e : k > i => e[k].calls = <<>> /\ e[k].result \in ToSet(m[i].calls)
    <2> SUFFICES ASSUME NEW k \in DOMAIN e, k > i
                 PROVE  e[k].calls = <<>> /\ e[k].result \in ToSet(m[i].calls)
      OBVIOUS
    <2>1. CASE k \in DOMAIN m
      BY <1>2, <1>3, <2>1
    <2>2. CASE k = Len(m) + 1
      BY <1>2, <1>5, <2>2
    <2> QED
      BY <1>2, <2>1, <2>2
  <1>7. i + Len(e[i].calls) = Len(e) + Len(Tail(todo))
    BY <1>0, <1>2, <1>3
  <1> QED
    BY <1>2, <1>3, <1>6, <1>7 DEF EndsWithTurn, e


-----------------------------------------------------------------------------
(* Locks                                                                   *)

\* The lock table does its work: two runs inside one session are one run.
LEMMA Alone ==
    ASSUME LockInv, NEW p \in Requests, NEW r \in Requests,
           run[p].pc \in Inside, run[r].pc \in Inside, run[p].session = run[r].session
    PROVE  p = r
  <1> DEFINE s == run[r].session
  <1>1. /\ run[p].pc \notin Over /\ Holding(p) /\ run[r].pc \notin Over /\ Holding(r)
    BY DEF Inside, Phases, Holding
  <1>2. /\ s \in Sessions /\ s # None /\ run[p].key \in {New, s} /\ run[r].key \in {New, s}
        /\ chats[run[p].key] = run[p].lock /\ chats[run[r].key] = run[r].lock
    BY <1>1, RunsAssumption DEF LockInv, PlaceInv
  <1>3. CASE run[p].key = run[r].key
    BY <1>1, <1>2, <1>3 DEF LockInv
  <1>4. CASE run[p].key # run[r].key
    BY <1>2, <1>4 DEF LockInv
  <1> QED
    BY <1>3, <1>4

\* A step of one run that leaves the table alone.
LEMMA LockStep ==
    ASSUME LockInv, NEW r \in Requests, NEW q \in Run, run' = [run EXCEPT ![r] = q],
           chats' = chats, opened \subseteq opened', opened' \subseteq Sessions,
           PlaceInv(q, chats, opened'),
           q.pc \notin Over \cup {"locking"} =>
               \A p \in Requests \ {r} : Holding(p) => run[p].lock # q.lock,
           \A p \in Requests \ {r} :
               /\ q.key = New /\ q.session # None => run[p].key # q.session
               /\ run[p].key = New /\ run[p].session # None => q.key # run[p].session,
           q.key = New => q.key # q.session
    PROVE  LockInv'
  <1>1. run' \in [Requests -> Run] /\ run'[r] = q /\ \A p \in Requests \ {r} : run'[p] = run[p]
    BY DEF LockInv
  <1>2. ASSUME NEW p \in Requests PROVE PlaceInv(run'[p], chats', opened')
    <2>1. CASE p = r
      BY <1>1, <2>1
    <2>2. CASE p # r
      <3>1. PlaceInv(run[p], chats, opened) /\ run'[p] = run[p]
        BY <1>1, <2>2 DEF LockInv
      <3> QED
        BY <3>1 DEF PlaceInv
    <2> QED
      BY <2>1, <2>2
  <1>3. ASSUME NEW p \in Requests, NEW k \in Requests,
               Holding(p)', Holding(k)', run'[p].lock = run'[k].lock
        PROVE  p = k
    BY <1>1, <1>3 DEF LockInv, Holding
  <1>4. ASSUME NEW p \in Requests, NEW k \in Requests, run'[p].key = New, run'[p].session # None
        PROVE  run'[k].key # run'[p].session
    BY <1>1, <1>4 DEF LockInv
  <1> QED
    BY <1>1, <1>2, <1>3, <1>4 DEF LockInv

\* A run that goes on inside its session.
LEMMA LockStays ==
    ASSUME LockInv, NEW r \in Requests, NEW q \in Run, run' = [run EXCEPT ![r] = q],
           chats' = chats, opened' = opened, run[r].pc \in Inside, q.pc \in Inside,
           q.key = run[r].key, q.lock = run[r].lock, q.session = run[r].session
    PROVE  LockInv'
  <1>1. Holding(r) /\ q.pc \notin Over \cup {"locking", "opening"} /\ run[r].pc \notin Over
    BY DEF Holding, Inside
  <1>2. PlaceInv(q, chats, opened)
    BY <1>1 DEF LockInv, PlaceInv
  <1>3. \A p \in Requests \ {r} : Holding(p) => run[p].lock # q.lock
    BY <1>1 DEF LockInv
  <1>4. \A p \in Requests \ {r} :
            /\ q.key = New /\ q.session # None => run[p].key # q.session
            /\ run[p].key = New /\ run[p].session # None => q.key # run[p].session
    BY DEF LockInv
  <1>5. q.session \in Sessions
    BY <1>2 DEF LockInv, PlaceInv
  <1>6. opened \subseteq opened' /\ opened' \subseteq Sessions /\ PlaceInv(q, chats, opened')
        /\ (q.key = New => q.key # q.session)
    BY <1>2, <1>5, RunsAssumption DEF LockInv
  <1> QED
    BY <1>3, <1>4, <1>6, LockStep

\* A run that leaves.
LEMMA LockLeaves ==
    ASSUME LockInv, NEW r \in Requests, NEW q \in Run, run' = [run EXCEPT ![r] = q],
           chats' = chats, opened' = opened, q.pc \in Over,
           q.key = None, q.lock = None, q.session = None
    PROVE  LockInv'
  <1>1. PlaceInv(q, chats, opened)
    BY DEF PlaceInv, Over, Inside
  <1>2. q.pc \notin Over \cup {"locking"} =>
            \A p \in Requests \ {r} : Holding(p) => run[p].lock # q.lock
    OBVIOUS
  <1>3. \A p \in Requests \ {r} :
            /\ q.key = New /\ q.session # None => run[p].key # q.session
            /\ run[p].key = New /\ run[p].session # None => q.key # run[p].session
    OBVIOUS
  <1>4. q.key # New
    BY RunsAssumption
  <1> QED
    BY <1>1, <1>2, <1>3, <1>4, LockStep DEF LockInv

-----------------------------------------------------------------------------
(* Transcripts in the store                                                *)

\* A sound transcript stays so when more calls are issued.
LEMMA SoundKeeps ==
    ASSUME NEW m, NEW n \in Nat, NEW k \in Nat, n <= k, Sound(m, n)
    PROVE  Sound(m, k)
  BY DEF Sound

\* What a run knows survives others' calls, and the loss of its session.
LEMMA TextKeeps ==
    ASSUME NEW q, NEW n \in Nat, NEW k \in Nat, n <= k, NEW m, NEW x, x = m \/ x = None,
           TextInv(q, n, m)
    PROVE  TextInv(q, k, x)
  <1>1. q.pc \in InLoop => Sound(q.transcript, k)
    BY SoundKeeps DEF TextInv
  <1>2. q.pc = "answered" => ToSet(q.todo) \subseteq (1..k) \ Calls(q.transcript)
    BY DEF TextInv
  <1> QED
    BY <1>1, <1>2 DEF TextInv

\* A step of a run inside its session that leaves there x.
LEMMA StoreStep ==
    ASSUME LockInv, StoreInv, NEW r \in Requests, run[r].pc \in Inside,
           NEW q, run' = [run EXCEPT ![r] = q],
           NEW x \in Seq(Message) \cup {None},
           messages' = [messages EXCEPT ![run[r].session] = x],
           issued' \in Nat, issued <= issued', opened' = opened,
           x # None => Stored(run[r].session) /\ Sound(x, issued'),
           q.pc \in Inside => q.session = run[r].session /\ TextInv(q, issued', x)
    PROVE  StoreInv'
  <1> DEFINE s == run[r].session
  <1>0. s \in Sessions /\ s \in opened
    BY DEF LockInv, PlaceInv
  <1>1. /\ run'[r] = q /\ \A p \in Requests \ {r} : run'[p] = run[p]
        /\ messages' \in [Sessions -> Seq(Message) \cup {None}]
        /\ messages'[s] = x /\ \A c \in Sessions \ {s} : messages'[c] = messages[c]
    BY <1>0 DEF LockInv, StoreInv
  <1>2. ASSUME NEW c \in Sessions, messages'[c] # None
        PROVE  c \in opened' /\ Sound(messages'[c], issued')
    <2>1. CASE c = s
      BY <1>0, <1>1, <1>2, <2>1
    <2>2. CASE c # s
      BY <1>1, <1>2, <2>2, SoundKeeps DEF StoreInv, Stored
    <2> QED
      BY <2>1, <2>2
  <1>3. ASSUME NEW p \in Requests, run'[p].pc \in Inside
        PROVE  TextInv(run'[p], issued', messages'[run'[p].session])
    <2>1. CASE p = r
      BY <1>1, <1>3, <2>1
    <2>2. CASE p # r
      <3>1. run'[p] = run[p] /\ run[p].session \in Sessions
        BY <1>1, <1>3, <2>2 DEF LockInv, PlaceInv
      <3>2. run[p].session # s
        BY <1>3, <2>2, <3>1, Alone
      <3> QED
        BY <1>1, <1>3, <3>1, <3>2, TextKeeps DEF StoreInv
    <2> QED
      BY <2>1, <2>2
  <1> QED
    BY <1>1, <1>2, <1>3 DEF StoreInv, Stored

\* A step that adds no more to the store than empty sessions, and changes a run inside
\* one only by letting it in.
LEMMA StoreKeeps ==
    ASSUME LockInv, StoreInv, messages' \in [Sessions -> Seq(Message) \cup {None}],
           issued' = issued, opened \subseteq opened',
           \A c \in Sessions : \/ messages'[c] \in {messages[c], None}
                               \/ c \notin opened /\ messages'[c] = <<>> /\ c \in opened',
           \A p \in Requests : run'[p].pc \in Inside =>
               \/ run'[p] = run[p]
               \/ TextInv(run'[p], issued, messages'[run'[p].session])
    PROVE  StoreInv'
  <1>1. Sound(<<>>, issued)
    BY DEF Sound, Ordered, InPlace, Calls
  <1>2. ASSUME NEW c \in Sessions, messages'[c] # None
        PROVE  c \in opened' /\ Sound(messages'[c], issued')
    BY <1>1, <1>2 DEF StoreInv, Stored
  <1>3. ASSUME NEW p \in Requests, run'[p].pc \in Inside
        PROVE  TextInv(run'[p], issued', messages'[run'[p].session])
    <2> SUFFICES ASSUME run'[p] = run[p] PROVE TextInv(run'[p], issued', messages'[run'[p].session])
      BY <1>3
    <2>1. run'[p] = run[p] /\ run[p].session \in Sessions /\ run[p].session \in opened
      BY <1>3 DEF LockInv, PlaceInv
    <2>2. TextInv(run[p], issued, messages[run[p].session])
      BY <1>3, <2>1 DEF StoreInv
    <2>3. messages'[run[p].session] \in {messages[run[p].session], None}
      BY <2>1
    <2> QED
      BY <2>1, <2>2, <2>3, TextKeeps DEF StoreInv
  <1> QED
    BY <1>2, <1>3 DEF StoreInv, Stored

-----------------------------------------------------------------------------
(* Who wrote what                                                          *)

\* A step of a run inside its session that adds y to it, or nothing.
LEMMA WriterStep ==
    ASSUME LockInv, StoreInv, WriterInv, NEW r \in Requests, run[r].pc \in Inside,
           NEW q, run' = [run EXCEPT ![r] = q], q.pc \notin {"idle", "locking", "opening"},
           q.pc \in Inside => q.session = run[r].session,
           NEW x, messages' = [messages EXCEPT ![run[r].session] = x],
           NEW y \in Seq(Message), \A i \in DOMAIN y : y[i].by = r,
           \/ x = messages[run[r].session]
           \/ Stored(run[r].session) /\ x = messages[run[r].session] \o y
    PROVE  WriterInv'
  <1> DEFINE s == run[r].session
             m == messages[s]
  <1>0. s \in Sessions
    BY DEF LockInv, PlaceInv
  <1>1. /\ run'[r] = q /\ \A p \in Requests \ {r} : run'[p] = run[p]
        /\ messages'[s] = x /\ \A c \in Sessions \ {s} : messages'[c] = messages[c]
    BY <1>0 DEF LockInv, StoreInv
  <1>2. ASSUME x # None
        PROVE  /\ m # None /\ m \in Seq(Message) /\ Len(m) \in Nat /\ DOMAIN m = 1..Len(m)
               /\ \A i \in DOMAIN x : i \in Nat
               /\ \A i \in DOMAIN x : \/ i \in DOMAIN m /\ x[i] = m[i]
                                      \/ i > Len(m) /\ x[i].by = r
    <2>1. m # None /\ m \in Seq(Message)
      BY <1>0, <1>2 DEF StoreInv, Stored
    <2>2. Len(m) \in Nat /\ DOMAIN m = 1..Len(m)
      BY <2>1, LenProperties
    <2>3. CASE x = m
      BY <2>1, <2>2, <2>3
    <2>4. CASE x = m \o y
      BY <2>1, <2>2, <2>4, GrownFacts
    <2> QED
      BY <2>1, <2>2, <2>3, <2>4
  <1>3. ASSUME x # None, NEW i \in DOMAIN x, NEW j \in DOMAIN x, i <= j, x[i].by = r
        PROVE  x[j].by = r
    <2>1. CASE j \in DOMAIN m /\ x[j] = m[j]
      <3>1. i \in DOMAIN m /\ x[i] = m[i]
        BY <1>2, <1>3, <2>1
      <3>2. AtEnd(m, r)
        BY <1>2, <1>3 DEF WriterInv, Stored
      <3> QED
        BY <1>3, <2>1, <3>1, <3>2 DEF AtEnd
    <2>2. CASE x[j].by = r
      BY <2>2
    <2> QED
      BY <1>2, <1>3, <2>1, <2>2
  <1>4. ASSUME x # None, NEW i \in DOMAIN x
        PROVE  /\ x[i].by \in Requests
               /\ run'[x[i].by].pc \notin {"idle", "locking", "opening"}
    <2>1. CASE x[i].by = r
      BY <1>1, <2>1
    <2>2. CASE x[i].by # r
      <3>1. i \in DOMAIN m /\ x[i] = m[i] /\ m # None
        BY <1>2, <1>4, <2>2
      <3> QED
        BY <1>0, <1>1, <2>2, <3>1 DEF WriterInv, Stored
    <2> QED
      BY <2>1, <2>2
  <1>5. ASSUME x # None, NEW i \in DOMAIN x, NEW k \in DOMAIN x, x[i].by = x[k].by, NEW j \in i..k
        PROVE  x[j].by = x[i].by
    <2>1. j \in DOMAIN x /\ i <= j /\ j <= k
      <3>1. \E n \in Nat : DOMAIN x = 1..n
        BY <1>2, <1>5, GrownFacts
      <3> QED
        BY <1>5, <3>1
    <2>2. CASE x[i].by = r
      BY <1>3, <1>5, <2>1, <2>2
    <2>3. CASE x[i].by # r
      <3>1. k \in DOMAIN m /\ x[k] = m[k] /\ i \in DOMAIN m /\ x[i] = m[i]
        BY <1>2, <1>5, <2>3
      <3>2. j \in DOMAIN m /\ x[j] = m[j]
        BY <1>2, <1>5, <2>1, <3>1
      <3> QED
        BY <1>0, <1>2, <1>5, <3>1, <3>2 DEF WriterInv, RunsDoNotInterleave, Stored
    <2> QED
      BY <2>2, <2>3
  <1>6. ASSUME NEW c \in Sessions, messages'[c] # None, NEW i \in DOMAIN messages'[c]
        PROVE  /\ messages'[c][i].by \in Requests
               /\ run'[messages'[c][i].by].pc \notin {"idle", "locking", "opening"}
    <2>1. CASE c = s
      BY <1>1, <1>4, <1>6, <2>1
    <2>2. CASE c # s
      BY <1>1, <1>6, <2>2 DEF WriterInv, Stored
    <2> QED
      BY <2>1, <2>2
  <1>7. ASSUME NEW p \in Requests, run'[p].pc \in Inside, messages'[run'[p].session] # None
        PROVE  AtEnd(messages'[run'[p].session], p)
    <2>1. CASE p = r
      BY <1>1, <1>3, <1>7, <2>1 DEF AtEnd
    <2>2. CASE p # r
      <3>1. run'[p] = run[p] /\ run[p].session \in Sessions
        BY <1>1, <1>7, <2>2 DEF LockInv, PlaceInv
      <3>2. run[p].session # s
        BY <1>7, <2>2, <3>1, Alone
      <3> QED
        BY <1>1, <1>7, <3>1, <3>2 DEF WriterInv, Stored
    <2> QED
      BY <2>1, <2>2
  <1>8. RunsDoNotInterleave'
    <2> SUFFICES ASSUME NEW c \in Sessions, messages'[c] # None,
                        NEW i \in DOMAIN messages'[c], NEW k \in DOMAIN messages'[c],
                        messages'[c][i].by = messages'[c][k].by, NEW j \in i..k
                 PROVE  messages'[c][j].by = messages'[c][i].by
      BY DEF RunsDoNotInterleave, Stored
    <2>1. CASE c = s
      BY <1>1, <1>5, <2>1
    <2>2. CASE c # s
      BY <1>1, <2>2 DEF WriterInv, RunsDoNotInterleave, Stored
    <2> QED
      BY <2>1, <2>2
  <1> QED
    BY <1>6, <1>7, <1>8 DEF WriterInv, Stored

\* A step that writes no message.
LEMMA WriterKeeps ==
    ASSUME WriterInv, LockInv, StoreInv,
           \A c \in Sessions : messages'[c] \in {messages[c], None, <<>>},
           \A p \in Requests :
               /\ run'[p].pc \in Inside => /\ run'[p] = run[p] \/ run[p].pc = "opening"
                                           /\ run'[p].session \in Sessions
               /\ run'[p].pc \in {"idle", "locking", "opening"} =>
                      run[p].pc \in {"idle", "locking", "opening"}
    PROVE  WriterInv'
  <1>1. ASSUME NEW c \in Sessions, messages'[c] # None, NEW i \in DOMAIN messages'[c]
        PROVE  messages'[c] = messages[c] /\ Stored(c)
    BY <1>1 DEF Stored
  <1>2. ASSUME NEW c \in Sessions, messages'[c] # None, NEW i \in DOMAIN messages'[c]
        PROVE  /\ messages'[c][i].by \in Requests
               /\ run'[messages'[c][i].by].pc \notin {"idle", "locking", "opening"}
    BY <1>1, <1>2 DEF WriterInv
  <1>3. ASSUME NEW p \in Requests, run'[p].pc \in Inside, messages'[run'[p].session] # None
        PROVE  AtEnd(messages'[run'[p].session], p)
    <2>1. run'[p].session \in Sessions
      BY <1>3
    <2>2. CASE messages'[run'[p].session] = messages[run'[p].session]
      <3>1. CASE run'[p] = run[p]
        BY <1>3, <2>2, <3>1 DEF WriterInv, Stored
      <3>2. CASE run[p].pc = "opening"
        <4>1. \A i \in DOMAIN messages[run'[p].session] : messages[run'[p].session][i].by # p
          BY <1>3, <2>1, <2>2, <3>2 DEF WriterInv, Stored
        <4> QED
          BY <2>2, <4>1 DEF AtEnd
      <3> QED
        BY <1>3, <3>1, <3>2
    <2>3. CASE messages'[run'[p].session] = <<>>
      BY <2>3 DEF AtEnd
    <2> QED
      BY <1>3, <2>1, <2>2, <2>3
  <1>4. RunsDoNotInterleave'
    <2> SUFFICES ASSUME NEW c \in Sessions, messages'[c] # None,
                        NEW i \in DOMAIN messages'[c], NEW k \in DOMAIN messages'[c],
                        messages'[c][i].by = messages'[c][k].by, NEW j \in i..k
                 PROVE  messages'[c][j].by = messages'[c][i].by
      BY DEF RunsDoNotInterleave, Stored
    <2> QED
      BY <1>1 DEF WriterInv, RunsDoNotInterleave
  <1> QED
    BY <1>2, <1>3, <1>4 DEF WriterInv, Stored

-----------------------------------------------------------------------------
(* The log and the tools' effects                                          *)

\* What is told of a transcript is still so when it grows.
LEMMA ToldKeeps ==
    ASSUME NEW e, NEW m \in Seq(Message), NEW y \in Seq(Message), Told(e, m)
    PROVE  Told(e, m \o y)
  <1>1. /\ Results(m) \subseteq Results(m \o y)
        /\ \A i \in DOMAIN m : i \in DOMAIN (m \o y) /\ (m \o y)[i] = m[i]
    BY GrownFacts
  <1> HIDE DEF Results
  <1> QED
    BY <1>1 DEF Told

\* A step of a run inside its session that adds y to it, or nothing, and announces evs.
LEMMA RecordsStep ==
    ASSUME LockInv, StoreInv, RecordsInv, NEW r \in Requests, run[r].pc \in Inside,
           NEW q, run' = [run EXCEPT ![r] = q],
           q.pc \in InLoop \cup {"draining"} => q.session = run[r].session,
           NEW x, messages' = [messages EXCEPT ![run[r].session] = x],
           NEW y \in Seq(Message),
           \/ x = messages[run[r].session]
           \/ Stored(run[r].session) /\ x = messages[run[r].session] \o y,
           NEW evs \in Seq(Event), channel' = [channel EXCEPT ![r] = @ \o evs],
           q.pc \notin InLoop \cup {"draining"} =>
               evs = <<>> /\ run[r].pc \notin InLoop \cup {"draining"},
           Stored(run[r].session) => \A i \in DOMAIN evs : Told(evs[i], x),
           events' = events, opened' = opened,
           \/ ran' = ran
           \/ \E id \in CallIds :
                  /\ ran' = ran \cup {<<id, run[r].session>>}
                  /\ Stored(run[r].session) => id \in Calls(messages[run[r].session])
    PROVE  RecordsInv'
  <1> DEFINE s == run[r].session
             m == messages[s]
  <1>0. s \in Sessions /\ s \in opened
    BY DEF LockInv, PlaceInv
  <1>1. /\ run'[r] = q /\ \A p \in Requests \ {r} : run'[p] = run[p]
        /\ messages'[s] = x /\ \A c \in Sessions \ {s} : messages'[c] = messages[c]
        /\ channel'[r] = channel[r] \o evs /\ \A p \in Requests \ {r} : channel'[p] = channel[p]
    BY <1>0 DEF LockInv, StoreInv, RecordsInv
  <1>2. channel[r] \in Seq(Event) /\ channel[r] \o evs \in Seq(Event)
    BY ConcatProperties DEF RecordsInv
  <1>3. channel' \in [Requests -> Seq(Event)]
    BY <1>2 DEF RecordsInv
  <1>4. /\ x = None <=> m = None
        /\ m # None => m \in Seq(Message)
        /\ m # None => \A e : Told(e, m) => Told(e, x)
        /\ m # None => Calls(m) \subseteq Calls(x)
    <2>1. CASE x = m
      BY <1>0, <2>1 DEF StoreInv
    <2>2. CASE m # None /\ x = m \o y
      <3>1. m \in Seq(Message)
        BY <1>0, <2>2 DEF StoreInv
      <3>2. x \in Seq(Message) /\ Calls(m) \subseteq Calls(x)
        BY <2>2, <3>1, GrownFacts
      <3> QED
        BY <2>2, <3>1, <3>2, ToldKeeps, RunsAssumption
    <2> QED
      BY <2>1, <2>2 DEF Stored
  <1>5. ASSUME NEW c \in Sessions
        PROVE  IF messages'[c] # None
                 THEN \A i \in DOMAIN events'[c] : Told(events'[c][i], messages'[c])
               ELSE events'[c] = <<>>
    <2>1. CASE c = s
      BY <1>0, <1>1, <1>4, <2>1 DEF RecordsInv, Stored
    <2>2. CASE c # s
      BY <1>1, <2>2 DEF RecordsInv, Stored
    <2> QED
      BY <2>1, <2>2
  <1>6. ASSUME NEW p \in Requests
        PROVE  EventsInv(run'[p], channel'[p], messages'[run'[p].session])
    <2>0. EventsInv(run[p], channel[p], messages[run[p].session])
      BY DEF RecordsInv, Stored
    <2>1. CASE p = r
      <3>1. CASE q.pc \notin InLoop \cup {"draining"}
        BY <1>1, <1>2, <2>0, <2>1, <3>1, ConcatEmptySeq DEF EventsInv
      <3>2. CASE q.pc \in InLoop \cup {"draining"}
        <4> SUFFICES ASSUME m # None, NEW i \in DOMAIN (channel[r] \o evs)
                     PROVE  Told((channel[r] \o evs)[i], x)
          BY <1>1, <1>4, <2>1, <3>2 DEF EventsInv
        <4>1. \A j \in DOMAIN channel[r] : Told(channel[r][j], x)
          BY <1>4, <2>0, <2>1 DEF EventsInv
        <4>2. \A j \in DOMAIN evs : Told(evs[j], x)
          BY DEF Stored
        <4>3. \/ i \in DOMAIN channel[r] /\ (channel[r] \o evs)[i] = channel[r][i]
              \/ i - Len(channel[r]) \in DOMAIN evs
                 /\ (channel[r] \o evs)[i] = evs[i - Len(channel[r])]
          BY <1>2, ConcatProperties, LenProperties
        <4> QED
          BY <4>1, <4>2, <4>3
      <3> QED
        BY <3>1, <3>2
    <2>2. CASE p # r
      <3>1. run'[p] = run[p] /\ channel'[p] = channel[p]
        BY <1>1, <2>2
      <3>2. CASE run[p].pc \in InLoop \cup {"draining"}
        <4>1. run[p].pc \in Inside
          BY <3>2 DEF InLoop, Inside, Phases, Over
        <4>2. run[p].session \in Sessions /\ run[p].session # s
          BY <2>2, <4>1, Alone DEF LockInv, PlaceInv
        <4> QED
          BY <1>1, <2>0, <3>1, <4>2
      <3>3. CASE run[p].pc \notin InLoop \cup {"draining"}
        BY <2>0, <3>1, <3>3 DEF EventsInv
      <3> QED
        BY <3>2, <3>3
    <2> QED
      BY <2>1, <2>2
  <1>7. ran' \subseteq CallIds \X opened'
    BY <1>0 DEF RecordsInv
  <1>8. ASSUME NEW d \in CallIds, NEW c \in Sessions, <<d, c>> \in ran', messages'[c] # None
        PROVE  d \in Calls(messages'[c])
    <2>1. CASE c = s
      <3>1. m # None /\ d \in Calls(m)
        BY <1>0, <1>1, <1>4, <1>8, <2>1 DEF RecordsInv, Stored
      <3> QED
        BY <1>1, <1>4, <2>1, <3>1
    <2>2. CASE c # s
      BY <1>1, <1>8, <2>2 DEF RecordsInv, Stored
    <2> QED
      BY <2>1, <2>2
  <1> QED
    BY <1>3, <1>5, <1>6, <1>7, <1>8 DEF RecordsInv, Stored

\* A step that announces nothing and lets no tool act; a session may go, log and all.
LEMMA RecordsKeep ==
    ASSUME LockInv, StoreInv, RecordsInv,
           events' \in [Sessions -> Seq(Event)], channel' \in [Requests -> Seq(Event)],
           ran' = ran, opened \subseteq opened',
           \A c \in Sessions :
               \/ messages'[c] = messages[c] /\ events'[c] = events[c]
               \/ messages'[c] = None /\ events'[c] = <<>>
               \/ c \notin opened /\ messages'[c] = <<>> /\ events'[c] = events[c],
           \A p \in Requests : \/ run'[p] = run[p] /\ channel'[p] = channel[p]
                               \/ channel'[p] = <<>>
    PROVE  RecordsInv'
  <1>1. \A c \in Sessions : c \notin opened => messages[c] = None /\ events[c] = <<>>
    BY DEF StoreInv, RecordsInv, Stored
  <1>2. ASSUME NEW c \in Sessions
        PROVE  IF messages'[c] # None
                 THEN \A i \in DOMAIN events'[c] : Told(events'[c][i], messages'[c])
               ELSE events'[c] = <<>>
    <2>1. CASE messages'[c] = messages[c] /\ events'[c] = events[c]
      BY <2>1 DEF RecordsInv, Stored
    <2>2. CASE events'[c] = <<>>
      BY <2>2
    <2> QED
      BY <1>1, <2>1, <2>2
  <1>3. ASSUME NEW p \in Requests
        PROVE  EventsInv(run'[p], channel'[p], messages'[run'[p].session])
    <2>0. EventsInv(run[p], channel[p], messages[run[p].session])
      BY DEF RecordsInv, Stored
    <2>1. CASE channel'[p] = <<>>
      BY <2>1 DEF EventsInv
    <2>2. CASE run'[p] = run[p] /\ channel'[p] = channel[p]
      <3>1. CASE run[p].pc \in InLoop \cup {"draining"}
        <4>1. run[p].pc \in Inside
          BY <3>1 DEF InLoop, Inside, Phases, Over
        <4>2. run[p].session \in Sessions /\ run[p].session \in opened
          BY <4>1 DEF LockInv, PlaceInv
        <4>3. messages'[run[p].session] \in {messages[run[p].session], None}
          BY <4>2
        <4> QED
          BY <2>0, <2>2, <4>3 DEF EventsInv
      <3>2. CASE run[p].pc \notin InLoop \cup {"draining"}
        BY <2>0, <2>2, <3>2 DEF EventsInv
      <3> QED
        BY <3>1, <3>2
    <2> QED
      BY <2>1, <2>2
  <1>4. ran' \subseteq CallIds \X opened'
    BY DEF RecordsInv
  <1>5. ASSUME NEW d \in CallIds, NEW c \in Sessions, <<d, c>> \in ran', messages'[c] # None
        PROVE  d \in Calls(messages'[c])
    <2>1. c \in opened
      BY <1>5 DEF RecordsInv
    <2> QED
      BY <1>5, <2>1 DEF RecordsInv, Stored
  <1> QED
    BY <1>2, <1>3, <1>4, <1>5 DEF RecordsInv, Stored

-----------------------------------------------------------------------------
(* Steps, in four shapes                                                   *)

WrittenBy(y, r) == \A i \in DOMAIN y : y[i].by = r
AllTold(evs, x) == \A i \in DOMAIN evs : Told(evs[i], x)

\* A run goes on inside its session: it may add y to the transcript, announce evs and let
\* a call act.
LEMMA RunStep ==
    ASSUME RunsInv, NEW r \in Requests, run[r].pc \in Inside,
           NEW q \in Run, run' = [run EXCEPT ![r] = q], q.pc \in Inside,
           q.key = run[r].key, q.lock = run[r].lock, q.session = run[r].session,
           NEW x \in Seq(Message) \cup {None},
           messages' = [messages EXCEPT ![run[r].session] = x],
           NEW y \in Seq(Message), WrittenBy(y, r),
           \/ x = messages[run[r].session]
           \/ Stored(run[r].session) /\ x = messages[run[r].session] \o y,
           issued' \in Nat, issued <= issued',
           x # None => Sound(x, issued'), TextInv(q, issued', x),
           NEW evs \in Seq(Event), channel' = [channel EXCEPT ![r] = @ \o evs],
           q.pc \notin InLoop \cup {"draining"} =>
               evs = <<>> /\ run[r].pc \notin InLoop \cup {"draining"},
           Stored(run[r].session) => AllTold(evs, x),
           events' = events, opened' = opened, chats' = chats,
           \/ ran' = ran
           \/ \E id \in CallIds :
                  /\ ran' = ran \cup {<<id, run[r].session>>}
                  /\ Stored(run[r].session) => id \in Calls(messages[run[r].session])
    PROVE  RunsInv'
  <1>1. LockInv'
    BY LockStays DEF RunsInv
  <1>2. x # None => Stored(run[r].session)
    BY DEF Stored
  <1>3. StoreInv'
    BY <1>2, StoreStep DEF RunsInv
  <1>4. q.pc \notin {"idle", "locking", "opening"}
    BY DEF Inside, Over
  <1>5. WriterInv'
    BY <1>4, WriterStep DEF RunsInv, WrittenBy
  <1>6. RecordsInv'
    BY RecordsStep DEF RunsInv, AllTold
  <1> QED
    BY <1>1, <1>3, <1>5, <1>6 DEF RunsInv

\* Nothing is written or announced; sessions come and go, runs enter and leave.
LEMMA QuietStep ==
    ASSUME RunsInv, LockInv', messages' \in [Sessions -> Seq(Message) \cup {None}],
           events' \in [Sessions -> Seq(Event)], channel' \in [Requests -> Seq(Event)],
           issued' = issued, ran' = ran, opened \subseteq opened',
           \A c \in Sessions :
               \/ messages'[c] = messages[c] /\ events'[c] = events[c]
               \/ messages'[c] = None /\ events'[c] = <<>>
               \/ c \notin opened /\ c \in opened' /\ messages'[c] = <<>> /\ events'[c] = events[c],
           \A p \in Requests :
               /\ \/ run'[p] = run[p] /\ channel'[p] = channel[p]
                  \/ channel'[p] = <<>>
               /\ run'[p].pc \in Inside =>
                      \/ run'[p] = run[p]
                      \/ /\ run[p].pc = "opening"
                         /\ TextInv(run'[p], issued, messages'[run'[p].session])
               /\ run'[p].pc \in {"idle", "locking", "opening"} =>
                      run[p].pc \in {"idle", "locking", "opening"}
    PROVE  RunsInv'
  <1>1. StoreInv'
    BY StoreKeeps DEF RunsInv
  <1>2. \A p \in Requests : run'[p].pc \in Inside => run'[p].session \in Sessions
    BY DEF LockInv, PlaceInv
  <1>3. WriterInv'
    BY <1>2, WriterKeeps DEF RunsInv
  <1>4. RecordsInv'
    BY RecordsKeep DEF RunsInv
  <1> QED
    BY <1>1, <1>3, <1>4 DEF RunsInv

\* The run of r becomes q, outside any session or entering one, and no more happens.
LEMMA RunMoves ==
    ASSUME RunsInv, LockInv', NEW r \in Requests, NEW q, run' = [run EXCEPT ![r] = q],
           channel[r] = <<>>,
           q.pc \in Inside => /\ run[r].pc = "opening"
                              /\ TextInv(q, issued, messages[q.session]),
           q.pc \in {"idle", "locking", "opening"} =>
               run[r].pc \in {"idle", "locking", "opening"},
           UNCHANGED <<messages, events, opened, channel, issued, ran>>
    PROVE  RunsInv'
  <1>1. run'[r] = q /\ \A p \in Requests \ {r} : run'[p] = run[p]
    BY DEF RunsInv, LockInv
  <1>2. /\ messages \in [Sessions -> Seq(Message) \cup {None}]
        /\ events \in [Sessions -> Seq(Event)] /\ channel \in [Requests -> Seq(Event)]
    BY DEF RunsInv, StoreInv, RecordsInv
  <1>3. \A p \in Requests :
            /\ \/ run'[p] = run[p] /\ channel'[p] = channel[p]
               \/ channel'[p] = <<>>
            /\ run'[p].pc \in Inside =>
                   \/ run'[p] = run[p]
                   \/ /\ run[p].pc = "opening"
                      /\ TextInv(run'[p], issued, messages'[run'[p].session])
            /\ run'[p].pc \in {"idle", "locking", "opening"} =>
                   run[p].pc \in {"idle", "locking", "opening"}
    BY <1>1
  <1> QED
    BY <1>2, <1>3, QuietStep

\* A run leaves its session, or is turned away from it.
LEMMA RunLeaves ==
    ASSUME RunsInv, NEW r \in Requests, NEW q \in Run, run' = [run EXCEPT ![r] = q],
           q.pc = "done", q.key = None, q.lock = None, q.session = None, channel[r] = <<>>,
           UNCHANGED <<messages, events, opened, chats, channel, issued, ran>>
    PROVE  RunsInv'
  <1>1. q.pc \in Over /\ q.pc \notin Inside /\ q.pc \notin {"idle", "locking", "opening"}
    BY DEF Over, Inside
  <1>2. LockInv'
    BY <1>1, LockLeaves DEF RunsInv
  <1> QED
    BY <1>1, <1>2, RunMoves

-----------------------------------------------------------------------------
(* Sessions, arrivals and departures                                       *)

\* A request that has not arrived holds nothing.
LEMMA IdleRun ==
    /\ Idle \in Run /\ Idle.pc = "idle" /\ Idle.key = None /\ Idle.lock = None
    /\ Idle.session = None
  <1>1. <<>> \in Seq(Message) /\ <<>> \in Seq(CallIds) /\ 0 \in Nat
    OBVIOUS
  <1> QED
    BY <1>1 DEF Idle, Run, Phases

\* A session without a run is empty, and no run is on it.
LEMMA CreateKeeps ==
    ASSUME RunsInv, NEW s \in Sessions, CreateSession(s)
    PROVE  RunsInv'
  <1>1. /\ s \notin opened /\ messages' = [messages EXCEPT ![s] = <<>>]
        /\ opened' = opened \cup {s}
        /\ UNCHANGED <<events, chats, run, channel, issued, ran>>
    BY DEF CreateSession, history
  <1>2. LockInv'
    <2>1. \A r \in Requests : PlaceInv(run[r], chats, opened')
      BY <1>1 DEF RunsInv, LockInv, PlaceInv
    <2> QED
      BY <1>1, <2>1 DEF RunsInv, LockInv, Holding
  <1>3. /\ messages' \in [Sessions -> Seq(Message) \cup {None}]
        /\ \A c \in Sessions :
               \/ messages'[c] = messages[c] /\ events'[c] = events[c]
               \/ c \notin opened /\ c \in opened' /\ messages'[c] = <<>> /\ events'[c] = events[c]
    BY <1>1 DEF RunsInv, StoreInv
  <1> QED
    BY <1>1, <1>2, <1>3, QuietStep DEF RunsInv, RecordsInv

\* The row goes with its log; a run on it has what it knew, and no store.
LEMMA DeleteKeeps ==
    ASSUME RunsInv, NEW s \in Sessions, DeleteSession(s)
    PROVE  RunsInv'
  <1>1. /\ messages' = [messages EXCEPT ![s] = None] /\ events' = [events EXCEPT ![s] = <<>>]
        /\ UNCHANGED <<opened, chats, run, channel, issued, ran>>
    BY DEF DeleteSession, history
  <1>2. LockInv'
    BY <1>1 DEF RunsInv, LockInv, Holding
  <1>3. /\ messages' \in [Sessions -> Seq(Message) \cup {None}]
        /\ events' \in [Sessions -> Seq(Event)]
        /\ \A c \in Sessions :
               \/ messages'[c] = messages[c] /\ events'[c] = events[c]
               \/ messages'[c] = None /\ events'[c] = <<>>
    BY <1>1 DEF RunsInv, StoreInv, RecordsInv
  <1> QED
    BY <1>1, <1>2, <1>3, QuietStep DEF RunsInv, RecordsInv

\* A death leaves the store, and no run that holds anything.
LEMMA CrashKeeps ==
    ASSUME RunsInv, Crash
    PROVE  RunsInv'
  <1>1. /\ run' = [r \in Requests |-> IF run[r].pc \in Over THEN run[r]
                                      ELSE [Idle EXCEPT !.pc = "lost"]]
        /\ channel' = [r \in Requests |-> <<>>] /\ chats' = [k \in Keys |-> None]
        /\ UNCHANGED <<messages, events, opened, issued, ran>>
    BY DEF Crash
  <1>2. /\ run \in [Requests -> Run]
        /\ \A p \in Requests : PlaceInv(run[p], chats, opened)
    BY DEF RunsInv, LockInv
  <1> DEFINE lost == [Idle EXCEPT !.pc = "lost"]
  <1>3. lost \in Run /\ lost.pc = "lost" /\ lost.key = None /\ lost.lock = None
        /\ lost.session = None
    BY IdleRun DEF Run, Phases
  <1> HIDE DEF lost
  <1>4. ASSUME NEW p \in Requests
        PROVE  /\ run'[p] \in Run /\ run'[p].pc \in Over
               /\ run'[p].key = None /\ run'[p].lock = None /\ run'[p].session = None
               /\ run'[p].pc = "idle" => run[p].pc = "idle"
    <2>1. CASE run[p].pc \in Over
      BY <1>1, <1>2, <2>1 DEF PlaceInv, lost
    <2>2. CASE run[p].pc \notin Over
      <3>1. run'[p] = lost
        BY <1>1, <2>2 DEF lost
      <3> QED
        BY <1>3, <3>1 DEF Over
    <2> QED
      BY <2>1, <2>2
  <1>5. \A p \in Requests : /\ ~Holding(p)' /\ run'[p].key # New
                            /\ run'[p].pc \notin Inside \cup {"locking", "opening"}
    BY <1>4, RunsAssumption DEF Holding, Over, Inside
  <1>6. LockInv'
    <2>1. \A p \in Requests : PlaceInv(run'[p], chats', opened')
      BY <1>4, <1>5 DEF PlaceInv
    <2>2. run' \in [Requests -> Run] /\ chats' \in [Keys -> Requests \cup {None}]
          /\ opened' \subseteq Sessions
      <3>1. run' = [p \in Requests |-> run'[p]]
        BY <1>1
      <3> QED
        BY <1>1, <1>4, <3>1 DEF RunsInv, LockInv
    <2> QED
      BY <1>5, <2>1, <2>2 DEF LockInv
  <1>7. /\ messages' \in [Sessions -> Seq(Message) \cup {None}]
        /\ events' \in [Sessions -> Seq(Event)] /\ channel' \in [Requests -> Seq(Event)]
    BY <1>1 DEF RunsInv, StoreInv, RecordsInv
  <1>8. \A p \in Requests : /\ channel'[p] = <<>>
                            /\ run'[p].pc \notin Inside
                            /\ run'[p].pc \in {"idle", "locking", "opening"} => run[p].pc = "idle"
    BY <1>1, <1>4, <1>5
  <1> QED
    BY <1>1, <1>6, <1>7, <1>8, QuietStep

\* session_lock keeps every lock that a run holds or waits for.  With clients that wait
\* for a session's first reply before they name it, an arrival meets no first run.
LEMMA ArriveKeeps ==
    ASSUME RunsInv, ~Eager, NEW r \in Requests, NEW key \in Keys, Arrive(r, key)
    PROVE  RunsInv'
  <1> DEFINE full == Cardinality({k \in Keys : chats[k] # None}) > MaxLocks
             inUse == {run[q].lock : q \in {p \in Requests : Waiting(p) \/ Holding(p)}}
             kept == IF full THEN [k \in Keys |-> IF chats[k] \in inUse THEN chats[k] ELSE None]
                     ELSE chats
             lock == IF kept[key] = None THEN r ELSE kept[key]
             q == [Idle EXCEPT !.pc = "locking", !.key = key, !.lock = lock]
  <1>1. /\ run[r].pc = "idle"
        /\ key # New => Known(key)
        /\ chats' = [kept EXCEPT ![key] = lock] /\ run' = [run EXCEPT ![r] = q]
        /\ UNCHANGED <<messages, events, opened, channel, issued, ran>>
    BY DEF Arrive, SessionLock, history
  <1>2. /\ chats \in [Keys -> Requests \cup {None}] /\ run \in [Requests -> Run]
        /\ \A p \in Requests : PlaceInv(run[p], chats, opened)
    BY DEF RunsInv, LockInv
  <1> HIDE DEF full
  <1>3. kept \in [Keys -> Requests \cup {None}]
    BY <1>2
  <1>4. \A p \in Requests : run[p].pc \notin Over => /\ run[p].key \in Keys /\ run[p].lock \in Requests
                                                     /\ kept[run[p].key] = run[p].lock
    <2> SUFFICES ASSUME NEW p \in Requests, run[p].pc \notin Over
                 PROVE  /\ run[p].key \in Keys /\ run[p].lock \in Requests
                        /\ kept[run[p].key] = run[p].lock
      OBVIOUS
    <2>1. /\ run[p].key \in Keys /\ run[p].lock \in Requests /\ chats[run[p].key] = run[p].lock
      BY <1>2 DEF PlaceInv
    <2>2. run[p].lock \in inUse
      BY DEF Waiting, Holding
    <2> QED
      BY <2>1, <2>2
  <1> HIDE DEF inUse, kept
  <1>5. lock \in Requests
    BY <1>3
  <1>6. /\ chats' \in [Keys -> Requests \cup {None}] /\ chats'[key] = lock
        /\ \A k \in Keys : kept[k] \in Requests => chats'[k] = kept[k]
    BY <1>1, <1>3, <1>5, RunsAssumption
  <1> HIDE DEF lock
  <1>7. /\ q \in Run /\ q.pc = "locking" /\ q.key = key /\ q.lock = lock /\ q.session = None
    BY <1>5, IdleRun DEF Run, Phases
  <1> HIDE DEF q
  <1>8. /\ run' \in [Requests -> Run] /\ run'[r] = q
        /\ \A p \in Requests \ {r} : run'[p] = run[p]
    BY <1>1, <1>2, <1>7
  <1>9. key # New => /\ key \in opened
                     /\ \A p \in Requests : run[p].key = New /\ run[p].session = key =>
                            run[p].pc \in Over
    BY <1>1 DEF Known
  <1>10. LockInv'
    <2>1. ASSUME NEW p \in Requests PROVE PlaceInv(run'[p], chats', opened')
      <3>1. CASE p = r
        BY <1>1, <1>5, <1>6, <1>7, <1>8, <1>9, <3>1 DEF PlaceInv, Over, Inside
      <3>2. CASE p # r
        <4>1. run'[p] = run[p] /\ PlaceInv(run[p], chats, opened)
          BY <1>2, <1>8, <3>2
        <4>2. run[p].pc \notin Over => chats'[run[p].key] = run[p].lock
          BY <1>4, <1>6
        <4> QED
          BY <1>1, <4>1, <4>2 DEF PlaceInv
      <3> QED
        BY <3>1, <3>2
    <2>2. ASSUME NEW p \in Requests, NEW k \in Requests,
                 Holding(p)', Holding(k)', run'[p].lock = run'[k].lock
          PROVE  p = k
      <3>1. p # r /\ k # r
        BY <1>7, <1>8, <2>2 DEF Holding
      <3> QED
        BY <1>8, <2>2, <3>1 DEF RunsInv, LockInv, Holding
    <2>3. ASSUME NEW p \in Requests, NEW k \in Requests, run'[p].key = New, run'[p].session # None
          PROVE  run'[k].key # run'[p].session
      <3>1. p # r /\ run'[p] = run[p]
        BY <1>7, <1>8, <2>3
      <3>2. run[p].pc \notin Over
        BY <1>2, <2>3, <3>1 DEF PlaceInv
      <3>3. run[p].session \in Sessions
        BY <1>2, <2>3, <3>1
           DEF Run
      <3>4. CASE k = r
        BY <1>7, <1>8, <1>9, <2>3, <3>1, <3>2, <3>3, <3>4, RunsAssumption
      <3>5. CASE k # r
        BY <1>8, <2>3, <3>1, <3>5 DEF RunsInv, LockInv
      <3> QED
        BY <3>4, <3>5
    <2> QED
      BY <1>1, <1>6, <1>8, <2>1, <2>2, <2>3 DEF RunsInv, LockInv
  <1>11. channel[r] = <<>>
    BY <1>1 DEF RunsInv, RecordsInv, EventsInv, InLoop
  <1>12. q.pc \notin Inside
    BY <1>7 DEF Inside
  <1> QED
    BY <1>1, <1>7, <1>10, <1>11, <1>12, RunMoves

\* The lock is had by none other.
LEMMA LockKeeps ==
    ASSUME RunsInv, NEW r \in Requests, Lock(r)
    PROVE  RunsInv'
  <1> DEFINE q == [run[r] EXCEPT !.pc = "opening"]
  <1>1. /\ run[r].pc = "locking" /\ \A p \in Requests : Holding(p) => run[p].lock # run[r].lock
        /\ run' = [run EXCEPT ![r] = q]
        /\ UNCHANGED <<messages, events, opened, chats, channel, issued, ran>>
    BY DEF Lock, Waiting, history
  <1>2. run[r] \in Run /\ PlaceInv(run[r], chats, opened)
    BY DEF RunsInv, LockInv
  <1>3. /\ q \in Run /\ q.pc = "opening" /\ q.key = run[r].key /\ q.lock = run[r].lock
        /\ q.session = run[r].session
    BY <1>2 DEF Run, Phases
  <1> HIDE DEF q
  <1>4. q.session = None
    BY <1>1, <1>2, <1>3 DEF PlaceInv
  <1>5. PlaceInv(q, chats, opened)
    BY <1>1, <1>2, <1>3 DEF PlaceInv, Over, Inside
  <1>6. \A p \in Requests \ {r} :
            /\ q.key = New /\ q.session # None => run[p].key # q.session
            /\ run[p].key = New /\ run[p].session # None => q.key # run[p].session
    BY <1>3, <1>4 DEF RunsInv, LockInv
  <1>7. /\ opened \subseteq opened' /\ opened' \subseteq Sessions /\ PlaceInv(q, chats, opened')
        /\ (q.key = New => q.key # q.session)
        /\ \A p \in Requests \ {r} : Holding(p) => run[p].lock # q.lock
    BY <1>1, <1>3, <1>4, <1>5, RunsAssumption DEF RunsInv, LockInv
  <1>8. LockInv'
    BY <1>1, <1>3, <1>6, <1>7, LockStep DEF RunsInv
  <1>9. channel[r] = <<>>
    BY <1>1 DEF RunsInv, RecordsInv, EventsInv, InLoop
  <1>10. q.pc \notin Inside
    BY <1>3 DEF Inside
  <1> QED
    BY <1>1, <1>3, <1>8, <1>9, <1>10, RunMoves

\* A request turned away before its loop has announced nothing.
LEMMA RefuseKeeps ==
    ASSUME RunsInv, NEW r \in Requests, Refuse(r),
           run[r].pc \in {"opening", "repairing", "prompting", "setup"},
           UNCHANGED <<messages, events, opened, chats, channel, issued, ran>>
    PROVE  RunsInv'
  <1> DEFINE q == [Idle EXCEPT !.pc = "done", !.stop = "failed"]
  <1>1. run' = [run EXCEPT ![r] = q]
    BY DEF Refuse
  <1>2. /\ q \in Run /\ q.pc = "done" /\ q.key = None /\ q.lock = None /\ q.session = None
    BY IdleRun DEF Run, Phases, Stops
  <1>3. channel[r] = <<>>
    BY DEF RunsInv, RecordsInv, EventsInv, InLoop
  <1> HIDE DEF q
  <1> QED
    BY <1>1, <1>2, <1>3, RunLeaves

\* No run is on a session not yet opened.
LEMMA OpenNewKeeps ==
    ASSUME RunsInv, NEW r \in Requests, Open(r), run[r].key = New
    PROVE  RunsInv'
  <1>1. PICK s \in Sessions \ opened :
            /\ messages' = [messages EXCEPT ![s] = <<>>]
            /\ opened' = opened \cup {s}
            /\ run' = [run EXCEPT ![r].pc = "prompting", ![r].session = s]
    BY DEF Open
  <1>2. run[r].pc = "opening" /\ UNCHANGED <<events, chats, channel, issued, ran>>
    BY DEF Open, history
  <1> DEFINE q == [run[r] EXCEPT !.pc = "prompting", !.session = s]
  <1>3. run \in [Requests -> Run] /\ PlaceInv(run[r], chats, opened)
    BY DEF RunsInv, LockInv
  <1>4. run' = [run EXCEPT ![r] = q]
    BY <1>1, <1>3
  <1>5. /\ q \in Run /\ q.pc = "prompting" /\ q.key = New /\ q.lock = run[r].lock
        /\ q.session = s
    BY <1>3 DEF Run, Phases
  <1> HIDE DEF q
  <1>6. PlaceInv(q, chats, opened')
    BY <1>1, <1>2, <1>3, <1>5 DEF PlaceInv, Over, Inside
  <1>7. \A p \in Requests \ {r} : Holding(p) => run[p].lock # q.lock
    BY <1>2, <1>5 DEF RunsInv, LockInv, Holding, Over
  <1>8. ASSUME NEW p \in Requests \ {r}
        PROVE  /\ run[p].key # s
               /\ run[p].session # New
    <2>1. PlaceInv(run[p], chats, opened) /\ run[p] \in Run
      BY DEF RunsInv, LockInv
    <2>2. run[p].session # New
      BY <2>1, RunsAssumption DEF Run
    <2>3. run[p].key # s
      BY <1>1, <2>1, RunsAssumption DEF PlaceInv
    <2> QED
      BY <2>2, <2>3
  <1>9. LockInv'
    <2>1. /\ opened \subseteq opened' /\ opened' \subseteq Sessions /\ q.key # q.session
      BY <1>1, <1>5, RunsAssumption DEF RunsInv, LockInv
    <2> QED
      BY <1>2, <1>4, <1>5, <1>6, <1>7, <1>8, <2>1, LockStep DEF RunsInv
  <1>10. channel[r] = <<>>
    BY <1>2 DEF RunsInv, RecordsInv, EventsInv, InLoop
  <1>11. /\ messages' \in [Sessions -> Seq(Message) \cup {None}]
         /\ messages'[s] = <<>> /\ opened \subseteq opened'
         /\ \A c \in Sessions :
                \/ messages'[c] = messages[c] /\ events'[c] = events[c]
                \/ c \notin opened /\ c \in opened' /\ messages'[c] = <<>> /\ events'[c] = events[c]
    BY <1>1, <1>2 DEF RunsInv, StoreInv
  <1>12. TextInv(q, issued, <<>>)
    BY <1>5 DEF TextInv, OpenCalls, Calls, InLoop
  <1>13. \A p \in Requests :
             /\ \/ run'[p] = run[p] /\ channel'[p] = channel[p]
                \/ channel'[p] = <<>>
             /\ run'[p].pc \in Inside =>
                    \/ run'[p] = run[p]
                    \/ /\ run[p].pc = "opening"
                       /\ TextInv(run'[p], issued, messages'[run'[p].session])
             /\ run'[p].pc \in {"idle", "locking", "opening"} =>
                    run[p].pc \in {"idle", "locking", "opening"}
    BY <1>2, <1>3, <1>4, <1>5, <1>10, <1>11, <1>12
  <1> QED
    BY <1>2, <1>9, <1>11, <1>13, QuietStep DEF RunsInv, RecordsInv

\* An old session is read for calls without a result.
LEMMA OpenOldKeeps ==
    ASSUME RunsInv, NEW r \in Requests, Open(r), run[r].key # New
    PROVE  RunsInv'
  <1> DEFINE s == run[r].key
             open == InterruptedCalls(messages[s])
             q == [run[r] EXCEPT !.session = s, !.todo = open,
                                 !.pc = IF open = <<>> THEN "prompting" ELSE "repairing"]
  <1>1. /\ run[r].pc = "opening"
        /\ IF Stored(s) THEN run' = [run EXCEPT ![r].session = s, ![r].todo = open,
                                         ![r].pc = IF open = <<>> THEN "prompting" ELSE "repairing"]
           ELSE Refuse(r)
        /\ UNCHANGED <<messages, events, opened, chats, channel, issued, ran>>
    BY DEF Open, history
  <1>2. CASE ~Stored(s)
    BY <1>1, <1>2, RefuseKeeps
  <1>3. CASE Stored(s)
    <2>1. run \in [Requests -> Run] /\ PlaceInv(run[r], chats, opened) /\ opened \subseteq Sessions
      BY DEF RunsInv, LockInv
    <2>2. s \in opened /\ s \in Sessions
      BY <1>1, <2>1 DEF PlaceInv, Over
    <2>3. run' = [run EXCEPT ![r] = q]
      BY <1>1, <1>3, <2>1
    <2>4. Sound(messages[s], issued)
      BY <1>3, <2>2 DEF RunsInv, StoreInv
    <2>5. open \in Seq(CallIds) /\ IsInjective(open) /\ ToSet(open) = OpenCalls(messages[s])
      BY <2>4, InterruptedFacts DEF Sound
    <2> HIDE DEF open
    <2>6. /\ q \in Run /\ q.key = s /\ q.lock = run[r].lock /\ q.session = s /\ q.todo = open
          /\ q.pc = IF open = <<>> THEN "prompting" ELSE "repairing"
      BY <2>1, <2>2, <2>5 DEF Run, Phases
    <2> HIDE DEF q
    <2>7. PlaceInv(q, chats, opened)
      BY <1>1, <2>1, <2>2, <2>6 DEF PlaceInv, Over, Inside
    <2>8. \A p \in Requests \ {r} : Holding(p) => run[p].lock # q.lock
      BY <1>1, <2>6 DEF RunsInv, LockInv, Holding, Over
    <2>9. \A p \in Requests \ {r} :
              run[p].key = New /\ run[p].session # None => q.key # run[p].session
      BY <2>6 DEF RunsInv, LockInv
    <2>10. LockInv'
      <3>1. opened \subseteq opened' /\ opened' \subseteq Sessions /\ PlaceInv(q, chats, opened')
            /\ chats' = chats /\ q.key # New
        BY <1>1, <2>1, <2>6, <2>7
      <3>2. LockInv
        BY DEF RunsInv
      <3> QED
        BY <2>3, <2>6, <2>8, <2>9, <3>1, <3>2, LockStep
    <2>11. channel[r] = <<>>
      BY <1>1 DEF RunsInv, RecordsInv, EventsInv, InLoop
    <2>12. TextInv(q, issued, messages[s])
      <3>1. CASE open = <<>>
        <4>1. q.pc = "prompting" /\ OpenCalls(messages[s]) = {}
          BY <2>5, <2>6, <3>1, NoCalls
        <4> QED
          BY <4>1 DEF TextInv, InLoop
      <3>2. CASE open # <<>>
        <4>1. q.pc = "repairing"
          BY <2>6, <3>2
        <4> QED
          BY <2>5, <2>6, <4>1 DEF TextInv, InLoop
      <3> QED
        BY <3>1, <3>2
    <2>13. q.pc \notin {"idle", "locking", "opening"}
      BY <2>6
    <2> QED
      BY <1>1, <2>3, <2>6, <2>10, <2>11, <2>12, <2>13, RunMoves
  <1> QED
    BY <1>2, <1>3

\* The reply is made once the writer has nothing left.
LEMMA ReplyKeeps ==
    ASSUME RunsInv, NEW r \in Requests, Reply(r)
    PROVE  RunsInv'
  <1> DEFINE q == [Idle EXCEPT !.pc = "done", !.stop = run[r].stop]
  <1>1. /\ run' = [run EXCEPT ![r] = q] /\ channel[r] = <<>>
        /\ UNCHANGED <<messages, events, opened, chats, channel, issued, ran>>
    BY DEF Reply, history
  <1>2. run[r] \in Run
    BY DEF RunsInv, LockInv
  <1>3. /\ q \in Run /\ q.pc = "done" /\ q.key = None /\ q.lock = None /\ q.session = None
    BY <1>2, IdleRun DEF Run, Phases
  <1> HIDE DEF q
  <1> QED
    BY <1>1, <1>3, RunLeaves

\* write_events moves an event on; what it says stays true of the session it goes to.
LEMMA WriteKeeps ==
    ASSUME RunsInv, NEW r \in Requests, Write(r)
    PROVE  RunsInv'
  <1> DEFINE s == run[r].session
             e == Head(channel[r])
  <1>1. /\ channel[r] # <<>> /\ channel' = [channel EXCEPT ![r] = Tail(@)]
        /\ events' = IF Stored(s) THEN [events EXCEPT ![s] = Append(@, e)] ELSE events
        /\ UNCHANGED <<messages, opened, chats, run, issued, ran>>
    BY DEF Write, history
  <1>2. LockInv' /\ StoreInv' /\ WriterInv'
    <2>1. LockInv'
      BY <1>1 DEF RunsInv, LockInv, Holding
    <2>2. StoreInv'
      BY <1>1 DEF RunsInv, StoreInv, Stored
    <2>3. WriterInv'
      BY <1>1 DEF RunsInv, WriterInv, Stored, RunsDoNotInterleave
    <2> QED
      BY <2>1, <2>2, <2>3
  <1>3. EventsInv(run[r], channel[r], messages[s]) /\ channel[r] \in Seq(Event)
    BY DEF RunsInv, RecordsInv
  <1>4. run[r].pc \in InLoop \cup {"draining"}
    BY <1>1, <1>3 DEF EventsInv
  <1>5. s \in Sessions
    BY <1>4 DEF RunsInv, LockInv, PlaceInv, InLoop, Inside, Phases, Over
  <1>6. /\ Tail(channel[r]) \in Seq(Event) /\ e \in Event /\ 1 \in DOMAIN channel[r]
        /\ e = channel[r][1]
        /\ \A i \in DOMAIN Tail(channel[r]) :
               i + 1 \in DOMAIN channel[r] /\ Tail(channel[r])[i] = channel[r][i + 1]
    BY <1>1, <1>3
  <1>7. Stored(s) => Told(e, messages[s]) /\ \A i \in DOMAIN Tail(channel[r]) :
                                                 Told(Tail(channel[r])[i], messages[s])
    BY <1>3, <1>4, <1>6 DEF EventsInv, Stored
  <1> HIDE DEF e
  <1>8. /\ channel' \in [Requests -> Seq(Event)] /\ channel'[r] = Tail(channel[r])
        /\ \A p \in Requests \ {r} : channel'[p] = channel[p]
    BY <1>1, <1>6 DEF RunsInv, RecordsInv
  <1>9. ASSUME NEW p \in Requests PROVE EventsInv(run'[p], channel'[p], messages'[run'[p].session])
    <2>1. CASE p = r
      BY <1>1, <1>4, <1>7, <1>8, <2>1 DEF EventsInv, Stored
    <2>2. CASE p # r
      BY <1>1, <1>8, <2>2 DEF RunsInv, RecordsInv
    <2> QED
      BY <2>1, <2>2
  <1>10. events' \in [Sessions -> Seq(Event)]
    <2>1. events \in [Sessions -> Seq(Event)] /\ Append(events[s], e) \in Seq(Event)
      BY <1>5, <1>6, AppendProperties DEF RunsInv, RecordsInv
    <2> QED
      BY <1>1, <2>1
  <1>11. ASSUME NEW c \in Sessions
         PROVE  IF messages'[c] # None
                  THEN \A i \in DOMAIN events'[c] : Told(events'[c][i], messages'[c])
                ELSE events'[c] = <<>>
    <2>0. /\ events \in [Sessions -> Seq(Event)]
          /\ IF messages[c] # None THEN \A i \in DOMAIN events[c] : Told(events[c][i], messages[c])
             ELSE events[c] = <<>>
      BY DEF RunsInv, RecordsInv, Stored
    <2>1. CASE c = s /\ Stored(s)
      <3>1. events'[c] = Append(events[c], e) /\ messages'[c] = messages[s] /\ messages[s] # None
        BY <1>1, <1>5, <2>0, <2>1 DEF Stored
      <3>2. \A i \in DOMAIN Append(events[c], e) :
                \/ Append(events[c], e)[i] = e
                \/ i \in DOMAIN events[c] /\ Append(events[c], e)[i] = events[c][i]
        BY <1>6, <2>0, AppendProperties
      <3> QED
        BY <1>7, <2>0, <2>1, <3>1, <3>2
    <2>2. CASE c # s \/ ~Stored(s)
      BY <1>1, <1>5, <2>0, <2>2
    <2> QED
      BY <2>1, <2>2
  <1>12. RecordsInv'
    BY <1>1, <1>8, <1>9, <1>10, <1>11 DEF RunsInv, RecordsInv, Stored
  <1> QED
    BY <1>2, <1>12 DEF RunsInv

-----------------------------------------------------------------------------
(* A run inside its session                                                *)

\* What the invariant says of one run inside its session.
LEMMA RunFacts ==
    ASSUME RunsInv, NEW r \in Requests, run[r].pc \in Inside
    PROVE  /\ run \in [Requests -> Run] /\ run[r] \in Run
           /\ issued \in Nat
           /\ run[r].session \in Sessions
           /\ TextInv(run[r], issued, messages[run[r].session])
           /\ Stored(run[r].session) => /\ Sound(messages[run[r].session], issued)
                                        /\ messages[run[r].session] \in Seq(Message)
           /\ ~Stored(run[r].session) => messages[run[r].session] = None
  <1>1. run[r].session \in Sessions
    BY DEF RunsInv, LockInv, PlaceInv
  <1> QED
    BY <1>1 DEF RunsInv, LockInv, StoreInv, Stored, Sound, Ordered

\* The store is left alone, and what is announced needs nothing of it.
LEMMA RunGoesOn ==
    ASSUME RunsInv, NEW r \in Requests, run[r].pc \in Inside,
           NEW q \in Run, run' = [run EXCEPT ![r] = q], q.pc \in InLoop \cup {"draining"},
           q.key = run[r].key, q.lock = run[r].lock, q.session = run[r].session,
           issued' \in Nat, issued <= issued',
           TextInv(q, issued', messages[run[r].session]),
           NEW evs \in Seq(Event), channel' = [channel EXCEPT ![r] = @ \o evs],
           \A i \in DOMAIN evs : evs[i].kind # "finished" /\ evs[i].stop # "completed",
           UNCHANGED <<messages, events, opened, chats>>,
           \/ ran' = ran
           \/ \E id \in CallIds :
                  /\ ran' = ran \cup {<<id, run[r].session>>}
                  /\ Stored(run[r].session) => id \in Calls(messages[run[r].session])
    PROVE  RunsInv'
  <1> DEFINE s == run[r].session
             x == messages[s]
  <1>1. s \in Sessions /\ x \in Seq(Message) \cup {None} /\ (x # None => Sound(x, issued'))
    BY RunFacts, SoundKeeps DEF Stored
  <1>2. messages' = [messages EXCEPT ![s] = x]
    BY <1>1 DEF RunsInv, StoreInv
  <1>3. q.pc \in Inside
    BY DEF InLoop, Inside, Phases, Over
  <1>4. AllTold(evs, x)
    BY DEF AllTold, Told
  <1>5. <<>> \in Seq(Message) /\ WrittenBy(<<>>, r)
    BY DEF WrittenBy
  <1> QED
    BY <1>1, <1>2, <1>3, <1>4, <1>5, RunStep

\* A message appended is a transcript of one more.
LEMMA AppendIs ==
    ASSUME NEW m \in Seq(Message), NEW y \in Message
    PROVE  Append(m, y) = m \o <<y>>
  OBVIOUS

\* A message is filed, and what it makes true announced.
LEMMA RunFiles ==
    ASSUME RunsInv, NEW r \in Requests, run[r].pc \in Inside,
           NEW q \in Run, run' = [run EXCEPT ![r] = q], q.pc \in Inside,
           q.key = run[r].key, q.lock = run[r].lock, q.session = run[r].session,
           NEW y \in Message, y.by = r, Stored(run[r].session),
           NEW x, x = messages[run[r].session] \o <<y>>,
           StoreAppend(run[r].session, y), Sound(x, issued), TextInv(q, issued, x),
           NEW evs \in Seq(Event), channel' = [channel EXCEPT ![r] = @ \o evs],
           q.pc \notin InLoop \cup {"draining"} =>
               evs = <<>> /\ run[r].pc \notin InLoop \cup {"draining"},
           AllTold(evs, x),
           UNCHANGED <<events, opened, chats, issued, ran>>
    PROVE  RunsInv'
  <1> DEFINE s == run[r].session
  <1>1. s \in Sessions /\ messages[s] \in Seq(Message) /\ issued \in Nat
    BY RunFacts
  <1>2. <<y>> \in Seq(Message) /\ WrittenBy(<<y>>, r)
    BY DEF WrittenBy
  <1>3. Append(messages[s], y) = x
    BY <1>1, AppendIs
  <1>4. messages' = [messages EXCEPT ![s] = x]
    BY <1>3 DEF StoreAppend
  <1>5. x \in Seq(Message)
    BY <1>1, <1>2, GrownFacts
  <1>6. /\ issued' \in Nat /\ issued <= issued' /\ Sound(x, issued') /\ TextInv(q, issued', x)
        /\ ran' = ran /\ events' = events /\ opened' = opened /\ chats' = chats
    BY <1>1
  <1> QED
    BY <1>2, <1>4, <1>5, <1>6, RunStep

\* A step that announces nothing, as one that announces no events.
LEMMA NoEvents ==
    ASSUME RunsInv, NEW r \in Requests, UNCHANGED channel
    PROVE  <<>> \in Seq(Event) /\ channel' = [channel EXCEPT ![r] = @ \o <<>>]
  <1>1. channel \in [Requests -> Seq(Event)] /\ channel[r] \o <<>> = channel[r]
    BY ConcatEmptySeq DEF RunsInv, RecordsInv
  <1> QED
    BY <1>1

\* A run that is finishing up knows nothing more.
LEMMA StopKeeps ==
    ASSUME RunsInv, NEW r \in Requests, run[r].pc \in Inside, NEW stop \in Stops,
           Stop(r, stop), NEW evs \in Seq(Event), channel' = [channel EXCEPT ![r] = @ \o evs],
           \A i \in DOMAIN evs : evs[i].kind # "finished" /\ evs[i].stop # "completed",
           UNCHANGED <<messages, events, opened, chats, issued, ran>>
    PROVE  RunsInv'
  <1> DEFINE q == [run[r] EXCEPT !.pc = "draining", !.stop = stop]
  <1>1. run \in [Requests -> Run] /\ run[r] \in Run /\ issued \in Nat
    BY RunFacts
  <1>2. run' = [run EXCEPT ![r] = q]
    BY <1>1 DEF Stop
  <1>3. /\ q \in Run /\ q.pc = "draining" /\ q.key = run[r].key /\ q.lock = run[r].lock
        /\ q.session = run[r].session
    BY <1>1 DEF Run, Phases
  <1> HIDE DEF q
  <1>4. TextInv(q, issued, messages[run[r].session])
    BY <1>3 DEF TextInv, InLoop
  <1>5. /\ issued' \in Nat /\ issued <= issued' /\ q.pc \in InLoop \cup {"draining"}
        /\ TextInv(q, issued', messages[run[r].session])
    BY <1>1, <1>3, <1>4
  <1>6. ran' = ran /\ UNCHANGED <<messages, events, opened, chats>>
    OBVIOUS
  <1> QED
    BY <1>2, <1>3, <1>5, <1>6, RunGoesOn

\* A single event about a turn or an answer.
LEMMA PlainEvent ==
    ASSUME NEW r \in Requests, NEW kind \in Kinds, NEW call \in CallIds \cup {None},
           NEW stop \in Stops \cup {None}
    PROVE  /\ Ev(r, kind, call, stop) \in Event /\ <<Ev(r, kind, call, stop)>> \in Seq(Event)
           /\ \A i \in DOMAIN <<Ev(r, kind, call, stop)>> :
                  /\ <<Ev(r, kind, call, stop)>>[i] = Ev(r, kind, call, stop)
                  /\ <<Ev(r, kind, call, stop)>>[i].kind = kind
                  /\ <<Ev(r, kind, call, stop)>>[i].call = call
                  /\ <<Ev(r, kind, call, stop)>>[i].stop = stop
                  /\ <<Ev(r, kind, call, stop)>>[i].by = r
  BY DEF Ev, Event

\* What runs write are messages.
LEMMA MessagesAre ==
    ASSUME NEW r \in Requests
    PROVE  /\ User(r) \in Message
           /\ \A calls \in Seq(CallIds) : Assistant(r, calls) \in Message
           /\ \A id \in CallIds, repair \in BOOLEAN : ToolResult(r, id, repair) \in Message
  <1>1. r \in Authors /\ <<>> \in Seq(CallIds)
    BY RunsAssumption
  <1> QED
    BY <1>1 DEF User, Assistant, ToolResult, Message, Roles

\* append_all answers every call that close_interrupted found open.
LEMMA RepairKeeps ==
    ASSUME RunsInv, NEW r \in Requests, Repair(r)
    PROVE  RunsInv'
  <1> DEFINE s == run[r].session
             m == messages[s]
             y == [i \in DOMAIN run[r].todo |-> ToolResult(r, run[r].todo[i], TRUE)]
             x == m \o y
             q == [run[r] EXCEPT !.pc = "prompting", !.todo = <<>>]
  <1>1. /\ run[r].pc = "repairing"
        /\ UNCHANGED <<events, opened, chats, channel, issued, ran>>
    BY DEF Repair
  <1>2. run[r].pc \in Inside
    BY <1>1 DEF Inside, Phases, Over
  <1>3. /\ run \in [Requests -> Run] /\ run[r] \in Run /\ issued \in Nat
        /\ TextInv(run[r], issued, m) /\ s \in Sessions
        /\ Stored(s) => Sound(m, issued) /\ m \in Seq(Message)
    BY <1>2, RunFacts
  <1>4. CASE ~Stored(s)
    BY <1>1, <1>4, RefuseKeeps DEF Repair
  <1>5. CASE Stored(s)
    <2>1. /\ messages' = [messages EXCEPT ![s] = @ \o y]
          /\ run' = [run EXCEPT ![r].pc = "prompting", ![r].todo = <<>>]
      BY <1>5 DEF Repair
    <2>2. run' = [run EXCEPT ![r] = q] /\ messages' = [messages EXCEPT ![s] = x]
      BY <1>3, <2>1
    <2>3. /\ q \in Run /\ q.pc = "prompting" /\ q.key = run[r].key /\ q.lock = run[r].lock
          /\ q.session = s
      <3>1. <<>> \in Seq(CallIds)
        OBVIOUS
      <3> QED
        BY <1>3, <3>1 DEF Run, Phases
    <2> HIDE DEF q
    <2>4. /\ IsInjective(run[r].todo) /\ ToSet(run[r].todo) = OpenCalls(m)
          /\ run[r].todo \in Seq(CallIds)
      BY <1>1, <1>3, <1>5 DEF TextInv, Stored, Run
    <2>5. /\ y \in Seq(Message) /\ Len(y) = Len(run[r].todo)
          /\ \A i \in DOMAIN y : /\ y[i].role = "tool" /\ y[i].calls = <<>>
                                 /\ y[i].result = run[r].todo[i] /\ y[i].by = r
      <3>1. /\ Len(run[r].todo) \in Nat /\ DOMAIN run[r].todo = 1..Len(run[r].todo)
            /\ \A i \in DOMAIN run[r].todo : run[r].todo[i] \in CallIds
        BY <2>4, LenProperties, ElementOfSeq
      <3>2. \A i \in DOMAIN run[r].todo : ToolResult(r, run[r].todo[i], TRUE) \in Message
        BY <3>1, MessagesAre
      <3>3. y \in [1..Len(run[r].todo) -> Message]
        BY <3>1, <3>2
      <3> QED
        BY <3>1, <3>3 DEF ToolResult
    <2> HIDE DEF y
    <2>11. Ordered(x) /\ InPlace(x) /\ Calls(x) = Calls(m) /\ OpenCalls(x) = {}
      BY <1>3, <1>5, <2>4, <2>5, ResultsGrow DEF Sound
    <2> HIDE DEF x
    <2>6. Sound(x, issued') /\ x \in Seq(Message)
      BY <1>1, <1>3, <1>5, <2>11 DEF Sound, Ordered
    <2>7. TextInv(q, issued', x)
      BY <2>3, <2>11 DEF TextInv, InLoop
    <2>8. /\ issued' \in Nat /\ issued <= issued' /\ events' = events /\ opened' = opened
          /\ chats' = chats /\ ran' = ran
          /\ x = messages[s] \o y
      BY <1>1, <1>3 DEF x
    <2> DEFINE none == <<>>
    <2>9. none \in Seq(Event) /\ channel' = [channel EXCEPT ![r] = @ \o none]
      BY <1>1, NoEvents
    <2>10. /\ q.pc \in Inside
           /\ q.pc \notin InLoop \cup {"draining"} =>
                  none = <<>> /\ run[r].pc \notin InLoop \cup {"draining"}
           /\ AllTold(none, x)
      BY <1>1, <2>3 DEF Inside, Phases, Over, InLoop, AllTold
    <2> HIDE DEF none
    <2>12. y \in Seq(Message) /\ WrittenBy(y, r)
           /\ x \in Seq(Message) \cup {None} /\ (x # None => Sound(x, issued'))
           /\ (\/ x = messages[run[r].session]
               \/ Stored(run[r].session) /\ x = messages[run[r].session] \o y)
      BY <1>5, <2>5, <2>6, <2>8 DEF WrittenBy
    <2>13. messages' = [messages EXCEPT ![run[r].session] = x]
      BY <2>2
    <2> QED
      BY <1>2, <2>2, <2>3, <2>7, <2>8, <2>9, <2>10, <2>12, <2>13, RunStep
  <1> QED
    BY <1>4, <1>5

\* The prompt is filed in a transcript with no open call, which it ends.
LEMMA PromptKeeps ==
    ASSUME RunsInv, NEW r \in Requests, Prompt(r)
    PROVE  RunsInv'
  <1> DEFINE s == run[r].session
             m == messages[s]
             y == User(r)
             x == m \o <<y>>
             q == [run[r] EXCEPT !.pc = "setup"]
  <1>1. /\ run[r].pc = "prompting"
        /\ UNCHANGED <<events, opened, chats, channel, issued, ran>>
    BY DEF Prompt, history
  <1>2. run[r].pc \in Inside
    BY <1>1 DEF Inside, Phases, Over
  <1>3. /\ run \in [Requests -> Run] /\ run[r] \in Run /\ issued \in Nat
        /\ TextInv(run[r], issued, m) /\ s \in Sessions
        /\ Stored(s) => Sound(m, issued) /\ m \in Seq(Message)
    BY <1>2, RunFacts
  <1>4. CASE ~Stored(s)
    BY <1>1, <1>4, RefuseKeeps DEF Prompt
  <1>5. CASE Stored(s)
    <2>1. StoreAppend(s, y) /\ run' = [run EXCEPT ![r] = q]
      BY <1>3, <1>5 DEF Prompt
    <2>3. /\ q \in Run /\ q.pc = "setup" /\ q.key = run[r].key /\ q.lock = run[r].lock
          /\ q.session = s
      BY <1>3 DEF Run, Phases
    <2> HIDE DEF q
    <2>4. y \in Message /\ y.role # "tool" /\ y.result = None /\ y.calls = <<>> /\ y.by = r
      BY MessagesAre DEF User
    <2> HIDE DEF y
    <2>5. IsInjective(y.calls) /\ ToSet(y.calls) = {} /\ OpenCalls(m) = {}
      BY <1>1, <1>3, <1>5, <2>4, NoCalls DEF IsInjective, TextInv, Stored
    <2>6. /\ Ordered(x) /\ InPlace(x) /\ Calls(x) = Calls(m) /\ OpenCalls(x) = {}
      BY <1>3, <1>5, <2>4, <2>5, RunsAssumption, PlainGrows DEF Sound
    <2>7. EndsWithPrompt(x)
      <3>1. <<y>> \in Seq(Message) /\ Len(<<y>>) = 1 /\ 1 \in DOMAIN <<y>> /\ <<y>>[1] = y
        BY <2>4
      <3>2. Len(x) = Len(m) + 1 /\ x[Len(m) + 1] = y /\ Len(m) \in Nat /\ x \in Seq(Message)
        BY <1>3, <1>5, <3>1, GrownFacts
      <3> HIDE DEF x
      <3>3. x # <<>>
        BY <3>2, EmptySeq
      <3> QED
        BY <2>4, <3>2, <3>3 DEF EndsWithPrompt
    <2> HIDE DEF x
    <2>8. Sound(x, issued)
      BY <1>3, <1>5, <2>6 DEF Sound
    <2>9. TextInv(q, issued, x)
      BY <2>3, <2>6, <2>7 DEF TextInv, InLoop
    <2>10. <<>> \in Seq(Event) /\ channel' = [channel EXCEPT ![r] = @ \o <<>>]
      BY <1>1, NoEvents
    <2>11. q.pc \in Inside /\ run[r].pc \notin InLoop \cup {"draining"}
           /\ AllTold(<<>>, x)
      BY <1>1, <2>3 DEF Inside, Phases, Over, InLoop, AllTold
    <2> QED
      BY <1>1, <1>2, <1>5, <2>1, <2>3, <2>4, <2>8, <2>9, <2>10, <2>11, RunFiles DEF x
  <1> QED
    BY <1>4, <1>5

\* The loop starts on what the store had: a copy that is whole, or empty.
LEMMA SetupKeeps ==
    ASSUME RunsInv, NEW r \in Requests, Setup(r)
    PROVE  RunsInv'
  <1> DEFINE s == run[r].session
             m == messages[s]
             t == IF Stored(s) THEN m ELSE <<>>
             q == [run[r] EXCEPT !.pc = "turn", !.turn = 1, !.transcript = t]
  <1>1. /\ run[r].pc = "setup"
        /\ UNCHANGED <<messages, events, opened, chats, channel, issued, ran>>
        /\ \/ Refuse(r)
           \/ run' = [run EXCEPT ![r].pc = "turn", ![r].turn = 1, ![r].transcript = t]
    BY DEF Setup, history
  <1>2. CASE Refuse(r)
    BY <1>1, <1>2, RefuseKeeps
  <1>3. CASE run' = [run EXCEPT ![r].pc = "turn", ![r].turn = 1, ![r].transcript = t]
    <2>1. run[r].pc \in Inside
      BY <1>1 DEF Inside, Phases, Over
    <2>2. /\ run \in [Requests -> Run] /\ run[r] \in Run /\ issued \in Nat
          /\ TextInv(run[r], issued, m) /\ s \in Sessions
          /\ Stored(s) => Sound(m, issued) /\ m \in Seq(Message)
      BY <2>1, RunFacts
    <2>3. t \in Seq(Message) /\ Sound(t, issued) /\ OpenCalls(t) = {} /\ (m # None => t = m)
      <3>1. Sound(<<>>, issued) /\ OpenCalls(<<>>) = {}
        BY DEF Sound, Ordered, InPlace, Calls, OpenCalls
      <3>2. Stored(s) => OpenCalls(m) = {}
        BY <1>1, <2>2 DEF TextInv, Stored
      <3> QED
        BY <2>2, <3>1, <3>2 DEF Stored
    <2>4. m # None => EndsWithPrompt(m)
      BY <1>1, <2>2 DEF TextInv
    <2>5. run' = [run EXCEPT ![r] = q]
      BY <1>3, <2>2
    <2> HIDE DEF t
    <2>6. /\ q \in Run /\ q.pc = "turn" /\ q.key = run[r].key /\ q.lock = run[r].lock
          /\ q.session = s /\ q.transcript = t
      BY <2>2, <2>3 DEF Run, Phases
    <2> HIDE DEF q
    <2>7. TextInv(q, issued, m)
      BY <2>3, <2>4, <2>6 DEF TextInv, InLoop
    <2>8. <<>> \in Seq(Event) /\ channel' = [channel EXCEPT ![r] = @ \o <<>>]
          /\ (\A i \in DOMAIN <<>> : <<>>[i].kind # "finished" /\ <<>>[i].stop # "completed")
      BY <1>1, NoEvents
    <2>9. /\ issued' \in Nat /\ issued <= issued' /\ q.pc \in InLoop \cup {"draining"}
          /\ TextInv(q, issued', m) /\ ran' = ran
          /\ UNCHANGED <<messages, events, opened, chats>>
      BY <1>1, <2>2, <2>6, <2>7 DEF InLoop
    <2> QED
      BY <2>1, <2>5, <2>6, <2>8, <2>9, RunGoesOn
  <1> QED
    BY <1>1, <1>2, <1>3

-----------------------------------------------------------------------------
(* The agent loop                                                          *)

\* The request is made of the loop's copy.
LEMMA BeginTurnKeeps ==
    ASSUME RunsInv, NEW r \in Requests, BeginTurn(r)
    PROVE  RunsInv'
  <1> DEFINE s == run[r].session
             m == messages[s]
             sent == CompactAt(run[r].transcript, Threshold)
             evs == <<Ev(r, "turn_started", None, None)>>
             q == [run[r] EXCEPT !.pc = "calling", !.sent = sent]
  <1>1. /\ run[r].pc = "turn" /\ channel' = [channel EXCEPT ![r] = @ \o evs]
        /\ run' = [run EXCEPT ![r].pc = "calling", ![r].sent = sent]
        /\ UNCHANGED <<messages, events, opened, chats, issued, ran>>
    BY DEF BeginTurn, Emit, history
  <1>2. run[r].pc \in Inside
    BY <1>1 DEF Inside, Phases, Over
  <1>3. /\ run \in [Requests -> Run] /\ run[r] \in Run /\ issued \in Nat
        /\ TextInv(run[r], issued, m)
    BY <1>2, RunFacts
  <1>4. sent \in Seq(Message)
    <2>1. run[r].transcript \in Seq(Message)
      BY <1>3 DEF Run
    <2> QED
      BY <2>1, CompactFacts DEF Compacted
  <1>5. run' = [run EXCEPT ![r] = q]
    BY <1>1, <1>3
  <1> HIDE DEF sent
  <1>6. /\ q \in Run /\ q.pc = "calling" /\ q.key = run[r].key /\ q.lock = run[r].lock
        /\ q.session = s /\ q.transcript = run[r].transcript /\ q.sent = sent
    BY <1>3, <1>4 DEF Run, Phases
  <1> HIDE DEF q
  <1>7. TextInv(q, issued, m)
    BY <1>1, <1>3, <1>6 DEF TextInv, InLoop, sent
  <1>8. /\ evs \in Seq(Event)
        /\ \A i \in DOMAIN evs : evs[i].kind # "finished" /\ evs[i].stop # "completed"
    <2>1. None # "completed" /\ "turn_started" \in Kinds
      BY RunsAssumption DEF Kinds, Stops
    <2> QED
      BY <2>1, PlainEvent
  <1> HIDE DEF evs
  <1>9. /\ issued' \in Nat /\ issued <= issued' /\ q.pc \in InLoop \cup {"draining"}
        /\ TextInv(q, issued', m) /\ ran' = ran
        /\ UNCHANGED <<messages, events, opened, chats>>
    BY <1>1, <1>3, <1>6, <1>7 DEF InLoop
  <1> QED
    BY <1>1, <1>2, <1>5, <1>6, <1>8, <1>9, RunGoesOn

\* The three ends of a loop that has no answer to file.
LEMMA EndsKeep ==
    ASSUME RunsInv, NEW r \in Requests, TurnsUsedUp(r) \/ DeadlinePassed(r) \/ ModelFails(r)
    PROVE  RunsInv'
  <1>1. /\ run[r].pc \in {"turn", "calling"}
        /\ UNCHANGED <<messages, events, opened, chats, issued, ran>>
    BY DEF TurnsUsedUp, DeadlinePassed, ModelFails, history
  <1>2. run[r].pc \in Inside
    BY <1>1 DEF Inside, Phases, Over
  <1>3. PICK kind \in {"turn_finished", "error"}, told \in {"max_turns", "budget", None}, stop \in Stops :
            /\ Stop(r, stop)
            /\ channel' = [channel EXCEPT ![r] = @ \o <<Ev(r, kind, None, told)>>]
            /\ told # "completed"
    <2>1. CASE TurnsUsedUp(r)
      BY <2>1 DEF TurnsUsedUp, Emit, Stops
    <2>2. CASE DeadlinePassed(r)
      BY <2>2 DEF DeadlinePassed, Emit, Stops
    <2>3. CASE ModelFails(r)
      BY <2>3, RunsAssumption DEF ModelFails, Emit, Stops
    <2> QED
      BY <2>1, <2>2, <2>3
  <1> DEFINE evs == <<Ev(r, kind, None, told)>>
  <1>4. /\ evs \in Seq(Event)
        /\ \A i \in DOMAIN evs : evs[i].kind # "finished" /\ evs[i].stop # "completed"
    <2>1. kind \in Kinds /\ kind # "finished" /\ told \in Stops \cup {None} /\ told # "completed"
      BY <1>3 DEF Kinds, Stops
    <2> QED
      BY <2>1, PlainEvent
  <1> HIDE DEF evs
  <1> QED
    BY <1>1, <1>2, <1>3, <1>4, StopKeeps DEF evs

\* A provider's ids are new, so no transcript has them.
LEMMA ModelAnswersKeeps ==
    ASSUME RunsInv, NEW r \in Requests, NEW width \in Widths, ModelAnswers(r, width)
    PROVE  RunsInv'
  <1> DEFINE s == run[r].session
             m == messages[s]
             todo == [i \in 1..width |-> issued + i]
             evs == <<Ev(r, "answer", None, None)>>
             q == [run[r] EXCEPT !.pc = "answered", !.todo = todo]
  <1>1. /\ run[r].pc = "calling" /\ channel' = [channel EXCEPT ![r] = @ \o evs]
        /\ issued + width <= Cardinality(CallIds) /\ issued' = issued + width
        /\ run' = [run EXCEPT ![r].pc = "answered", ![r].todo = todo]
        /\ UNCHANGED <<messages, events, opened, chats, ran>>
    BY DEF ModelAnswers, Emit, history
  <1>2. run[r].pc \in Inside
    BY <1>1 DEF Inside, Phases, Over
  <1>3. /\ run \in [Requests -> Run] /\ run[r] \in Run /\ issued \in Nat
        /\ TextInv(run[r], issued, m)
    BY <1>2, RunFacts
  <1>4. /\ width \in Nat /\ Cardinality(CallIds) \in Nat /\ CallIds = 1..Cardinality(CallIds)
    BY RunsAssumption, FS_CardinalityType
  <1>5. /\ todo \in Seq(CallIds) /\ Len(todo) = width /\ DOMAIN todo = 1..width
        /\ \A i \in 1..width : todo[i] = issued + i
    <2>1. todo \in [1..width -> CallIds]
      BY <1>1, <1>3, <1>4
    <2> QED
      BY <1>4, <2>1
  <1> HIDE DEF todo
  <1>6. IsInjective(todo)
    BY <1>3, <1>4, <1>5 DEF IsInjective
  <1>7. ToSet(todo) \subseteq (1..issued') \ (1..issued)
    BY <1>1, <1>3, <1>4, <1>5 DEF ToSet
  <1>8. run' = [run EXCEPT ![r] = q]
    BY <1>1, <1>3
  <1>9. /\ q \in Run /\ q.pc = "answered" /\ q.key = run[r].key /\ q.lock = run[r].lock
        /\ q.session = s /\ q.transcript = run[r].transcript /\ q.todo = todo
    BY <1>3, <1>5 DEF Run, Phases
  <1> HIDE DEF q
  <1>10. issued' \in Nat /\ issued <= issued' /\ q.pc \in InLoop \cup {"draining"}
    BY <1>1, <1>3, <1>4, <1>9 DEF InLoop
  <1>11. TextInv(q, issued', m)
    <2>1. TextInv(run[r], issued', m)
      BY <1>3, <1>10, TextKeeps
    <2>2. /\ Sound(run[r].transcript, issued') /\ OpenCalls(run[r].transcript) = {}
          /\ m # None => m = run[r].transcript
          /\ m # None => EndsWithPrompt(m) \/ EndsWithTurn(m, <<>>)
      BY <1>1, <2>1 DEF TextInv, InLoop
    <2>3. Calls(run[r].transcript) \subseteq 1..issued
      BY <1>1, <1>3 DEF TextInv, InLoop, Sound
    <2>4. ToSet(todo) \subseteq (1..issued') \ Calls(run[r].transcript)
      BY <1>7, <2>3
    <2> QED
      BY <1>5, <1>6, <1>9, <2>2, <2>4 DEF TextInv
  <1>12. /\ evs \in Seq(Event)
         /\ \A i \in DOMAIN evs : evs[i].kind # "finished" /\ evs[i].stop # "completed"
    <2>1. None # "completed" /\ "answer" \in Kinds
      BY RunsAssumption DEF Kinds, Stops
    <2> QED
      BY <2>1, PlainEvent
  <1> HIDE DEF evs
  <1>13. UNCHANGED <<messages, events, opened, chats>> /\ ran' = ran
    BY <1>1
  <1> QED
    BY <1>1, <1>2, <1>8, <1>9, <1>10, <1>11, <1>12, <1>13, RunGoesOn

\* A start is announced, of a call in hand.
LEMMA StartCallKeeps ==
    ASSUME RunsInv, NEW r \in Requests, StartCall(r)
    PROVE  RunsInv'
  <1> DEFINE s == run[r].session
             m == messages[s]
             evs == <<Ev(r, "started", Head(run[r].todo), None)>>
             q == [run[r] EXCEPT !.pc = "handling"]
  <1>1. /\ run[r].pc = "tools" /\ channel' = [channel EXCEPT ![r] = @ \o evs]
        /\ run' = [run EXCEPT ![r].pc = "handling"]
        /\ UNCHANGED <<messages, events, opened, chats, issued, ran>>
    BY DEF StartCall, Emit, history
  <1>2. run[r].pc \in Inside
    BY <1>1 DEF Inside, Phases, Over
  <1>3. /\ run \in [Requests -> Run] /\ run[r] \in Run /\ issued \in Nat
        /\ TextInv(run[r], issued, m)
    BY <1>2, RunFacts
  <1>4. run' = [run EXCEPT ![r] = q]
    BY <1>1, <1>3
  <1>5. /\ q \in Run /\ q.pc = "handling" /\ q.key = run[r].key /\ q.lock = run[r].lock
        /\ q.session = s /\ q.transcript = run[r].transcript /\ q.todo = run[r].todo
    BY <1>3 DEF Run, Phases
  <1> HIDE DEF q
  <1>6. TextInv(q, issued, m)
    BY <1>1, <1>3, <1>5 DEF TextInv, InLoop
  <1>7. /\ evs \in Seq(Event)
        /\ \A i \in DOMAIN evs : evs[i].kind # "finished" /\ evs[i].stop # "completed"
    <2>1. None # "completed" /\ "started" \in Kinds
      BY RunsAssumption DEF Kinds, Stops
    <2>2. run[r].todo \in Seq(CallIds) /\ run[r].todo # <<>>
      BY <1>1, <1>3 DEF Run, TextInv
    <2>3. Head(run[r].todo) \in CallIds
      BY <2>2
    <2> QED
      BY <2>1, <2>3, PlainEvent
  <1> HIDE DEF evs
  <1>8. /\ issued' \in Nat /\ issued <= issued' /\ q.pc \in InLoop \cup {"draining"}
        /\ TextInv(q, issued', m) /\ ran' = ran
        /\ UNCHANGED <<messages, events, opened, chats>>
    BY <1>1, <1>3, <1>5, <1>6 DEF InLoop
  <1> QED
    BY <1>1, <1>2, <1>4, <1>5, <1>7, <1>8, RunGoesOn

\* A tool acts for a call that is open in the transcript, and so in the store.
LEMMA HandleCallKeeps ==
    ASSUME RunsInv, NEW r \in Requests, HandleCall(r)
    PROVE  RunsInv'
  <1> DEFINE s == run[r].session
             m == messages[s]
             id == Head(run[r].todo)
             q == [run[r] EXCEPT !.pc = "handled"]
  <1>1. /\ run[r].pc = "handling" /\ ran' \in {ran, ran \cup {<<id, s>>}}
        /\ run' = [run EXCEPT ![r].pc = "handled"]
        /\ UNCHANGED <<messages, events, opened, chats, channel, issued>>
    BY DEF HandleCall
  <1>2. run[r].pc \in Inside
    BY <1>1 DEF Inside, Phases, Over
  <1>3. /\ run \in [Requests -> Run] /\ run[r] \in Run /\ issued \in Nat
        /\ TextInv(run[r], issued, m)
    BY <1>2, RunFacts
  <1>4. run' = [run EXCEPT ![r] = q]
    BY <1>1, <1>3
  <1>5. /\ q \in Run /\ q.pc = "handled" /\ q.key = run[r].key /\ q.lock = run[r].lock
        /\ q.session = s /\ q.transcript = run[r].transcript /\ q.todo = run[r].todo
    BY <1>3 DEF Run, Phases
  <1> HIDE DEF q
  <1>6. TextInv(q, issued, m)
    BY <1>1, <1>3, <1>5 DEF TextInv, InLoop
  <1>7. <<>> \in Seq(Event) /\ channel' = [channel EXCEPT ![r] = @ \o <<>>]
        /\ (\A i \in DOMAIN <<>> : <<>>[i].kind # "finished" /\ <<>>[i].stop # "completed")
    BY <1>1, NoEvents
  <1>8. id \in CallIds /\ (Stored(s) => id \in Calls(m))
    <2>1. run[r].todo \in Seq(CallIds) /\ run[r].todo # <<>>
          /\ ToSet(run[r].todo) = OpenCalls(run[r].transcript)
          /\ (m # None => m = run[r].transcript)
      BY <1>1, <1>3 DEF Run, TextInv, InLoop
    <2>2. id \in CallIds /\ id \in ToSet(run[r].todo)
      <3>1. 1 \in DOMAIN run[r].todo /\ id = run[r].todo[1]
        BY <2>1
      <3> QED
        BY <2>1, <3>1 DEF ToSet
    <2> QED
      BY <2>1, <2>2 DEF OpenCalls, Stored
  <1> HIDE DEF id
  <1>9. \/ ran' = ran
        \/ \E d \in CallIds :
               /\ ran' = ran \cup {<<d, run[r].session>>}
               /\ Stored(run[r].session) => d \in Calls(messages[run[r].session])
    BY <1>1, <1>8
  <1>10. /\ issued' \in Nat /\ issued <= issued' /\ q.pc \in InLoop \cup {"draining"}
         /\ TextInv(q, issued', m)
         /\ UNCHANGED <<messages, events, opened, chats>>
    BY <1>1, <1>3, <1>5, <1>6 DEF InLoop
  <1> QED
    BY <1>2, <1>4, <1>5, <1>7, <1>9, <1>10, RunGoesOn

\* The answer's calls are the open ones once it is filed, and it ends the transcript.
LEMMA FileAnswerKeeps ==
    ASSUME RunsInv, NEW r \in Requests, FileAnswer(r)
    PROVE  RunsInv'
  <1> DEFINE s == run[r].session
             m == messages[s]
             todo == run[r].todo
             y == Assistant(r, todo)
             x == m \o <<y>>
  <1>1. run[r].pc = "answered" /\ UNCHANGED <<events, opened, chats, issued, ran>>
    BY DEF FileAnswer, history
  <1>2. run[r].pc \in Inside
    BY <1>1 DEF Inside, Phases, Over
  <1>3. /\ run \in [Requests -> Run] /\ run[r] \in Run /\ issued \in Nat
        /\ TextInv(run[r], issued, m) /\ s \in Sessions
        /\ Stored(s) => Sound(m, issued) /\ m \in Seq(Message)
    BY <1>2, RunFacts
  <1>4. CASE ~Stored(s)
    <2>1. Stop(r, "failed") /\ UNCHANGED <<messages, channel>>
      BY <1>4 DEF FileAnswer
    <2>2. <<>> \in Seq(Event) /\ channel' = [channel EXCEPT ![r] = @ \o <<>>]
          /\ (\A i \in DOMAIN <<>> : <<>>[i].kind # "finished" /\ <<>>[i].stop # "completed")
      BY <2>1, NoEvents
    <2>3. "failed" \in Stops /\ UNCHANGED <<messages, events, opened, chats, issued, ran>>
      BY <1>1, <2>1 DEF Stops
    <2> QED
      BY <1>2, <2>1, <2>2, <2>3, StopKeeps
  <1>5. CASE Stored(s)
    <2>1. /\ todo \in Seq(CallIds) /\ IsInjective(todo) /\ Len(todo) \in Widths
          /\ ToSet(todo) \subseteq (1..issued) \ Calls(m)
          /\ OpenCalls(m) = {} /\ m = run[r].transcript /\ Sound(m, issued)
      BY <1>1, <1>3, <1>5 DEF Run, TextInv, InLoop, Stored
    <2>2. y \in Message /\ y.role # "tool" /\ y.result = None /\ y.calls = todo /\ y.by = r
      BY <2>1, MessagesAre DEF Assistant
    <2> HIDE DEF y
    <2>3. /\ Ordered(x) /\ InPlace(x) /\ Calls(x) = Calls(m) \cup ToSet(todo)
          /\ OpenCalls(x) = ToSet(todo)
      <3>1. ToSet(y.calls) \cap Calls(m) = {}
        BY <2>1, <2>2
      <3> QED
        BY <2>1, <2>2, <3>1, RunsAssumption, PlainGrows DEF Sound
    <2>4. /\ x \in Seq(Message) /\ Append(run[r].transcript, y) = x
          /\ Len(m) + 1 \in DOMAIN x /\ x[Len(m) + 1] = y
      <3>1. <<y>> \in Seq(Message) /\ 1 \in DOMAIN <<y>> /\ <<y>>[1] = y
        BY <2>2
      <3>2. m \in Seq(Message)
        BY <1>3, <1>5
      <3>3. x \in Seq(Message) /\ Len(m) + 1 \in DOMAIN x /\ x[Len(m) + 1] = y
        BY <3>1, <3>2, GrownFacts
      <3>4. Append(m, y) = x
        BY <2>2, <3>2, AppendIs
      <3> QED
        BY <2>1, <3>3, <3>4
    <2>5. EndsWithTurn(x, todo)
      BY <1>3, <1>5, <2>1, <2>2, TurnBegins
    <2>6. Sound(x, issued)
      BY <2>1, <2>3 DEF Sound
    <2>7. CASE todo # <<>>
      <3> DEFINE q == [run[r] EXCEPT !.pc = "tools", !.transcript = x]
      <3>1. StoreAppend(s, y) /\ run' = [run EXCEPT ![r] = q] /\ UNCHANGED channel
        BY <1>3, <1>5, <2>4, <2>7 DEF FileAnswer, y
      <3> HIDE DEF x
      <3>2. /\ q \in Run /\ q.pc = "tools" /\ q.key = run[r].key /\ q.lock = run[r].lock
            /\ q.session = s /\ q.transcript = x /\ q.todo = todo
        BY <1>3, <2>4 DEF Run, Phases
      <3> HIDE DEF q
      <3>3. TextInv(q, issued, x)
        BY <2>1, <2>3, <2>5, <2>6, <2>7, <3>2 DEF TextInv, InLoop
      <3>4. <<>> \in Seq(Event) /\ channel' = [channel EXCEPT ![r] = @ \o <<>>]
        BY <3>1, NoEvents
      <3>5. q.pc \in Inside /\ q.pc \in InLoop /\ AllTold(<<>>, x)
        BY <3>2 DEF Inside, Phases, Over, InLoop, AllTold
      <3>6. x = messages[run[r].session] \o <<y>>
        BY DEF x
      <3> QED
        BY <1>1, <1>2, <1>5, <2>2, <2>6, <3>1, <3>2, <3>3, <3>4, <3>5, <3>6, RunFiles
    <2>8. CASE todo = <<>>
      <3> DEFINE q == [run[r] EXCEPT !.pc = "draining", !.transcript = x, !.stop = "completed"]
                 evs == <<Ev(r, "turn_finished", None, "completed")>>
      <3>1. /\ StoreAppend(s, y) /\ run' = [run EXCEPT ![r] = q]
            /\ channel' = [channel EXCEPT ![r] = @ \o evs]
        BY <1>3, <1>5, <2>4, <2>8 DEF FileAnswer, Emit, y
      <3> HIDE DEF x
      <3>2. /\ q \in Run /\ q.pc = "draining" /\ q.key = run[r].key /\ q.lock = run[r].lock
            /\ q.session = s
        BY <1>3, <2>4 DEF Run, Phases, Stops
      <3> HIDE DEF q
      <3>3. TextInv(q, issued, x)
        BY <3>2 DEF TextInv, InLoop
      <3>4. evs \in Seq(Event) /\ AllTold(evs, x)
        <4>1. "completed" \in Stops /\ "turn_finished" \in Kinds
          BY DEF Stops, Kinds
        <4>2. /\ evs \in Seq(Event)
              /\ \A i \in DOMAIN evs : evs[i].kind # "finished" /\ evs[i].by = r
          BY <4>1, PlainEvent
        <4>3. x[Len(m) + 1] = Assistant(r, <<>>)
          BY <2>4, <2>8 DEF y
        <4> HIDE DEF evs
        <4> QED
          BY <2>4, <4>2, <4>3 DEF AllTold, Told
      <3> HIDE DEF evs
      <3>5. q.pc \in Inside /\ q.pc \in InLoop \cup {"draining"}
        BY <3>2 DEF Inside, Phases, Over
      <3>6. x = messages[run[r].session] \o <<y>>
        BY DEF x
      <3> QED
        BY <1>1, <1>2, <1>5, <2>2, <2>6, <3>1, <3>2, <3>3, <3>4, <3>5, <3>6, RunFiles
    <2> QED
      BY <2>7, <2>8
  <1> QED
    BY <1>4, <1>5

\* The first of some different calls, and the others.
LEMMA TailFacts ==
    ASSUME NEW todo \in Seq(CallIds), todo # <<>>, IsInjective(todo)
    PROVE  /\ Head(todo) \in CallIds /\ Head(todo) \in ToSet(todo)
           /\ Tail(todo) \in Seq(CallIds) /\ IsInjective(Tail(todo))
           /\ ToSet(Tail(todo)) = ToSet(todo) \ {Head(todo)}
  <1>1. /\ Len(todo) \in Nat /\ Len(todo) > 0 /\ DOMAIN todo = 1..Len(todo) /\ Head(todo) = todo[1]
        /\ Tail(todo) \in Seq(CallIds) /\ DOMAIN Tail(todo) = 1..(Len(todo) - 1)
        /\ \A i \in 1..(Len(todo) - 1) : Tail(todo)[i] = todo[i + 1]
        /\ todo[1] \in CallIds
    OBVIOUS
  <1>2. IsInjective(Tail(todo))
    BY <1>1 DEF IsInjective
  <1>3. ToSet(Tail(todo)) \subseteq ToSet(todo) \ {Head(todo)}
    BY <1>1 DEF ToSet, IsInjective
  <1>4. ASSUME NEW id \in ToSet(todo), id # Head(todo) PROVE id \in ToSet(Tail(todo))
    <2>1. PICK i \in DOMAIN todo : todo[i] = id
      BY <1>4 DEF ToSet
    <2>2. i - 1 \in DOMAIN Tail(todo) /\ Tail(todo)[i - 1] = id
      BY <1>1, <1>4, <2>1
    <2> QED
      BY <2>2 DEF ToSet
  <1>5. Head(todo) \in ToSet(todo)
    BY <1>1 DEF ToSet
  <1> QED
    BY <1>1, <1>2, <1>3, <1>4, <1>5

\* A result closes the first call in hand; the rest are the open ones.
LEMMA FileResultKeeps ==
    ASSUME RunsInv, NEW r \in Requests, FileResult(r)
    PROVE  RunsInv'
  <1> DEFINE s == run[r].session
             m == messages[s]
             todo == run[r].todo
             id == Head(todo)
             rest == Tail(todo)
             y == ToolResult(r, id, FALSE)
             x == m \o <<y>>
             pc == IF rest = <<>> THEN "turn" ELSE "tools"
             turn == IF rest = <<>> THEN run[r].turn + 1 ELSE run[r].turn
             q == [run[r] EXCEPT !.transcript = x, !.todo = rest, !.pc = pc, !.turn = turn]
             evs == <<Ev(r, "finished", id, None)>>
  <1>1. run[r].pc = "handled" /\ UNCHANGED <<events, opened, chats, issued, ran>>
    BY DEF FileResult, history
  <1>2. run[r].pc \in Inside
    BY <1>1 DEF Inside, Phases, Over
  <1>3. /\ run \in [Requests -> Run] /\ run[r] \in Run /\ issued \in Nat
        /\ TextInv(run[r], issued, m) /\ s \in Sessions
        /\ Stored(s) => Sound(m, issued) /\ m \in Seq(Message)
    BY <1>2, RunFacts
  <1>4. CASE ~Stored(s)
    <2>1. Stop(r, "failed") /\ UNCHANGED <<messages, channel>>
      BY <1>4 DEF FileResult
    <2>2. <<>> \in Seq(Event) /\ channel' = [channel EXCEPT ![r] = @ \o <<>>]
          /\ (\A i \in DOMAIN <<>> : <<>>[i].kind # "finished" /\ <<>>[i].stop # "completed")
      BY <2>1, NoEvents
    <2>3. "failed" \in Stops /\ UNCHANGED <<messages, events, opened, chats, issued, ran>>
      BY <1>1, <2>1 DEF Stops
    <2> QED
      BY <1>2, <2>1, <2>2, <2>3, StopKeeps
  <1>5. CASE Stored(s)
    <2>1. /\ todo \in Seq(CallIds) /\ todo # <<>> /\ IsInjective(todo)
          /\ ToSet(todo) = OpenCalls(m) /\ m = run[r].transcript /\ Sound(m, issued)
          /\ EndsWithTurn(m, todo) /\ run[r].turn \in Nat
      BY <1>1, <1>3, <1>5 DEF Run, TextInv, InLoop, Stored
    <2>2. /\ id \in CallIds /\ id \in ToSet(todo)
          /\ rest \in Seq(CallIds) /\ IsInjective(rest) /\ ToSet(rest) = ToSet(todo) \ {id}
      BY <2>1, TailFacts
    <2>3. y \in Message /\ y.role = "tool" /\ y.result = id /\ y.calls = <<>> /\ y.by = r
      BY <2>2, MessagesAre DEF ToolResult
    <2>4. EndsWithTurn(x, rest)
      BY <2>1, <2>2, <2>3, TurnGoesOn DEF Sound
    <2>5. run' = [run EXCEPT ![r] = q] /\ StoreAppend(s, y) /\ channel' = [channel EXCEPT ![r] = @ \o evs]
      <3>1. m \o <<y>> = Append(run[r].transcript, y)
        BY <1>3, <1>5, <2>1, <2>3, AppendIs
      <3> QED
        BY <1>3, <1>5, <3>1 DEF FileResult, Emit
    <2> HIDE DEF y, id, rest
    <2>6. /\ Ordered(x) /\ InPlace(x) /\ Calls(x) = Calls(m)
          /\ OpenCalls(x) = OpenCalls(m) \ {id} /\ id \in Results(x)
      <3> DEFINE ids == <<id>>
                 ys == <<y>>
      <3>1. /\ ids \in Seq(CallIds) /\ Len(ids) = 1 /\ IsInjective(ids) /\ ToSet(ids) = {id}
        BY <2>2 DEF IsInjective, ToSet
      <3>2. /\ ys \in Seq(Message) /\ Len(ys) = 1
            /\ \A i \in DOMAIN ys : ys[i].role = "tool" /\ ys[i].calls = <<>> /\ ys[i].result = ids[i]
        BY <2>3
      <3> HIDE DEF ids, ys
      <3>3. /\ Ordered(m \o ys) /\ InPlace(m \o ys) /\ Calls(m \o ys) = Calls(m)
            /\ OpenCalls(m \o ys) = OpenCalls(m) \ ToSet(ids)
            /\ ToSet(ids) \subseteq Results(m \o ys)
        BY <2>1, <2>2, <3>1, <3>2, ResultsGrow DEF Sound
      <3> QED
        BY <3>1, <3>3 DEF ys
    <2>7. x \in Seq(Message) /\ Sound(x, issued)
      BY <2>1, <2>6 DEF Sound, Ordered
    <2>8. x = messages[run[r].session] \o <<y>>
      OBVIOUS
    <2> HIDE DEF x
    <2>9. turn \in Nat /\ pc \in {"turn", "tools"} /\ (pc = "turn" <=> rest = <<>>)
      BY <2>1
    <2> HIDE DEF turn, pc
    <2>10. /\ q \in Run /\ q.pc = pc /\ q.key = run[r].key /\ q.lock = run[r].lock
           /\ q.session = s /\ q.transcript = x /\ q.todo = rest
      BY <1>3, <2>2, <2>7, <2>9 DEF Run, Phases
    <2> HIDE DEF q
    <2>11. OpenCalls(x) = ToSet(rest)
      BY <2>1, <2>2, <2>6
    <2>12. TextInv(q, issued, x)
      <3>1. CASE rest = <<>>
        <4>1. q.pc = "turn" /\ OpenCalls(x) = {} /\ EndsWithTurn(x, <<>>)
          BY <2>4, <2>9, <2>10, <2>11, <3>1, NoCalls
        <4> QED
          BY <2>7, <2>10, <4>1 DEF TextInv, InLoop
      <3>2. CASE rest # <<>>
        <4>1. q.pc = "tools"
          BY <2>9, <2>10, <3>2
        <4> QED
          BY <2>2, <2>4, <2>7, <2>10, <2>11, <3>2, <4>1 DEF TextInv, InLoop
      <3> QED
        BY <3>1, <3>2
    <2>13. evs \in Seq(Event) /\ AllTold(evs, x)
      <3>1. None # "completed" /\ "finished" \in Kinds /\ id \in CallIds
        BY <2>2, RunsAssumption DEF Kinds, Stops
      <3>2. /\ evs \in Seq(Event)
            /\ \A i \in DOMAIN evs : evs[i].call = id /\ evs[i].stop # "completed"
        BY <3>1, PlainEvent
      <3> HIDE DEF evs
      <3> QED
        BY <2>6, <3>2 DEF AllTold, Told
    <2> HIDE DEF evs
    <2>14. q.pc \in Inside /\ q.pc \in InLoop
      BY <2>9, <2>10 DEF Inside, Phases, Over, InLoop
    <2> QED
      BY <1>1, <1>2, <1>5, <2>3, <2>5, <2>7, <2>8, <2>10, <2>12, <2>13, <2>14, RunFiles
  <1> QED
    BY <1>4, <1>5

-----------------------------------------------------------------------------
(* The invariant                                                           *)

\* At first there is nothing to be wrong.
LEMMA InitRuns == Init => RunsInv
  <1> SUFFICES ASSUME Init PROVE RunsInv
    OBVIOUS
  <1>1. \A r \in Requests : run[r] = Idle /\ channel[r] = <<>>
    BY DEF Init
  <1>2. Idle.pc \in Over /\ Idle.pc \notin Inside /\ Idle.key # New
    BY IdleRun, RunsAssumption DEF Over, Inside
  <1>3. LockInv
    <2>1. PlaceInv(Idle, chats, opened)
      BY <1>2, IdleRun DEF PlaceInv
    <2>2. \A r \in Requests : ~Holding(r)
      BY <1>1, <1>2 DEF Holding
    <2> QED
      BY <1>1, <1>2, <2>1, <2>2, IdleRun DEF LockInv, Init
  <1>4. StoreInv
    BY <1>1, <1>2 DEF StoreInv, Stored, Init
  <1>5. WriterInv
    BY <1>1, <1>2 DEF WriterInv, RunsDoNotInterleave, Stored, Init
  <1>6. RecordsInv
    <2>1. \A r \in Requests : EventsInv(run[r], channel[r], messages[run[r].session])
      BY <1>1 DEF EventsInv
    <2> QED
      BY <2>1 DEF RecordsInv, Stored, Init
  <1> QED
    BY <1>3, <1>4, <1>5, <1>6 DEF RunsInv

\* Nor does anything become so by waiting.
LEMMA StutterKeeps == RunsInv /\ UNCHANGED vars => RunsInv'
  <1> SUFFICES ASSUME RunsInv, UNCHANGED vars PROVE RunsInv'
    OBVIOUS
  <1>1. UNCHANGED <<messages, events, opened, chats, run, channel, issued, ran>>
    BY DEF vars
  <1>2. LockInv'
    BY <1>1 DEF RunsInv, LockInv, Holding
  <1>3. StoreInv'
    BY <1>1 DEF RunsInv, StoreInv, Stored
  <1>4. WriterInv'
    BY <1>1 DEF RunsInv, WriterInv, Stored, RunsDoNotInterleave
  <1>5. RecordsInv'
    BY <1>1 DEF RunsInv, RecordsInv, Stored
  <1> QED
    BY <1>2, <1>3, <1>4, <1>5 DEF RunsInv

\* Whatever a run does on its own.
LEMMA AdvanceKeeps ==
    ASSUME RunsInv, NEW r \in Requests, Advance(r)
    PROVE  RunsInv'
  <1>1. CASE Lock(r)
    BY <1>1, LockKeeps
  <1>2. CASE Open(r)
    BY <1>2, OpenNewKeeps, OpenOldKeeps
  <1>3. CASE Repair(r)
    BY <1>3, RepairKeeps
  <1>4. CASE Prompt(r)
    BY <1>4, PromptKeeps
  <1>5. CASE Setup(r)
    BY <1>5, SetupKeeps
  <1>6. CASE BeginTurn(r)
    BY <1>6, BeginTurnKeeps
  <1>7. CASE TurnsUsedUp(r) \/ DeadlinePassed(r) \/ ModelFails(r)
    BY <1>7, EndsKeep
  <1>8. CASE \E width \in Widths : ModelAnswers(r, width)
    BY <1>8, ModelAnswersKeeps
  <1>9. CASE FileAnswer(r)
    BY <1>9, FileAnswerKeeps
  <1>10. CASE StartCall(r)
    BY <1>10, StartCallKeeps
  <1>11. CASE HandleCall(r)
    BY <1>11, HandleCallKeeps
  <1>12. CASE FileResult(r)
    BY <1>12, FileResultKeeps
  <1>13. CASE Reply(r)
    BY <1>13, ReplyKeeps
  <1> QED
    BY <1>1, <1>2, <1>3, <1>4, <1>5, <1>6, <1>7, <1>8, <1>9, <1>10, <1>11, <1>12, <1>13 DEF Advance

\* Every step, of clients that wait for a session's first reply.
LEMMA NextRuns == ASSUME ~Eager PROVE RunsInv /\ [Next]_vars => RunsInv'
  <1> SUFFICES ASSUME RunsInv, [Next]_vars PROVE RunsInv'
    OBVIOUS
  <1>1. ASSUME NEW s \in Sessions, CreateSession(s) PROVE RunsInv'
    BY <1>1, CreateKeeps
  <1>2. ASSUME NEW s \in Sessions, DeleteSession(s) PROVE RunsInv'
    BY <1>2, DeleteKeeps
  <1>3. ASSUME NEW r \in Requests, NEW key \in Keys, Arrive(r, key) PROVE RunsInv'
    BY <1>3, ArriveKeeps
  <1>4. ASSUME NEW r \in Requests, Advance(r) PROVE RunsInv'
    BY <1>4, AdvanceKeeps
  <1>5. ASSUME NEW r \in Requests, Write(r) PROVE RunsInv'
    BY <1>5, WriteKeeps
  <1>6. CASE Crash
    BY <1>6, CrashKeeps
  <1>7. CASE UNCHANGED vars
    BY <1>7, StutterKeeps
  <1> QED
    BY <1>1, <1>2, <1>3, <1>4, <1>5, <1>6, <1>7 DEF Next

\* The invariant holds of every behaviour.
LEMMA RunsInvariant == ASSUME ~Eager PROVE Spec => []RunsInv
  <1>1. Init => RunsInv
    BY InitRuns
  <1>2. RunsInv /\ [Next]_vars => RunsInv'
    BY NextRuns
  <1> QED
    BY <1>1, <1>2, PTL DEF Spec

-----------------------------------------------------------------------------
(* The theorems.  All of them suppose that no client names a session before  *)
(* its first run has replied: chats_first_run shows what happens otherwise.  *)

\* What one run writes to a session stands together: the lock chat.rs takes by key and
\* the ids no two sessions share keep the runs on a session apart from its opening to the
\* reply, across deletions, full lock tables and deaths of the daemon.
THEOREM OneRunAtATime == ASSUME ~Eager PROVE Spec => []RunsDoNotInterleave
  <1>1. RunsInv => RunsDoNotInterleave
    BY DEF RunsInv, WriterInv
  <1> QED
    BY <1>1, RunsInvariant, PTL

\* The tools' effects, the stored transcript and the event log agree at every point where
\* the daemon may die: agent.rs files the answer before a call runs and the result before
\* its end is announced, and close_interrupted answers only what has no result.
THEOREM RecordsHold == ASSUME ~Eager PROVE Spec => []RecordsAgree
  <1>1. RunsInv => RecordsAgree
    <2> SUFFICES ASSUME RunsInv PROVE RecordsAgree
      OBVIOUS
    <2>1. ASSUME NEW id \in CallIds, NEW s \in Sessions, <<id, s>> \in ran, Stored(s)
          PROVE  /\ id \in Calls(messages[s])
                 /\ Cardinality({i \in DOMAIN messages[s] : messages[s][i].result = id}) <= 1
      <3> DEFINE S == {i \in DOMAIN messages[s] : messages[s][i].result = id}
      <3>1. id \in Calls(messages[s])
        BY <2>1 DEF RunsInv, RecordsInv
      <3>2. id # None /\ Ordered(messages[s])
        BY <2>1, RunsAssumption DEF RunsInv, StoreInv, Sound
      <3>3. S = {} \/ \E i \in S : S = {i}
        BY <3>2 DEF Ordered
      <3>4. Cardinality(S) \in {0, 1}
        BY <3>3, FS_EmptySet, FS_Singleton
      <3> HIDE DEF S
      <3>5. Cardinality(S) <= 1
        BY <3>4
      <3> QED
        BY <3>1, <3>5 DEF S
    <2>2. ASSUME NEW s \in Sessions, NEW e \in ToSet(events[s])
          PROVE  /\ e.kind = "finished" => e.call \in Results(messages[s])
                 /\ e.stop = "completed" => \E m \in ToSet(messages[s]) : m = Assistant(e.by, <<>>)
      <3>1. PICK i \in DOMAIN events[s] : events[s][i] = e
        BY <2>2 DEF ToSet
      <3>2. Told(e, messages[s])
        BY <3>1 DEF RunsInv, RecordsInv
      <3> QED
        BY <3>2 DEF Told, ToSet
    <2> QED
      BY <2>1, <2>2 DEF RecordsAgree, ActedCallsOnRecord, LogNotAheadOfTranscript
  <1> QED
    BY <1>1, RunsInvariant, PTL

\* What the loop sends is a request a provider accepts, whatever ended the runs before and
\* wherever compact.rs cut: each call is answered once, right after it was made.
THEOREM RequestsSendable == ASSUME ~Eager PROVE Spec => []EveryRequestSendable
  <1>1. RunsInv => EveryRequestSendable
    <2> SUFFICES ASSUME RunsInv, NEW r \in Requests, run[r].pc = "calling" PROVE Sendable(run[r].sent)
      BY DEF EveryRequestSendable
    <2>1. run[r].pc \in Inside
      BY DEF Inside, Phases, Over
    <2>2. TextInv(run[r], issued, messages[run[r].session])
      BY <2>1, RunFacts
    <2>3. /\ Sound(run[r].transcript, issued) /\ OpenCalls(run[r].transcript) = {}
          /\ run[r].sent = CompactAt(run[r].transcript, Threshold)
      BY <2>2 DEF TextInv, InLoop
    <2> QED
      BY <2>3, CompactSendable DEF Sound
  <1> QED
    BY <1>1, RunsInvariant, PTL

\* What the loop sends ends with what the store holds last, whenever compaction's tail has
\* room for an answer with all its results: neither compact.rs nor the loop's own copy of
\* the transcript hides the prompt or the results the model is to answer.
THEOREM LastExchangeHolds ==
    ASSUME ~Eager, KeepTail > 0, \A width \in Widths : width < KeepTail
    PROVE  Spec => []LastExchangeSent
  <1>1. RunsInv => LastExchangeSent
    <2> SUFFICES ASSUME RunsInv, NEW r \in Requests, run[r].pc = "calling", Stored(run[r].session)
                 PROVE  /\ run[r].sent # <<>>
                        /\ Last(run[r].sent) = Last(messages[run[r].session])
      BY DEF LastExchangeSent
    <2> DEFINE m == messages[run[r].session]
    <2>1. run[r].pc \in Inside
      BY DEF Inside, Phases, Over
    <2>2. TextInv(run[r], issued, m) /\ m \in Seq(Message) /\ Sound(m, issued)
      BY <2>1, RunFacts
    <2>3. /\ m = run[r].transcript /\ OpenCalls(m) = {}
          /\ EndsWithPrompt(m) \/ EndsWithTurn(m, <<>>)
          /\ run[r].sent = CompactAt(m, Threshold)
      BY <2>2 DEF TextInv, InLoop, Stored
    <2>4. ShortTail(m)
      BY <2>2, <2>3, PromptIsShort, TurnIsShort DEF Sound
    <2> QED
      BY <2>2, <2>3, <2>4, LastIsSent
  <1> QED
    BY <1>1, RunsInvariant, PTL
=============================================================================

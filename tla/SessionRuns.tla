---------------------------- MODULE SessionRuns ----------------------------
(***************************************************************************)
(* Chat requests running on stored sessions: hxd's chat route from the     *)
(* request to the reply (chat.rs), the lock that gives a session one run   *)
(* at a time (state.rs), the agent loop inside it (agent.rs), the store it *)
(* writes through (store.rs) and the task that files its events.           *)
(*                                                                         *)
(* A run belongs to the daemon and not to its client: nothing but its own  *)
(* end, a store that lost the session or the daemon's death stops it.  The *)
(* daemon's token carries no provider budget, so the loop's spend ceiling  *)
(* is never set here.  What the gate decides about a call is CallGate's.   *)
(***************************************************************************)
EXTENDS Transcript

CONSTANTS
    Requests, Sessions,
    New,                 \* the lock key of every request that starts a session
    Eager,               \* TRUE: clients name a session while its first run is going
    Threshold,           \* agent.compact_at_tokens, 0 for none
    Widths,              \* how many calls an answer may make
    MaxTurns,            \* limits.max_turns
    ChannelCap,          \* room in a run's event channel
    MaxLocks,            \* lock entries above which idle ones are dropped
    MaxCrashes           \* bound: deaths of the daemon

\* How a loop ends.
Stops == {"completed", "max_turns", "budget", "failed"}

ASSUME RunsAssumption ==
    /\ Authors = Requests
    /\ IsFiniteSet(CallIds) /\ CallIds = 1..Cardinality(CallIds)
    /\ New \notin Sessions \cup {None}
    /\ None \notin Requests \cup Sessions /\ None \notin CallIds
    /\ None \notin Stops /\ None \notin Seq(Message)
    /\ Eager \in BOOLEAN
    /\ Threshold \in Nat
    /\ Widths \subseteq Nat
    /\ MaxTurns \in Nat \ {0}
    /\ ChannelCap \in Nat \ {0}
    /\ MaxLocks \in Nat
    /\ MaxCrashes \in Nat

Keys == Sessions \cup {New}

Kinds == {"turn_started", "answer", "started", "finished", "turn_finished", "error"}
Event == [kind : Kinds, call : CallIds \cup {None}, stop : Stops \cup {None}, by : Requests]

VARIABLES
    messages,    \* the store's transcripts; None for a session it has no row for
    events,      \* the store's event log, by session
    opened,      \* sessions ever created: ids are never reused
    chats,       \* the lock table: which lock a key has, or None.  A lock is named
                 \* after the request that made its entry
    run,         \* each request's run
    channel,     \* each run's events on their way to the store
    issued,      \* how many call ids providers have used
    ran,         \* history: calls whose tool acted, with their session
    crashes

vars == <<messages, events, opened, chats, run, channel, issued, ran, crashes>>

Phases == {"idle", "locking", "opening", "repairing", "prompting", "setup", "turn", "calling",
           "answered", "tools", "handling", "handled", "draining", "done", "lost"}

Run == [pc : Phases, key : Keys \cup {None}, lock : Requests \cup {None},
        session : Sessions \cup {None}, transcript : Seq(Message), turn : Nat,
        todo : Seq(CallIds), sent : Seq(Message), stop : Stops \cup {None}]

TypeOK ==
    /\ messages \in [Sessions -> Seq(Message) \cup {None}]
    /\ events \in [Sessions -> Seq(Event)]
    /\ opened \in SUBSET Sessions
    /\ chats \in [Keys -> Requests \cup {None}]
    /\ run \in [Requests -> Run]
    /\ channel \in [Requests -> Seq(Event)]
    /\ issued \in Nat
    /\ ran \in SUBSET (CallIds \X Sessions)
    /\ crashes \in Nat

Idle == [pc |-> "idle", key |-> None, lock |-> None, session |-> None, transcript |-> <<>>,
         turn |-> 0, todo |-> <<>>, sent |-> <<>>, stop |-> None]

Init ==
    /\ messages = [s \in Sessions |-> None]
    /\ events = [s \in Sessions |-> <<>>]
    /\ opened = {}
    /\ chats = [k \in Keys |-> None]
    /\ run = [r \in Requests |-> Idle]
    /\ channel = [r \in Requests |-> <<>>]
    /\ issued = 0
    /\ ran = {}
    /\ crashes = 0

-----------------------------------------------------------------------------
Over == {"idle", "done", "lost"}
Waiting(r) == run[r].pc = "locking"
Holding(r) == run[r].pc \notin Over \cup {"locking"}
InLoop == {"turn", "calling", "answered", "tools", "handling", "handled"}

Stored(s) == messages[s] # None

\* Mutant of StoreAppend: an answer is stored once its calls have run.
StoreAppendLate(s, m) ==
    messages' = IF m.calls # <<>> THEN messages ELSE [messages EXCEPT ![s] = Append(@, m)]

\* The store's append, of a session it has a row for.
StoreAppend(s, m) == messages' = [messages EXCEPT ![s] = Append(@, m)]

\* An emit waits for room in the channel.
Ev(r, kind, call, stop) == [kind |-> kind, call |-> call, stop |-> stop, by |-> r]
Emit(r, evs) ==
    /\ Len(channel[r]) + Len(evs) <= ChannelCap
    /\ channel' = [channel EXCEPT ![r] = @ \o evs]

\* The request is answered with an error before there is a loop to drain; its
\* guard on the session goes with it.
Refuse(r) == run' = [run EXCEPT ![r] = [Idle EXCEPT !.pc = "done", !.stop = "failed"]]

\* The loop returned: what is left is for the writer to finish.
Stop(r, stop) == run' = [run EXCEPT ![r].pc = "draining", ![r].stop = stop]

history == <<ran, crashes>>

-----------------------------------------------------------------------------
\* Bound: session ids in use or promised to requests that will start one.
Minted == Cardinality(opened)
          + Cardinality({r \in Requests : run[r].key = New /\ run[r].session = None})

\* POST /v1/sessions: a session without a run.
CreateSession(s) ==
    /\ s \notin opened
    /\ Minted < Cardinality(Sessions)
    /\ messages' = [messages EXCEPT ![s] = <<>>]
    /\ opened' = opened \cup {s}
    /\ UNCHANGED <<events, chats, run, channel, issued, history>>

\* DELETE /v1/sessions/{id}: the row and everything hanging off it.  Nothing
\* asks whether a run is on it.
DeleteSession(s) ==
    /\ Stored(s)
    /\ messages' = [messages EXCEPT ![s] = None]
    /\ events' = [events EXCEPT ![s] = <<>>]
    /\ UNCHANGED <<opened, chats, run, channel, issued, history>>

\* A client names a session it was told of: opened by itself, or started by a
\* run that has replied.  An eager one reads it off the session list at once.
Known(s) ==
    /\ s \in opened
    /\ Eager \/ \A r \in Requests : run[r].key = New /\ run[r].session = s => run[r].pc \in Over

\* Mutant of SessionLock: a full table is emptied.
SessionLockEmptied(r, key) ==
    LET full == Cardinality({k \in Keys : chats[k] # None}) > MaxLocks
        kept == IF full THEN [k \in Keys |-> None] ELSE chats
        lock == IF kept[key] = None THEN r ELSE kept[key]
    IN /\ chats' = [kept EXCEPT ![key] = lock]
       /\ run' = [run EXCEPT ![r] = [Idle EXCEPT !.pc = "locking", !.key = key, !.lock = lock]]

\* session_lock: a full table drops the locks nobody waits on or holds, then the
\* key's lock is found or made.
SessionLock(r, key) ==
    LET full == Cardinality({k \in Keys : chats[k] # None}) > MaxLocks
        inUse == {run[q].lock : q \in {p \in Requests : Waiting(p) \/ Holding(p)}}
        kept == IF full THEN [k \in Keys |-> IF chats[k] \in inUse THEN chats[k] ELSE None]
                ELSE chats
        lock == IF kept[key] = None THEN r ELSE kept[key]
    IN /\ chats' = [kept EXCEPT ![key] = lock]
       /\ run' = [run EXCEPT ![r] = [Idle EXCEPT !.pc = "locking", !.key = key, !.lock = lock]]

\* A request whose role, level and sandbox are in order asks for its session.
Arrive(r, key) ==
    /\ run[r].pc = "idle"
    /\ IF key = New THEN Minted < Cardinality(Sessions) ELSE Known(key)
    /\ SessionLock(r, key)
    /\ UNCHANGED <<messages, events, opened, channel, issued, history>>

Lock(r) ==
    /\ Waiting(r)
    /\ \A q \in Requests : Holding(q) => run[q].lock # run[r].lock
    /\ run' = [run EXCEPT ![r].pc = "opening"]
    /\ UNCHANGED <<messages, events, opened, chats, channel, issued, history>>

\* A new session, or close_interrupted's reading of an old one; the repair is a
\* second transaction.
Open(r) ==
    /\ run[r].pc = "opening"
    /\ \/ /\ run[r].key = New
          /\ \E s \in Sessions \ opened :
                 /\ messages' = [messages EXCEPT ![s] = <<>>]
                 /\ opened' = opened \cup {s}
                 /\ run' = [run EXCEPT ![r].pc = "prompting", ![r].session = s]
       \/ /\ run[r].key # New
          /\ IF Stored(run[r].key)
               THEN LET open == InterruptedCalls(messages[run[r].key])
                    IN run' = [run EXCEPT ![r].session = run[r].key, ![r].todo = open,
                                          ![r].pc = IF open = <<>> THEN "prompting" ELSE "repairing"]
               ELSE Refuse(r)
          /\ UNCHANGED <<messages, opened>>
    /\ UNCHANGED <<events, chats, channel, issued, history>>

\* append_all: every unanswered call is given a result, in one transaction.
Repair(r) ==
    LET s == run[r].session
    IN /\ run[r].pc = "repairing"
       /\ IF Stored(s)
            THEN /\ messages' = [messages EXCEPT ![s] =
                                     @ \o [i \in DOMAIN run[r].todo |->
                                               ToolResult(r, run[r].todo[i], TRUE)]]
                 /\ run' = [run EXCEPT ![r].pc = "prompting", ![r].todo = <<>>]
            ELSE Refuse(r) /\ UNCHANGED messages
       /\ UNCHANGED <<events, opened, chats, channel, issued, ran, crashes>>

\* The prompt is stored first: a run that dies has still been asked.
Prompt(r) ==
    LET s == run[r].session
    IN /\ run[r].pc = "prompting"
       /\ IF Stored(s)
            THEN StoreAppend(s, User(r)) /\ run' = [run EXCEPT ![r].pc = "setup"]
            ELSE Refuse(r) /\ UNCHANGED messages
       /\ UNCHANGED <<events, opened, chats, channel, issued, history>>

\* The host, the allow file and the approver, any of which may fail; then the
\* transcript is read back.  The query knows no row it should have found: a
\* session deleted meanwhile reads as empty.
Setup(r) ==
    LET s == run[r].session
    IN /\ run[r].pc = "setup"
       /\ \/ Refuse(r)
          \/ run' = [run EXCEPT ![r].pc = "turn", ![r].turn = 1,
                                ![r].transcript = IF Stored(s) THEN messages[s] ELSE <<>>]
       /\ UNCHANGED <<messages, events, opened, chats, channel, issued, history>>

-----------------------------------------------------------------------------
\* A turn starts, with the request the context builder makes of the transcript.
BeginTurn(r) ==
    /\ run[r].pc = "turn"
    /\ run[r].turn <= MaxTurns
    /\ Emit(r, <<Ev(r, "turn_started", None, None)>>)
    /\ run' = [run EXCEPT ![r].pc = "calling",
                          ![r].sent = CompactAt(run[r].transcript, Threshold)]
    /\ UNCHANGED <<messages, events, opened, chats, issued, history>>

TurnsUsedUp(r) ==
    /\ run[r].pc = "turn"
    /\ run[r].turn > MaxTurns
    /\ Emit(r, <<Ev(r, "turn_finished", None, "max_turns")>>)
    /\ Stop(r, "max_turns")
    /\ UNCHANGED <<messages, events, opened, chats, issued, history>>

\* The wall clock is looked at before a turn and bounds the call in flight.
DeadlinePassed(r) ==
    /\ (run[r].pc = "turn" /\ run[r].turn <= MaxTurns) \/ run[r].pc = "calling"
    /\ Emit(r, <<Ev(r, "turn_finished", None, "budget")>>)
    /\ Stop(r, "budget")
    /\ UNCHANGED <<messages, events, opened, chats, issued, history>>

ModelFails(r) ==
    /\ run[r].pc = "calling"
    /\ Emit(r, <<Ev(r, "error", None, None)>>)
    /\ Stop(r, "failed")
    /\ UNCHANGED <<messages, events, opened, chats, issued, history>>

\* The answer is announced before it is filed, its usage and its text as one
\* event here.
ModelAnswers(r, width) ==
    /\ run[r].pc = "calling"
    /\ issued + width <= Cardinality(CallIds)
    /\ Emit(r, <<Ev(r, "answer", None, None)>>)
    /\ issued' = issued + width
    /\ run' = [run EXCEPT ![r].pc = "answered", ![r].todo = [i \in 1..width |-> issued + i]]
    /\ UNCHANGED <<messages, events, opened, chats, history>>

\* The answer goes to the store and then to the transcript; an answer without
\* calls ends the run.  A store that has lost the session ends it too.
FileAnswer(r) ==
    LET s == run[r].session
        m == Assistant(r, run[r].todo)
    IN /\ run[r].pc = "answered"
       /\ \/ /\ Stored(s) /\ run[r].todo # <<>>
             /\ StoreAppend(s, m)
             /\ run' = [run EXCEPT ![r].pc = "tools", ![r].transcript = Append(@, m)]
             /\ UNCHANGED channel
          \/ /\ Stored(s) /\ run[r].todo = <<>>
             /\ StoreAppend(s, m)
             /\ run' = [run EXCEPT ![r].pc = "draining", ![r].transcript = Append(@, m),
                                   ![r].stop = "completed"]
             /\ Emit(r, <<Ev(r, "turn_finished", None, "completed")>>)
          \/ ~Stored(s) /\ Stop(r, "failed") /\ UNCHANGED <<messages, channel>>
       /\ UNCHANGED <<events, opened, chats, issued, history>>

StartCall(r) ==
    /\ run[r].pc = "tools"
    /\ Emit(r, <<Ev(r, "started", Head(run[r].todo), None)>>)
    /\ run' = [run EXCEPT ![r].pc = "handling"]
    /\ UNCHANGED <<messages, events, opened, chats, issued, history>>

\* handle_call: refused at the gate, or the tool acts.
HandleCall(r) ==
    LET id == Head(run[r].todo)
    IN /\ run[r].pc = "handling"
       /\ ran' \in {ran, ran \cup {<<id, run[r].session>>}}
       /\ run' = [run EXCEPT ![r].pc = "handled"]
       /\ UNCHANGED <<messages, events, opened, chats, channel, issued, crashes>>

\* Either way the call has a result, filed before its end is announced.
FileResult(r) ==
    LET s == run[r].session
        id == Head(run[r].todo)
        m == ToolResult(r, id, FALSE)
        rest == Tail(run[r].todo)
    IN /\ run[r].pc = "handled"
       /\ IF Stored(s)
            THEN /\ StoreAppend(s, m)
                 /\ run' = [run EXCEPT ![r].transcript = Append(@, m), ![r].todo = rest,
                                       ![r].pc = IF rest = <<>> THEN "turn" ELSE "tools",
                                       ![r].turn = IF rest = <<>> THEN @ + 1 ELSE @]
                 /\ Emit(r, <<Ev(r, "finished", id, None)>>)
            ELSE Stop(r, "failed") /\ UNCHANGED <<messages, channel>>
       /\ UNCHANGED <<events, opened, chats, issued, history>>

-----------------------------------------------------------------------------
\* Mutant of Write: the writer gives up on the first event it cannot store.
WriteUntilError(r) ==
    LET s == run[r].session
    IN /\ channel[r] # <<>>
       /\ Stored(s)
       /\ channel' = [channel EXCEPT ![r] = Tail(@)]
       /\ events' = [events EXCEPT ![s] = Append(@, Head(channel[r]))]
       /\ UNCHANGED <<messages, opened, chats, run, issued, history>>

\* write_events: one event to the store; one that cannot be stored is dropped.
Write(r) ==
    LET s == run[r].session
    IN /\ channel[r] # <<>>
       /\ channel' = [channel EXCEPT ![r] = Tail(@)]
       /\ events' = IF Stored(s) THEN [events EXCEPT ![s] = Append(@, Head(channel[r]))]
                    ELSE events
       /\ UNCHANGED <<messages, opened, chats, run, issued, history>>

\* The writer has nothing left: the reply is made and the session's lock freed.
Reply(r) ==
    /\ run[r].pc = "draining"
    /\ channel[r] = <<>>
    /\ run' = [run EXCEPT ![r] = [Idle EXCEPT !.pc = "done", !.stop = run[r].stop]]
    /\ UNCHANGED <<messages, events, opened, chats, channel, issued, history>>

\* The daemon dies and starts again: the store is all that is left.
Crash ==
    /\ crashes < MaxCrashes
    /\ crashes' = crashes + 1
    /\ run' = [r \in Requests |-> IF run[r].pc \in Over THEN run[r]
                                  ELSE [Idle EXCEPT !.pc = "lost"]]
    /\ channel' = [r \in Requests |-> <<>>]
    /\ chats' = [k \in Keys |-> None]
    /\ UNCHANGED <<messages, events, opened, issued, ran>>

\* What a run does on its own; every wait in it ends.
Advance(r) ==
    \/ Lock(r) \/ Open(r) \/ Repair(r) \/ Prompt(r) \/ Setup(r)
    \/ BeginTurn(r) \/ TurnsUsedUp(r) \/ DeadlinePassed(r) \/ ModelFails(r)
    \/ \E width \in Widths : ModelAnswers(r, width)
    \/ FileAnswer(r) \/ StartCall(r) \/ HandleCall(r) \/ FileResult(r) \/ Reply(r)

Next ==
    \/ \E s \in Sessions : CreateSession(s) \/ DeleteSession(s)
    \/ \E r \in Requests, key \in Keys : Arrive(r, key)
    \/ \E r \in Requests : Advance(r) \/ Write(r)
    \/ Crash

\* Every await of a run returns: the model call is under the deadline, an
\* approval under its wait, the writer under nothing but the store.
Spec ==
    /\ Init /\ [][Next]_vars
    /\ \A r \in Requests : WF_vars(Advance(r)) /\ WF_vars(Write(r))

-----------------------------------------------------------------------------
\* A request a provider accepts: every call answered exactly once, by the tool
\* messages right after it, and nothing answered that was not called.
Sendable(sent) ==
    /\ Results(sent) \subseteq Calls(sent)
    /\ \A i \in DOMAIN sent : \A id \in ToSet(sent[i].calls) :
           \E j \in DOMAIN sent :
               /\ {k \in DOMAIN sent : sent[k].result = id} = {j}
               /\ i < j
               /\ \A k \in (i + 1)..j : sent[k].role = "tool"

\* Whatever ended the runs before, a death between two messages included, and
\* wherever compaction cut, what the loop sends is a request a provider accepts.
EveryRequestSendable ==
    \A r \in Requests : run[r].pc = "calling" => Sendable(run[r].sent)

\* What the loop sends ends with what the store holds last: neither compaction
\* nor a lagging copy hides the prompt or the results the model is to answer.
LastExchangeSent ==
    \A r \in Requests : run[r].pc = "calling" /\ Stored(run[r].session) =>
        /\ run[r].sent # <<>>
        /\ Last(run[r].sent) = Last(messages[run[r].session])

\* chat.rs, "Two requests on one session would interleave into a transcript
\* neither of them wrote": what one run writes stands together in the store.
RunsDoNotInterleave ==
    \A s \in Sessions : Stored(s) =>
        \A i, k \in DOMAIN messages[s] : messages[s][i].by = messages[s][k].by =>
            \A j \in i..k : messages[s][j].by = messages[s][i].by

\* A call whose tool acted is in the stored transcript of its session, with at
\* most one result: no death and no repair loses it or answers it twice.
ActedCallsOnRecord ==
    \A id \in CallIds, s \in Sessions : <<id, s>> \in ran /\ Stored(s) =>
        /\ id \in Calls(messages[s])
        /\ Cardinality({i \in DOMAIN messages[s] : messages[s][i].result = id}) <= 1

\* The event log never runs ahead of the transcript: a call logged as finished
\* has its stored result, a run logged as completed its stored answer.
LogNotAheadOfTranscript ==
    \A s \in Sessions : \A e \in ToSet(events[s]) :
        /\ e.kind = "finished" => e.call \in Results(messages[s])
        /\ e.stop = "completed" =>
               \E m \in ToSet(messages[s]) : m = Assistant(e.by, <<>>)

\* The three records of what was done agree at every point a death may come:
\* the tools' effects, the transcript and the event log.
RecordsAgree == ActedCallsOnRecord /\ LogNotAheadOfTranscript

\* Every request is replied to, unless the daemon dies under it.
EveryRequestEnds ==
    \A r \in Requests : Waiting(r) ~> run[r].pc \in {"done", "lost"}

=============================================================================

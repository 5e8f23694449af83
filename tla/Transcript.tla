---------------------------- MODULE Transcript ----------------------------
(***************************************************************************)
(* A session's transcript and the two functions that keep it sendable: the *)
(* repair of a transcript that ended between a tool call and its result    *)
(* (hx-store, session.rs) and the compacted view a long one is sent as     *)
(* (hx-agent, compact.rs).                                                 *)
(***************************************************************************)
EXTENDS Integers, Sequences, SequencesExt, FiniteSetsExt

CONSTANTS
    CallIds,             \* tool call ids, as providers mint them
    Authors,             \* the requests whose runs write messages
    KeepHead, KeepTail,  \* how much of each end compaction wants to keep
    Tokens(_),           \* the estimate of a transcript's size
    None

ASSUME KeepAssumption == KeepHead \in Nat /\ KeepTail \in Nat

Roles == {"user", "assistant", "tool"}

\* A message: the calls it makes, the call it answers, whether the answer is a
\* repair, and the request whose run wrote it.
Message == [role : Roles, calls : Seq(CallIds), result : CallIds \cup {None},
            repair : BOOLEAN, by : Authors \cup {None}]

User(r) ==
    [role |-> "user", calls |-> <<>>, result |-> None, repair |-> FALSE, by |-> r]
Assistant(r, calls) ==
    [role |-> "assistant", calls |-> calls, result |-> None, repair |-> FALSE, by |-> r]
ToolResult(r, id, repair) ==
    [role |-> "tool", calls |-> <<>>, result |-> id, repair |-> repair, by |-> r]

Calls(messages) == UNION {ToSet(messages[i].calls) : i \in DOMAIN messages}
Results(messages) == {messages[i].result : i \in DOMAIN messages} \ {None}

-----------------------------------------------------------------------------
\* Mutant of InterruptedCalls: a turn with any result counts as answered.
InterruptedCallsNoneAnswered(messages) ==
    LET turns == {i \in DOMAIN messages : messages[i].calls # <<>>}
    IN IF turns = {} \/ Results(SubSeq(messages, Max(turns) + 1, Len(messages))) # {} THEN <<>>
       ELSE messages[Max(turns)].calls

\* Of some calls those that are not answered, in their order.
Unanswered(calls, answered) ==
    LET U[n \in 0..Len(calls)] ==
            IF n = 0 THEN <<>>
            ELSE IF calls[n] \in answered THEN U[n - 1] ELSE Append(U[n - 1], calls[n])
    IN U[Len(calls)]

\* The calls of the last turn that made any which no later message answers.
InterruptedCalls(messages) ==
    LET turns == {i \in DOMAIN messages : messages[i].calls # <<>>}
        last == Max(turns)
    IN IF turns = {} THEN <<>>
       ELSE Unanswered(messages[last].calls,
                       Results(SubSeq(messages, last + 1, Len(messages))))

-----------------------------------------------------------------------------
IsPairSafe(messages) == Calls(messages) = Results(messages)

\* The longest self-contained prefix of at most want messages.
SafeHeadEnd(messages, want) ==
    Max({end \in 0..Min({want, Len(messages)}) : IsPairSafe(SubSeq(messages, 1, end))})

\* How many messages precede the longest self-contained suffix of at most want.
SafeTailBefore(messages, want) ==
    LET wanted == IF want >= Len(messages) THEN 0 ELSE Len(messages) - want
    IN Min({start \in wanted..Len(messages) :
                IsPairSafe(SubSeq(messages, start + 1, Len(messages)))})

\* The statement that the middle was elided; an assistant message.
Marker == Assistant(None, <<>>)

\* Mutant of CompactAt: the tail stops one short.
CompactAtShort(messages, threshold) ==
    LET head == SafeHeadEnd(messages, KeepHead)
        tail == SafeTailBefore(messages, KeepTail)
    IN IF threshold = 0 \/ Tokens(messages) <= threshold \/ head >= tail THEN messages
       ELSE SubSeq(messages, 1, head) \o <<Marker>> \o SubSeq(messages, tail + 1, Len(messages) - 1)

\* What of a transcript is sent: all of it up to the threshold (0 for no
\* threshold) or when the ends meet, else both ends around a marker.
CompactAt(messages, threshold) ==
    LET head == SafeHeadEnd(messages, KeepHead)
        tail == SafeTailBefore(messages, KeepTail)
    IN IF threshold = 0 \/ Tokens(messages) <= threshold \/ head >= tail THEN messages
       ELSE SubSeq(messages, 1, head) \o <<Marker>> \o SubSeq(messages, tail + 1, Len(messages))

=============================================================================

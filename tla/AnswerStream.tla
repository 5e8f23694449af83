---------------------------- MODULE AnswerStream ----------------------------
(***************************************************************************)
(* A model's answer growing in one Telegram message (telegram_stream.rs):  *)
(* chunks are coalesced, at most one write is in flight beside the token   *)
(* loop, and a last write makes sure that the whole text is on the screen. *)
(*                                                                         *)
(* A text is its length: every text written is a prefix of the answer.     *)
(* Telegram is external.  A call may be refused, throttled, unanswered; an *)
(* unanswered one may have landed, or land later.                          *)
(***************************************************************************)
EXTENDS Integers, FiniteSets

CONSTANTS
    Unit,          \* characters an edit waits for
    MaxAttempts,   \* calls per write
    Chunks,        \* lengths of a chunk
    MaxChars,      \* bound: length of the answer
    MaxGhosts,     \* bound: unanswered calls that land later
    None

VARIABLES
    buffer,    \* characters the model has produced
    sent,      \* the coalescer's watermark
    started,   \* a first write was made
    failed,    \* last_write_failed
    message,   \* outcome.message_id
    write,     \* the write under way: what it puts where, and its calls so far
    pc,        \* "streaming", "joining", "editing", "sending", or how it ended
    screen,    \* Telegram: the text of each message posted
    ghosts,    \* Telegram: unanswered calls that have not landed yet
    overtaken  \* history: an unanswered edit landed over a longer text

vars == <<buffer, sent, started, failed, message, write, pc, screen, ghosts, overtaken>>

Verdicts == {"accepted", "retry", "refused"}
Write == [to : Nat \cup {None}, text : Nat, calls : Nat, verdict : Verdicts \cup {None},
          id : Nat \cup {None}]

Init ==
    /\ buffer = 0
    /\ sent = 0
    /\ started = FALSE
    /\ failed = FALSE
    /\ message = None
    /\ write = None
    /\ pc = "streaming"
    /\ screen = [m \in {} |-> 0]
    /\ ghosts = {}
    /\ overtaken = FALSE

-----------------------------------------------------------------------------
(* One call of the Bot API.                                                *)

Posted == DOMAIN screen
Fresh == Cardinality(Posted) + 1

\* A send posts a message, an edit replaces the text of one that exists.
Landed(to, text) ==
    [m \in Posted \cup {IF to = None THEN Fresh ELSE to} |->
        IF m = (IF to = None THEN Fresh ELSE to) THEN text ELSE screen[m]]

\* What a call may come to.  An accepted send may still name no message; an edit
\* to the text already there is "not modified", which is success.
CallAccepted ==
    /\ screen' = Landed(write.to, write.text)
    /\ \E id \in {None, Fresh} :
           write' = [write EXCEPT !.calls = @ + 1, !.verdict = "accepted",
                                  !.id = IF write.to = None THEN id ELSE None]
    /\ UNCHANGED ghosts

\* next_step: a refusal or a throttle beyond the cap settles the write; a short
\* throttle, a server error or silence is tried again while attempts are left.
NextStep(verdict) ==
    IF verdict = "retry" /\ write.calls + 1 < MaxAttempts THEN None ELSE verdict

CallTurnedDown ==
    /\ \E verdict \in {"retry", "refused"} :
           write' = [write EXCEPT !.calls = @ + 1, !.verdict = NextStep(verdict)]
    /\ UNCHANGED <<screen, ghosts>>

\* No answer within API_TIMEOUT: it landed, or it is still on its way.
CallUnanswered ==
    /\ write' = [write EXCEPT !.calls = @ + 1, !.verdict = NextStep("retry")]
    /\ \/ screen' = Landed(write.to, write.text) /\ UNCHANGED ghosts
       \/ /\ Cardinality(ghosts) < MaxGhosts
          /\ ghosts' = ghosts \cup {[to |-> write.to, text |-> write.text]}
          /\ UNCHANGED screen

Call ==
    /\ write # None
    /\ write.verdict = None
    /\ CallAccepted \/ CallTurnedDown \/ CallUnanswered
    /\ UNCHANGED <<buffer, sent, started, failed, message, pc, overtaken>>

GhostLands ==
    /\ \E g \in ghosts :
           /\ screen' = Landed(g.to, g.text)
           /\ ghosts' = ghosts \ {g}
           /\ overtaken' = (overtaken \/ (g.to # None /\ screen[g.to] > g.text))
    /\ UNCHANGED <<buffer, sent, started, failed, message, write, pc>>

-----------------------------------------------------------------------------
(* The driver.                                                             *)

BeginWrite(to, text) ==
    write' = [to |-> to, text |-> text, calls |-> 0, verdict |-> None, id |-> None]

Success(w) == w.verdict = "accepted"

\* absorb: a finished write is folded in; only the first success names the message.
MessageAfter(w) == IF Success(w) /\ message = None THEN w.id ELSE message

\* Mutant of SkipFlush: a flush the loop skips counts as sent.
SkipFlushForGood(grown) == sent' = grown /\ started' = TRUE

\* A flush that is skipped leaves the watermark: the next write carries the text.
SkipFlush(grown) == UNCHANGED <<sent, started>>

\* A chunk arrives.  With enough new text, or at the first text at all, a write
\* that finished is reaped, and a new one begins unless one is running or there
\* is no message to edit.
Chunk(n) ==
    LET grown == buffer + n
        enough == grown - sent >= Unit \/ (~started /\ grown > sent)
        reaped == write # None /\ write.verdict # None
        free == write = None \/ reaped
        id == IF reaped THEN MessageAfter(write) ELSE message
    IN /\ pc = "streaming"
       /\ grown <= MaxChars
       /\ buffer' = grown
       /\ IF ~enough THEN UNCHANGED <<sent, started, failed, message, write>>
          ELSE /\ message' = id
               /\ failed' = IF reaped THEN ~Success(write) ELSE failed
               /\ IF free /\ ~(started /\ id = None)
                    THEN /\ sent' = grown
                         /\ started' = TRUE
                         /\ BeginWrite(id, grown)
                    ELSE /\ write' = IF reaped THEN None ELSE write
                         /\ SkipFlush(grown)
       /\ UNCHANGED <<pc, screen, ghosts, overtaken>>

\* The channel closes: the model is done, or has failed.
Close ==
    /\ pc = "streaming"
    /\ pc' = "joining"
    /\ UNCHANGED <<buffer, sent, started, failed, message, write, screen, ghosts, overtaken>>

\* The write in flight is joined, and whether more is needed decided: an empty
\* answer sends nothing, one that is provably on the screen is left alone.
Join ==
    LET id == IF write = None THEN message ELSE MessageAfter(write)
        stale == IF write = None THEN failed ELSE ~Success(write)
    IN /\ pc = "joining"
       /\ write # None => write.verdict # None
       /\ message' = id
       /\ failed' = stale
       /\ \/ /\ buffer = 0
             /\ pc' = "nothing" /\ write' = None
          \/ /\ buffer > 0 /\ buffer = sent /\ ~stale /\ id # None
             /\ pc' = "visible" /\ write' = None
          \/ /\ buffer > 0 /\ ~(buffer = sent /\ ~stale /\ id # None)
             /\ pc' = IF id # None THEN "editing" ELSE "sending"
             /\ BeginWrite(id, buffer)
       /\ UNCHANGED <<buffer, sent, started, screen, ghosts, overtaken>>

\* The last edit.  One that fails is followed by a message of its own.
LastEdit ==
    /\ pc = "editing"
    /\ write.verdict # None
    /\ IF Success(write) THEN pc' = "edited" /\ write' = None
       ELSE pc' = "sending" /\ BeginWrite(None, buffer)
    /\ UNCHANGED <<buffer, sent, started, failed, message, screen, ghosts, overtaken>>

LastSend ==
    /\ pc = "sending"
    /\ write.verdict # None
    /\ pc' = IF Success(write) THEN "replaced" ELSE "error"
    /\ message' = IF Success(write) /\ write.id # None THEN write.id ELSE message
    /\ write' = None
    /\ UNCHANGED <<buffer, sent, started, failed, screen, ghosts, overtaken>>

Drive == Join \/ LastEdit \/ LastSend

Next == (\E n \in Chunks : Chunk(n)) \/ Close \/ Call \/ GhostLands \/ Drive

Spec == Init /\ [][Next]_vars

-----------------------------------------------------------------------------
\* "The guaranteed final delivery": when stream_answer returns well the whole answer
\* is on the screen, in the message it names unless it was posted anew, whatever
\* was skipped, throttled or lost on the way.  The one thing that can undo it is
\* an edit that timed out and lands after a longer one.
AnswerDelivered ==
    ~overtaken =>
        /\ pc \in {"visible", "edited"} => screen[message] = buffer
        /\ pc = "replaced" => \E m \in Posted : screen[m] = buffer

=============================================================================

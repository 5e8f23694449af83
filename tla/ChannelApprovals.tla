-------------------------- MODULE ChannelApprovals --------------------------
(***************************************************************************)
(* Questions asked in a chat channel and answered by a tap there           *)
(* (hx-gateway/src/bridge.rs, telegram.rs), over the daemon's one queue.   *)
(* A run posts its question and then waits on the queue under the          *)
(* conversation as its scope; a driver takes the taps off the connector    *)
(* one at a time, each at most once, and routes them.  Other surfaces go   *)
(* on asking and answering beside the channel.                             *)
(*                                                                         *)
(* A conversation is a chat and a thread in it.  The platform is external: *)
(* a post that failed may be on the screen, and a button may be tapped     *)
(* late, or again.                                                         *)
(***************************************************************************)
EXTENDS ApprovalQueue, FiniteSets

CONSTANTS
    ChannelCeiling,   \* the ceiling the channel is configured with
    Chats, Threads,
    Main,             \* the thread of a chat that has no threads
    MaxTaps           \* bound: taps

VARIABLES
    post,      \* how far the run's ChannelApprover is with the question
    shown,     \* the platform: questions whose buttons are on the screen
    sent,      \* the platform: the taps that have not been polled
    taken,     \* history: how many taps there were
    driver,    \* the tap route has looked up and not yet answered
    via        \* history: the tap that answered the question

channelVars == <<post, shown, sent, taken, driver, via>>
allVars == <<vars, channelVars>>

Nobody == [risk |-> None, at |-> None, state |-> "none"]
Tap == [ask : Asks, from : Scopes, option : ApprovalOption]

ASSUME ChannelAssumption ==
    /\ ChannelCeiling \in RiskClass
    /\ Scopes = [chat : Chats, thread : Threads]
    /\ Main \in Threads
    /\ MaxTaps \in Nat
    /\ None \notin Tap

InitChannel ==
    /\ post = [a \in Asks |-> Nobody]
    /\ shown = {}
    /\ sent = {}
    /\ taken = 0
    /\ driver = None
    /\ via = [a \in Asks |-> None]

-----------------------------------------------------------------------------
(* ChannelApprover::decide: post, then wait.                               *)

\* ask_via refuses what the channel could not answer, before anything is posted.
AskVia(a, risk, at) ==
    /\ pc[a] = "idle"
    /\ post[a] = Nobody
    /\ post' = [post EXCEPT ![a] =
           [risk |-> risk, at |-> at,
            state |-> IF Covers(ChannelCeiling, risk) THEN "posting" ELSE "denied"]]
    /\ UNCHANGED <<vars, shown, sent, taken, driver, via>>

\* The connector's sendMessage reaches the chat ...
PostLands(a) ==
    /\ post[a].state = "posting"
    /\ shown' = shown \cup {a}
    /\ UNCHANGED <<vars, post, sent, taken, driver, via>>

\* ... and returns.  A question that could not be posted is denied at once.
PostReturns(a) ==
    /\ post[a].state = "posting"
    /\ \E state \in {"posted", "denied"} :
           /\ state = "posted" => a \in shown
           /\ post' = [post EXCEPT ![a].state = state]
    /\ UNCHANGED <<vars, shown, sent, taken, driver, via>>

\* await_answer: the wait begins, under the conversation as its scope.
AwaitAnswer(a) ==
    /\ post[a].state = "posted"
    /\ Park(a, post[a].risk, post[a].at)
    /\ UNCHANGED channelVars

-----------------------------------------------------------------------------
(* Taps.                                                                   *)

Arrives(tap) ==
    /\ taken < MaxTaps
    /\ taken' = taken + 1
    /\ sent' = sent \cup {tap}
    /\ UNCHANGED <<vars, post, shown, driver, via>>

\* Somebody presses a button.  A callback is read with its chat alone: poll
\* gives every tap the thread of a chat without threads.
PressButton(a, option) ==
    /\ a \in shown
    /\ Arrives([ask |-> a, option |-> option,
                from |-> [chat |-> post[a].at.chat, thread |-> Main]])

\* A webhook may name any question, as asked in any conversation.
NameQuestion(a, option, from) ==
    Arrives([ask |-> a, option |-> option, from |-> from])

\* Mutant of Outstanding: the question is looked up by its id alone, anywhere.
OutstandingAnywhere(tap) == tap.ask \in pending

\* The question the tap names, waiting in the conversation the tap came from.
Outstanding(tap) == tap.ask \in pending /\ asked[tap.ask].scope = tap.from

\* Mutant of MayRoute: the channel's ceiling must lie above the risk.
MayRouteBelow(tap) ==
    /\ ChannelCeiling > asked[tap.ask].risk
    /\ tap.option # "AllowAlways"

\* judge, and the one answer a channel may not give.
MayRoute(tap) ==
    /\ Covers(ChannelCeiling, asked[tap.ask].risk)
    /\ tap.option # "AllowAlways"

\* receive hands the driver one update, for good; route's checks come first.
Route(tap) ==
    /\ driver = None
    /\ tap \in sent
    /\ sent' = sent \ {tap}
    /\ driver' = IF Outstanding(tap) /\ MayRoute(tap) THEN tap ELSE None
    /\ UNCHANGED <<vars, post, shown, taken, via>>

\* The queue's own lock, taken a second time: by now the question may be gone.
RouteAnswer ==
    LET a == driver.ask
        result == AnswerResult(a, ChannelCeiling)
    IN /\ driver # None
       /\ driver' = None
       /\ via' = IF result = "Answered" THEN [via EXCEPT ![a] = driver] ELSE via
       /\ IF a \in pending /\ result # "AboveCeiling"
            THEN Answer(a, driver.option, ChannelCeiling)
            ELSE UNCHANGED vars
       /\ UNCHANGED <<post, shown, sent, taken>>

-----------------------------------------------------------------------------
\* What goes on beside the channel: runs that ask the queue directly, every
\* waiting run, and the surfaces that answer any question.
Elsewhere ==
    /\ \E a \in Asks :
           \/ /\ post[a] = Nobody
              /\ \E risk \in Risks, scope \in Scopes : Park(a, risk, scope)
           \/ DeadlinePasses(a)
           \/ Run(a)
           \/ \E option \in ApprovalOption, ceiling \in Ceilings : Answer(a, option, ceiling)
    /\ UNCHANGED channelVars

ChannelNext ==
    \/ \E a \in Asks :
           \/ \E risk \in Risks, at \in Scopes : AskVia(a, risk, at)
           \/ PostLands(a)
           \/ PostReturns(a)
           \/ AwaitAnswer(a)
           \/ \E option \in ApprovalOption :
                  \/ PressButton(a, option)
                  \/ \E from \in Scopes : NameQuestion(a, option, from)
    \/ \E tap \in sent : Route(tap)
    \/ RouteAnswer
    \/ Elsewhere

\* As the queue's; posting is under the HTTP client's timeout, and the driver
\* runs.  Nobody has to tap.
ChannelFairness ==
    /\ \A a \in Asks :
           /\ WF_vars(DeadlinePasses(a)) /\ WF_vars(Run(a))
           /\ WF_allVars(PostReturns(a)) /\ WF_allVars(AwaitAnswer(a))
    /\ WF_allVars(\E tap \in sent : Route(tap)) /\ WF_allVars(RouteAnswer)

ChannelSpec == Init /\ InitChannel /\ [][ChannelNext]_allVars /\ ChannelFairness

-----------------------------------------------------------------------------
Waits(a) == pc[a] = "parked" /\ a \notin due /\ acked[a] = None

\* "A tap on a phone resumes the run that asked": a press of a button, other than
\* the one for a permanent grant, that is taken up while the run waits passes the
\* checks, and once past them decides the question unless another answer or the
\* deadline came in between the two critical sections.
TapResumesTheRun ==
    [][/\ \A tap \in sent \ sent' :
              (/\ Waits(tap.ask)
               /\ tap.ask \in shown
               /\ tap.from = [chat |-> post[tap.ask].at.chat, thread |-> Main]
               /\ tap.option # "AllowAlways") => driver' = tap
       /\ driver # None /\ driver' = None /\ Waits(driver.ask) => via'[driver.ask] = driver]_allVars

\* "Only the channel that was asked, in the conversation it was asked in, counts":
\* whatever question and conversation a tap names, and whatever happens between the
\* lookup and the answer, the channel answers a question only from the conversation
\* its run waits in, within its ceiling, and never with a permanent grant.
OnlyItsOwnConversation ==
    \A a \in Asks :
        via[a] # None =>
            /\ via[a].from = asked[a].scope
            /\ Covers(ChannelCeiling, asked[a].risk)
            /\ via[a].option # "AllowAlways"
            /\ acked[a] = [option |-> via[a].option, ceiling |-> ChannelCeiling]

=============================================================================

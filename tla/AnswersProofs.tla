---------------------------- MODULE AnswersProofs ----------------------------
(***************************************************************************)
(* What a person away from the desk is asked, and answers: the queue, the  *)
(* questions in a chat and the pushes to a phone are safe for every set of *)
(* questions, scopes, chats and taps, and each keeps the promise; and an   *)
(* answer streamed to a chat arrives whole.                                *)
(***************************************************************************)
EXTENDS MCAnswers, FiniteSetTheorems, TLAPS

-----------------------------------------------------------------------------
(* ApprovalQueue                                                           *)

\* A step of the queue, whatever the risks asked about and the ceilings of the
\* surfaces that answer.
QueueStep ==
    \E a \in Asks :
        \/ \E risk \in RiskClass, scope \in Scopes : Park(a, risk, scope)
        \/ DeadlinePasses(a)
        \/ Run(a)
        \/ \E option \in ApprovalOption, ceiling \in RiskClass : Answer(a, option, ceiling)

LEMMA NextIsStep == Next => QueueStep
  BY OnTheLadder DEF Next, QueueStep

\* What holds of one ask at every step of its life.
AskInv(a) ==
    /\ pc[a] = "idle" => /\ asked[a] = None
                         /\ a \notin pending
                         /\ acked[a] = None
    /\ pc[a] # "idle" => asked[a] \in Request
    /\ pc[a] = "parked" => (a \in pending <=> acked[a] = None)
    /\ pc[a] = "done" => a \notin pending
    /\ chan[a] = acked[a]
    /\ acked[a] # None => /\ a \notin pending
                          /\ Covers(acked[a].ceiling, asked[a].risk)
    /\ pc[a] \in {"idle", "parked"} => waited[a] = None
    /\ waited[a] # None => waited[a] = acked[a]
    /\ pc[a] \in {"expired", "waited", "done"} /\ waited[a] = None => a \in due
    /\ pc[a] = "expired" => waited[a] = None
    /\ pc[a] = "done" => decision[a] = Outcome(waited[a])
    /\ pc[a] # "done" => decision[a] = None

\* The inductive invariant.
IInv == TypeOK /\ \A a \in Asks : AskInv(a)

LEMMA InitIInv == Init => IInv
  BY NoneIsNoValue DEF Init, IInv, TypeOK, AskInv

\* Every step keeps every variable in its type.
LEMMA TypeStep == IInv /\ [QueueStep]_vars => TypeOK'
  <1> SUFFICES ASSUME IInv, [QueueStep]_vars PROVE TypeOK'
    OBVIOUS
  <1>1. CASE UNCHANGED vars
    BY <1>1 DEF IInv, TypeOK, vars
  <1>2. CASE QueueStep
    <2>0. TypeOK
      BY DEF IInv
    <2> PICK a \in Asks :
            \/ \E risk \in RiskClass, scope \in Scopes : Park(a, risk, scope)
            \/ DeadlinePasses(a)
            \/ Run(a)
            \/ \E option \in ApprovalOption, ceiling \in RiskClass : Answer(a, option, ceiling)
      BY <1>2 DEF QueueStep
    <2>1. CASE \E risk \in RiskClass, scope \in Scopes : Park(a, risk, scope)
      BY <2>0, <2>1 DEF TypeOK, Park, Request
    <2>2. CASE DeadlinePasses(a)
      BY <2>0, <2>2 DEF TypeOK, DeadlinePasses
    <2>3. CASE Wake(a)
      BY <2>0, <2>3 DEF TypeOK, Wake
    <2>4. CASE Expire(a)
      BY <2>0, <2>4 DEF TypeOK, Expire
    <2>5. CASE DropReceiver(a)
      BY <2>0, <2>5 DEF TypeOK, DropReceiver
    <2>6. CASE Settle(a)
      <3>1. Outcome(waited[a]) \in Verdict
        BY <2>0 DEF TypeOK, Outcome, Verdict, Reply, ApprovalOption
      <3> QED
        BY <2>0, <2>6, <3>1 DEF TypeOK, Settle
    <2>7. CASE \E option \in ApprovalOption, ceiling \in RiskClass : Answer(a, option, ceiling)
      BY <2>0, <2>7 DEF TypeOK, Answer, Reply
    <2> QED
      BY <2>1, <2>2, <2>3, <2>4, <2>5, <2>6, <2>7 DEF Run
  <1> QED
    BY <1>1, <1>2

\* Every step keeps the per-ask invariant, of the ask that steps and, since no
\* action touches another ask's slot, of every other.
LEMMA AskStep == IInv /\ [QueueStep]_vars => \A b \in Asks : AskInv(b)'
  <1> SUFFICES ASSUME IInv, [QueueStep]_vars, NEW b \in Asks PROVE AskInv(b)'
    OBVIOUS
  <1>0. TypeOK /\ AskInv(b)
    BY DEF IInv
  <1>1. CASE UNCHANGED vars
    BY <1>0, <1>1 DEF AskInv, vars, Covers, Outcome
  <1>2. CASE QueueStep
    <2> PICK a \in Asks :
            \/ \E risk \in RiskClass, scope \in Scopes : Park(a, risk, scope)
            \/ DeadlinePasses(a)
            \/ Run(a)
            \/ \E option \in ApprovalOption, ceiling \in RiskClass : Answer(a, option, ceiling)
      BY <1>2 DEF QueueStep
    <2>1. ASSUME NEW risk \in RiskClass, NEW scope \in Scopes, Park(a, risk, scope)
          PROVE  AskInv(b)'
      BY <1>0, <2>1 DEF AskInv, TypeOK, Park, Request, Covers, Outcome
    <2>2. CASE DeadlinePasses(a)
      BY <1>0, <2>2 DEF AskInv, TypeOK, DeadlinePasses, Covers, Outcome
    <2>3. CASE Wake(a)
      BY <1>0, <2>3 DEF AskInv, TypeOK, Wake, Covers, Outcome
    <2>4. CASE Expire(a)
      BY <1>0, <2>4 DEF AskInv, TypeOK, Expire, Covers, Outcome
    <2>5. CASE DropReceiver(a)
      BY <1>0, <2>5 DEF AskInv, TypeOK, DropReceiver, Covers, Outcome
    <2>6. CASE Settle(a)
      BY <1>0, <2>6 DEF AskInv, TypeOK, Settle, Covers, Outcome
    <2>7. ASSUME NEW option \in ApprovalOption, NEW ceiling \in RiskClass, Answer(a, option, ceiling)
          PROVE  AskInv(b)'
      <3>1. [option |-> option, ceiling |-> ceiling] # None
        BY NoneIsNoValue DEF Reply
      <3> QED
        BY <1>0, <2>7, <3>1 DEF AskInv, TypeOK, Answer, ReceiverOpen, Covers, Outcome
    <2> QED
      BY <2>1, <2>2, <2>3, <2>4, <2>5, <2>6, <2>7 DEF Run
  <1> QED
    BY <1>1, <1>2

LEMMA IInvStep == IInv /\ [QueueStep]_vars => IInv'
  BY TypeStep, AskStep DEF IInv

LEMMA IInvAlways == Safety => []IInv
  BY InitIInv, IInvStep, NextIsStep, PTL DEF Safety

\* Every variable of the queue stays in its type, for every set of questions.
THEOREM TypeCorrect == Safety => []TypeOK
  <1>1. IInv => TypeOK
    BY DEF IInv
  <1> QED
    BY <1>1, IInvAlways, PTL

\* No run is told yes above the ceiling of the surface that said it, nor
\* without a surface having said it.
THEOREM CeilingHolds == Safety => []GrantWithinCeiling
  <1>1. IInv => GrantWithinCeiling
    BY NoneIsNoValue DEF IInv, TypeOK, AskInv, GrantWithinCeiling, Outcome, Allows, Covers
  <1> QED
    BY <1>1, IInvAlways, PTL

\* The list a client polls is exactly the questions it can still answer.
THEOREM ListingExact == Safety => []QueueShowsWhatWaits
  <1>1. IInv => QueueShowsWhatWaits
    BY DEF IInv, TypeOK, AskInv, QueueShowsWhatWaits
  <1> QED
    BY <1>1, IInvAlways, PTL

\* Neither an accepted answer nor a decision is ever replaced.
THEOREM FirstAnswerWins == Safety => FirstAnswerCounts
  <1> DEFINE Kept == \A a \in Asks :
                        /\ acked[a] # None => acked'[a] = acked[a]
                        /\ decision[a] # None => decision'[a] = decision[a]
  <1>1. IInv /\ [QueueStep]_vars => [Kept]_vars
    <2> SUFFICES ASSUME IInv, QueueStep, NEW b \in Asks
                 PROVE  /\ acked[b] # None => acked'[b] = acked[b]
                        /\ decision[b] # None => decision'[b] = decision[b]
      OBVIOUS
    <2>0. TypeOK /\ AskInv(b)
      BY DEF IInv
    <2> QED
      BY <2>0 DEF QueueStep, TypeOK, AskInv, Run, Park, DeadlinePasses, Wake, Expire,
                  DropReceiver, Settle, Answer
  <1> QED
    BY <1>1, IInvAlways, NextIsStep, PTL DEF Safety, FirstAnswerCounts

\* Every step of the queue is a step the promise allows, or none.
LEMMA PromiseStep == IInv /\ [QueueStep]_vars => [Promise!Next]_(Promise!vars)
  <1> SUFFICES ASSUME IInv, [QueueStep]_vars
               PROVE  [Promise!Next]_(Promise!vars)
    OBVIOUS
  <1>0. TypeOK /\ \A x \in Asks : AskInv(x)
    BY DEF IInv
  <1>1. CASE UNCHANGED vars
    BY <1>1 DEF vars, Promise!vars
  <1>2. CASE QueueStep
    <2> PICK a \in Asks :
            \/ \E risk \in RiskClass, scope \in Scopes : Park(a, risk, scope)
            \/ DeadlinePasses(a)
            \/ Run(a)
            \/ \E option \in ApprovalOption, ceiling \in RiskClass : Answer(a, option, ceiling)
      BY <1>2 DEF QueueStep
    <2>1. ASSUME NEW risk \in RiskClass, NEW scope \in Scopes, Park(a, risk, scope)
          PROVE  Promise!Ask(a, risk)
      <3>1. [risk |-> risk, scope |-> scope] # None
        BY NoneIsNoValue DEF Request
      <3> QED
        BY <1>0, <2>1, <3>1 DEF TypeOK, Park, Promise!Ask
    <2>2. CASE DeadlinePasses(a)
      BY <2>2 DEF DeadlinePasses, Promise!vars
    <2>3. CASE Wake(a)
      BY <1>0, <2>3 DEF TypeOK, Wake, Promise!vars
    <2>4. CASE Expire(a)
      BY <1>0, <2>4 DEF TypeOK, Expire, Promise!vars
    <2>5. CASE DropReceiver(a)
      BY <1>0, <2>5 DEF TypeOK, DropReceiver, Promise!vars
    <2>6. CASE Settle(a)
      <3>0. Outcome(waited[a]) # None
        <4>1. Outcome(waited[a]) \in Verdict
          BY <1>0 DEF TypeOK, Outcome, Verdict, Reply, ApprovalOption
        <4> QED
          BY <4>1, NoneIsNoValue
      <3>1. Promise!Close(a)
        BY <1>0, <2>6, <3>0 DEF TypeOK, AskInv, Settle, Outcome, Promise!Close
      <3> QED
        BY <3>1 DEF Promise!Next
    <2>7. ASSUME NEW option \in ApprovalOption, NEW ceiling \in RiskClass, Answer(a, option, ceiling)
          PROVE  [Promise!Next]_(Promise!vars)
      <3>1. CASE ReceiverOpen(a)
        <4> DEFINE o == [option |-> option, ceiling |-> ceiling]
        <4>1. o \in Promise!Offer
          BY DEF Promise!Offer, Promise!RiskClass, Promise!ApprovalOption, Promise!Read,
                 Promise!Privileged, RiskClass, ApprovalOption, Read, Privileged
        <4>2. Promise!Accept(a, o)
          BY <1>0, <2>7, <3>1, NoneIsNoValue
             DEF TypeOK, AskInv, Answer, ReceiverOpen, Promise!Accept, Promise!Entitled, Promise!Allows, Covers,
                 Promise!Covers, Request
        <4> QED
          BY <4>1, <4>2 DEF Promise!Next
      <3>2. CASE ~ReceiverOpen(a)
        BY <2>7, <3>2 DEF Answer, Promise!vars
      <3> QED
        BY <3>1, <3>2
    <2>8. ASSUME NEW risk \in RiskClass, NEW scope \in Scopes, Park(a, risk, scope)
          PROVE  Promise!Next
      BY <2>1, <2>8 DEF Promise!Next, RiskClass, Promise!RiskClass, Read, Privileged,
                        Promise!Read, Promise!Privileged
    <2> QED
      BY <2>2, <2>3, <2>4, <2>5, <2>6, <2>7, <2>8 DEF Run
  <1> QED
    BY <1>1, <1>2

LEMMA PromiseInit == Init => Promise!Init
  BY DEF Init, Promise!Init

\* Every question is closed once, by the first entitled answer or by a denial.
THEOREM KeepsThePromise == Safety => Promise!Safety
  BY PromiseInit, PromiseStep, NextIsStep, IInvAlways, PTL DEF Safety, Promise!Safety

-----------------------------------------------------------------------------
(* ChannelApprovals: the inductive invariant, in parts                     *)

Post == [risk : RiskClass \cup {None}, at : Scopes \cup {None},
         state : {"none", "posting", "posted", "denied"}]

ChannelTyped ==
    /\ post \in [Asks -> Post]
    /\ shown \in SUBSET Asks
    /\ sent \in SUBSET Tap
    /\ via \in [Asks -> Tap \cup {None}]

\* A question asked in a chat is within the channel's ceiling, and its run waits for
\* that very question in that very conversation.
PostInv(a) ==
    /\ post[a].state = "none" => post[a] = Nobody /\ a \notin shown
    /\ post[a].state # "none" => post[a].risk \in RiskClass /\ post[a].at \in Scopes
    /\ (post[a].state \in {"posting", "posted"} \/ a \in shown) => Covers(ChannelCeiling, post[a].risk)
    /\ post[a].state \in {"posting", "denied"} => pc[a] = "idle"
    /\ (post[a].state # "none" /\ pc[a] # "idle") =>
           asked[a] = [risk |-> post[a].risk, scope |-> post[a].at]

\* A tap in the driver's hands passed the checks, and still passes them.
DriverInv ==
    driver # None =>
        /\ driver \in Tap
        /\ pc[driver.ask] # "idle"
        /\ asked[driver.ask].scope = driver.from
        /\ MayRoute(driver)

\* A question a tap answered has been asked.
ViaInv == OnlyItsOwnConversation /\ \A a \in Asks : via[a] # None => pc[a] # "idle"

ChannelInv == IInv /\ ChannelTyped /\ (\A a \in Asks : PostInv(a)) /\ DriverInv /\ ViaInv

LEMMA ChannelInit == Init /\ InitChannel => ChannelInv
  <1> SUFFICES ASSUME Init, InitChannel PROVE ChannelInv
    OBVIOUS
  <1>1. ChannelTyped /\ \A a \in Asks : PostInv(a)
    BY DEF InitChannel, ChannelTyped, PostInv, Post, Nobody
  <1>2. DriverInv /\ ViaInv
    BY DEF InitChannel, DriverInv, ViaInv, OnlyItsOwnConversation
  <1> QED
    BY <1>1, <1>2, InitIInv DEF ChannelInv

\* What the queue's steps leave alone: an asked question stays as it was asked, and an
\* answered one as it was answered.
LEMMA QueueKeeps ==
    ASSUME IInv, [QueueStep]_vars, NEW b \in Asks
    PROVE  /\ pc[b] # "idle" => pc'[b] # "idle" /\ asked'[b] = asked[b]
           /\ acked[b] # None => acked'[b] = acked[b]
  <1>0. TypeOK /\ AskInv(b)
    BY DEF IInv
  <1>1. CASE UNCHANGED vars
    BY <1>1 DEF vars
  <1>2. CASE QueueStep
    BY <1>0, <1>2 DEF QueueStep, TypeOK, AskInv, Run, Park, DeadlinePasses, Wake, Expire,
                      DropReceiver, Settle, Answer
  <1> QED
    BY <1>1, <1>2

\* The channel does to the queue what any caller may.
LEMMA ChannelIsQueue ==
    ASSUME ChannelInv, [ChannelNext]_allVars
    PROVE  [QueueStep]_vars
  <1>1. CASE UNCHANGED allVars
    BY <1>1 DEF allVars
  <1>2. ASSUME NEW a \in Asks, AwaitAnswer(a) PROVE QueueStep
    <2>1. post[a].risk \in RiskClass /\ post[a].at \in Scopes /\ Park(a, post[a].risk, post[a].at)
      BY <1>2 DEF ChannelInv, PostInv, AwaitAnswer
    <2> QED
      BY <2>1 DEF QueueStep
  <1>3. CASE RouteAnswer
    <2>1. \/ UNCHANGED vars
          \/ driver \in Tap /\ Answer(driver.ask, driver.option, ChannelCeiling)
      BY <1>3 DEF RouteAnswer, ChannelInv, DriverInv
    <2> QED
      BY <2>1, ChannelAssumption DEF QueueStep, Tap
  <1>4. CASE Elsewhere
    BY <1>4, OnTheLadder DEF Elsewhere, QueueStep
  <1>5. ASSUME NEW a \in Asks,
               \/ \E risk \in Risks, at \in Scopes : AskVia(a, risk, at)
               \/ PostLands(a)
               \/ PostReturns(a)
               \/ \E option \in ApprovalOption :
                      \/ PressButton(a, option)
                      \/ \E from \in Scopes : NameQuestion(a, option, from)
        PROVE  UNCHANGED vars
    BY <1>5 DEF AskVia, PostLands, PostReturns, PressButton, NameQuestion, Arrives
  <1>6. ASSUME NEW tap \in sent, Route(tap) PROVE UNCHANGED vars
    BY <1>6 DEF Route
  <1> QED
    BY <1>1, <1>2, <1>3, <1>4, <1>5, <1>6 DEF ChannelNext

\* Steps of the queue under which no post moves keep the channel's part.
LEMMA QueueUnderChannel ==
    ASSUME ChannelInv, [QueueStep]_vars, UNCHANGED channelVars,
           \A a \in Asks : (pc[a] = "idle" /\ pc'[a] # "idle") =>
               \/ post[a] = Nobody
               \/ post[a].state = "posted" /\ asked'[a] = [risk |-> post[a].risk, scope |-> post[a].at]
    PROVE  ChannelInv'
  <1>1. IInv /\ IInv'
    BY IInvStep DEF ChannelInv
  <1>2. ChannelTyped'
    BY DEF ChannelInv, ChannelTyped, channelVars
  <1>3. \A a \in Asks : PostInv(a)'
    <2> SUFFICES ASSUME NEW a \in Asks PROVE PostInv(a)'
      OBVIOUS
    <2>1. post' = post /\ shown' = shown /\ PostInv(a) /\ Nobody.state = "none"
      BY DEF channelVars, ChannelInv, Nobody
    <2>2. CASE pc[a] # "idle"
      BY <1>1, <2>1, <2>2, QueueKeeps DEF PostInv, Nobody, Covers
    <2>3. CASE pc[a] = "idle"
      BY <2>1, <2>3 DEF PostInv, Nobody, Covers
    <2> QED
      BY <2>2, <2>3
  <1>4. DriverInv'
    <2> SUFFICES ASSUME driver # None
                 PROVE  /\ driver \in Tap /\ pc'[driver.ask] # "idle"
                        /\ asked'[driver.ask].scope = driver.from
                        /\ Covers(ChannelCeiling, asked'[driver.ask].risk) /\ driver.option # "AllowAlways"
      BY DEF channelVars, DriverInv, MayRoute, Covers
    <2>1. driver \in Tap /\ driver.ask \in Asks /\ pc[driver.ask] # "idle"
      BY DEF ChannelInv, DriverInv, Tap
    <2>2. pc'[driver.ask] # "idle" /\ asked'[driver.ask] = asked[driver.ask]
      BY <1>1, <2>1, QueueKeeps
    <2> QED
      BY <2>1, <2>2 DEF ChannelInv, DriverInv, MayRoute
  <1>5. ViaInv'
    <2> SUFFICES ASSUME NEW a \in Asks, via[a] # None
                 PROVE  /\ pc'[a] # "idle" /\ asked'[a] = asked[a] /\ acked'[a] = acked[a]
      BY DEF ChannelInv, ViaInv, OnlyItsOwnConversation, channelVars, Covers
    <2>1. pc[a] # "idle" /\ acked[a] # None
      <3>1. via[a] \in Tap
        BY DEF ChannelInv, ChannelTyped
      <3>2. [option |-> via[a].option, ceiling |-> ChannelCeiling] \in Reply
        BY <3>1, ChannelAssumption DEF Tap, Reply
      <3> QED
        BY <3>2, NoneIsNoValue DEF ChannelInv, ViaInv, OnlyItsOwnConversation
    <2> QED
      BY <1>1, <2>1, QueueKeeps
  <1> QED
    BY <1>1, <1>2, <1>3, <1>4, <1>5 DEF ChannelInv

\* A question asked in a chat, and what goes on beside the channel.
LEMMA ParkUnderChannel ==
    ASSUME ChannelInv, Elsewhere \/ \E a \in Asks : AwaitAnswer(a)
    PROVE  ChannelInv'
  <1>1. [QueueStep]_vars
    BY ChannelIsQueue DEF ChannelNext
  <1>2. UNCHANGED channelVars
    BY DEF Elsewhere, AwaitAnswer
  <1>3. TypeOK /\ \A a \in Asks : PostInv(a)
    BY DEF ChannelInv, IInv
  <1>4. ASSUME NEW a \in Asks, pc[a] = "idle", pc'[a] # "idle"
        PROVE  \/ post[a] = Nobody
               \/ post[a].state = "posted" /\ asked'[a] = [risk |-> post[a].risk, scope |-> post[a].at]
    <2>1. CASE Elsewhere
      BY <1>3, <1>4, <2>1 DEF Elsewhere, TypeOK, Park, DeadlinePasses, Run, Wake, Expire,
                              DropReceiver, Settle, Answer
    <2>2. CASE \E b \in Asks : AwaitAnswer(b)
      BY <1>3, <1>4, <2>2 DEF AwaitAnswer, TypeOK, Park
    <2> QED
      BY <2>1, <2>2
  <1> QED
    BY <1>1, <1>2, <1>4, QueueUnderChannel

\* Posting, pressing and polling: the queue is left alone.
LEMMA PostStep ==
    ASSUME ChannelInv, NEW a \in Asks,
           \/ \E risk \in Risks, at \in Scopes : AskVia(a, risk, at)
           \/ PostLands(a)
           \/ PostReturns(a)
    PROVE  ChannelInv'
  <1>1. UNCHANGED <<vars, sent, driver, via>>
    BY DEF AskVia, PostLands, PostReturns
  <1>2. IInv' /\ DriverInv' /\ ViaInv'
    BY <1>1, IInvStep DEF ChannelInv, vars, DriverInv, MayRoute, ViaInv, OnlyItsOwnConversation, Covers
  <1>3. SUFFICES ChannelTyped' /\ \A b \in Asks : PostInv(b)'
    BY <1>2 DEF ChannelInv
  <1>4. ASSUME NEW risk \in Risks, NEW at \in Scopes, AskVia(a, risk, at)
        PROVE  ChannelTyped' /\ \A b \in Asks : PostInv(b)'
    <2> DEFINE p == [risk |-> risk, at |-> at,
                     state |-> IF Covers(ChannelCeiling, risk) THEN "posting" ELSE "denied"]
    <2>1. /\ pc[a] = "idle" /\ post[a] = Nobody /\ post' = [post EXCEPT ![a] = p]
          /\ UNCHANGED <<shown, pc, asked>>
      BY <1>4 DEF AskVia, vars
    <2>2. p \in Post
      BY OnTheLadder DEF Post
    <2>3. ChannelTyped'
      BY <1>1, <2>1, <2>2 DEF ChannelInv, ChannelTyped
    <2>4. a \notin shown
      <3>1. post[a].state = "none"
        BY <2>1 DEF Nobody
      <3> QED
        BY <3>1 DEF ChannelInv, PostInv
    <2>5. PostInv(a)'
      BY <2>1, <2>2, <2>4, OnTheLadder DEF ChannelInv, ChannelTyped, PostInv, Covers
    <2>6. \A b \in Asks : b # a => PostInv(b)'
      BY <2>1 DEF ChannelInv, ChannelTyped, PostInv, Covers, Nobody
    <2> QED
      BY <2>3, <2>5, <2>6
  <1>5. CASE PostLands(a)
    BY <1>1, <1>5 DEF PostLands, ChannelInv, ChannelTyped, PostInv, Covers, Nobody, vars
  <1>6. CASE PostReturns(a)
    <2>1. PICK state \in {"posted", "denied"} : post' = [post EXCEPT ![a].state = state]
      BY <1>6 DEF PostReturns
    <2>2. post[a] \in Post /\ post[a].state = "posting" /\ UNCHANGED <<shown, pc, asked>>
      BY <1>6 DEF PostReturns, ChannelInv, ChannelTyped, vars
    <2>3. /\ post'[a] \in Post /\ post'[a].state = state
          /\ post'[a].risk = post[a].risk /\ post'[a].at = post[a].at
      BY <2>1, <2>2 DEF ChannelInv, ChannelTyped, Post
    <2>4. \A b \in Asks : b # a => post'[b] = post[b]
      BY <2>1 DEF ChannelInv, ChannelTyped
    <2>5. ChannelTyped'
      BY <1>1, <2>1, <2>2, <2>3 DEF ChannelInv, ChannelTyped
    <2>6. PostInv(a)'
      BY <2>2, <2>3 DEF ChannelInv, PostInv, Covers
    <2>7. \A b \in Asks : b # a => PostInv(b)'
      BY <2>2, <2>4 DEF ChannelInv, PostInv, Covers, Nobody
    <2> QED
      BY <2>5, <2>6, <2>7
  <1> QED
    BY <1>4, <1>5, <1>6

LEMMA TapStep ==
    ASSUME ChannelInv, NEW tap \in Tap, Arrives(tap)
    PROVE  ChannelInv'
  <1>1. UNCHANGED <<vars, post, shown, driver, via>> /\ sent' = sent \cup {tap}
    BY DEF Arrives
  <1>2. IInv' /\ DriverInv' /\ ViaInv'
    BY <1>1, IInvStep DEF ChannelInv, vars, DriverInv, MayRoute, ViaInv, OnlyItsOwnConversation, Covers
  <1>3. ChannelTyped' /\ \A b \in Asks : PostInv(b)'
    BY <1>1 DEF ChannelInv, vars, ChannelTyped, PostInv, Covers, Nobody
  <1> QED
    BY <1>2, <1>3 DEF ChannelInv

LEMMA RouteStep ==
    ASSUME ChannelInv, NEW tap \in sent, Route(tap)
    PROVE  ChannelInv'
  <1>1. /\ UNCHANGED <<vars, post, shown, via>> /\ sent' = sent \ {tap}
        /\ driver' = IF Outstanding(tap) /\ MayRoute(tap) THEN tap ELSE None
    BY DEF Route
  <1>2. IInv' /\ ViaInv'
    BY <1>1, IInvStep DEF ChannelInv, vars, ViaInv, OnlyItsOwnConversation, Covers
  <1>3. ChannelTyped' /\ \A b \in Asks : PostInv(b)'
    BY <1>1 DEF ChannelInv, vars, ChannelTyped, PostInv, Covers, Nobody
  <1>4. DriverInv'
    <2>1. tap \in Tap /\ tap.ask \in Asks
      BY DEF ChannelInv, ChannelTyped, Tap
    <2>2. tap.ask \in pending => pc[tap.ask] # "idle"
      BY <2>1 DEF ChannelInv, IInv, AskInv
    <2> QED
      BY <1>1, <2>1, <2>2 DEF DriverInv, Outstanding, MayRoute, Covers, vars
  <1> QED
    BY <1>2, <1>3, <1>4 DEF ChannelInv

\* The driver answers with the queue's lock taken again: what it looked up still holds.
LEMMA RouteAnswerStep ==
    ASSUME ChannelInv, RouteAnswer
    PROVE  /\ ChannelInv'
           /\ Waits(driver.ask) => via'[driver.ask] = driver
  <1> DEFINE a == driver.ask
             reply == [option |-> driver.option, ceiling |-> ChannelCeiling]
  <1>1. /\ driver # None /\ driver' = None /\ UNCHANGED <<post, shown, sent, taken>>
        /\ driver \in Tap /\ a \in Asks /\ driver.option \in ApprovalOption
        /\ pc[a] # "idle" /\ asked[a].scope = driver.from /\ MayRoute(driver)
    BY DEF RouteAnswer, ChannelInv, DriverInv, Tap
  <1>2. [QueueStep]_vars /\ IInv
    BY ChannelIsQueue DEF ChannelNext, ChannelInv
  <1>3. IInv' /\ TypeOK /\ AskInv(a)
    BY <1>1, <1>2, IInvStep DEF IInv
  <1>4. \A b \in Asks : pc'[b] = pc[b] /\ asked'[b] = asked[b]
    BY DEF RouteAnswer, Answer, vars
  <1>5. \/ UNCHANGED via
        \/ via' = [via EXCEPT ![a] = driver] /\ acked'[a] = reply
    <2>1. CASE AnswerResult(a, ChannelCeiling) = "Answered"
      <3>1. a \in pending /\ ReceiverOpen(a)
        BY <2>1 DEF AnswerResult
      <3>2. Answer(a, driver.option, ChannelCeiling) /\ via' = [via EXCEPT ![a] = driver]
        BY <2>1, <3>1 DEF RouteAnswer
      <3> QED
        BY <1>1, <1>3, <3>1, <3>2 DEF Answer, TypeOK
    <2>2. CASE AnswerResult(a, ChannelCeiling) # "Answered"
      BY <2>2 DEF RouteAnswer
    <2> QED
      BY <2>1, <2>2
  <1>6. ChannelTyped' /\ \A b \in Asks : PostInv(b)'
    BY <1>1, <1>4, <1>5 DEF ChannelInv, ChannelTyped, PostInv, Covers, Nobody
  <1>7. DriverInv'
    BY <1>1 DEF DriverInv
  <1>8. ViaInv'
    <2> SUFFICES ASSUME NEW b \in Asks, via'[b] # None
                 PROVE  /\ pc'[b] # "idle"
                        /\ via'[b].from = asked'[b].scope
                        /\ Covers(ChannelCeiling, asked'[b].risk)
                        /\ via'[b].option # "AllowAlways"
                        /\ acked'[b] = [option |-> via'[b].option, ceiling |-> ChannelCeiling]
      BY DEF ViaInv, OnlyItsOwnConversation, Covers
    <2>1. CASE b = a /\ via'[a] = driver /\ acked'[a] = reply
      BY <1>1, <1>4, <2>1 DEF MayRoute
    <2>2. CASE via'[b] = via[b]
      <3>1. /\ via[b].from = asked[b].scope /\ Covers(ChannelCeiling, asked[b].risk)
            /\ via[b].option # "AllowAlways" /\ pc[b] # "idle"
            /\ acked[b] = [option |-> via[b].option, ceiling |-> ChannelCeiling]
        BY <2>2 DEF ChannelInv, ViaInv, OnlyItsOwnConversation
      <3>2. via[b] \in Tap
        BY <2>2 DEF ChannelInv, ChannelTyped
      <3>3. acked[b] \in Reply
        BY <3>1, <3>2, ChannelAssumption DEF Tap, Reply
      <3>4. acked'[b] = acked[b]
        BY <1>2, <3>3, QueueKeeps, NoneIsNoValue
      <3> QED
        BY <1>4, <2>2, <3>1, <3>4
    <2> QED
      BY <1>1, <1>5, <2>1, <2>2 DEF ChannelInv, ChannelTyped
  <1>9. Waits(a) => via'[a] = driver
    <2> SUFFICES ASSUME Waits(a) PROVE via'[a] = driver
      OBVIOUS
    <2>1. a \in pending /\ ReceiverOpen(a)
      BY <1>3 DEF Waits, AskInv, ReceiverOpen
    <2>2. AnswerResult(a, ChannelCeiling) = "Answered"
      BY <1>1, <2>1 DEF AnswerResult, MayRoute
    <2> QED
      BY <1>1, <2>2 DEF RouteAnswer, ChannelInv, ChannelTyped
  <1> QED
    BY <1>3, <1>6, <1>7, <1>8, <1>9 DEF ChannelInv

\* A button's tap is one of the taps there can be.
LEMMA PressIsTap ==
    ASSUME ChannelInv, NEW a \in Asks, a \in shown, NEW option \in ApprovalOption
    PROVE  [ask |-> a, option |-> option,
            from |-> [chat |-> post[a].at.chat, thread |-> Main]] \in Tap
  <1>1. post[a].at \in Scopes
    BY DEF ChannelInv, PostInv
  <1>2. [chat |-> post[a].at.chat, thread |-> Main] \in Scopes
    BY <1>1, ChannelAssumption
  <1> QED
    BY <1>2 DEF Tap

LEMMA ChannelStep == ChannelInv /\ [ChannelNext]_allVars => ChannelInv'
  <1> SUFFICES ASSUME ChannelInv, [ChannelNext]_allVars PROVE ChannelInv'
    OBVIOUS
  <1>1. CASE UNCHANGED allVars
    <2>1. UNCHANGED vars /\ UNCHANGED channelVars
      BY <1>1 DEF allVars
    <2> QED
      BY <2>1, QueueUnderChannel DEF vars
  <1>2. ASSUME NEW a \in Asks,
               \/ \E risk \in Risks, at \in Scopes : AskVia(a, risk, at)
               \/ PostLands(a)
               \/ PostReturns(a)
        PROVE  ChannelInv'
    BY <1>2, PostStep
  <1>3. ASSUME NEW a \in Asks, NEW option \in ApprovalOption, PressButton(a, option)
        PROVE  ChannelInv'
    BY <1>3, PressIsTap, TapStep DEF PressButton
  <1>4. ASSUME NEW a \in Asks, NEW option \in ApprovalOption, NEW from \in Scopes,
               NameQuestion(a, option, from)
        PROVE  ChannelInv'
    <2>1. [ask |-> a, option |-> option, from |-> from] \in Tap
      BY DEF Tap
    <2> QED
      BY <1>4, <2>1, TapStep DEF NameQuestion
  <1>5. ASSUME NEW tap \in sent, Route(tap) PROVE ChannelInv'
    BY <1>5, RouteStep
  <1>6. CASE RouteAnswer
    BY <1>6, RouteAnswerStep
  <1>7. CASE Elsewhere \/ \E a \in Asks : AwaitAnswer(a)
    BY <1>7, ParkUnderChannel
  <1> QED
    BY <1>1, <1>2, <1>3, <1>4, <1>5, <1>6, <1>7 DEF ChannelNext

LEMMA ChannelInvAlways == ChannelSpec => []ChannelInv
  BY ChannelInit, ChannelStep, PTL DEF ChannelSpec

\* Whatever a tap names and whatever comes between the lookup and the answer, the channel
\* answers only in the conversation that was asked, within its ceiling (bridge.rs, route).
THEOREM OwnConversationHolds == ChannelSpec => []OnlyItsOwnConversation
  <1>1. ChannelInv => OnlyItsOwnConversation
    BY DEF ChannelInv, ViaInv
  <1> QED
    BY <1>1, ChannelInvAlways, PTL

\* With chats that answer, post and poll beside it, the queue still keeps the promise.
THEOREM ChannelKeepsThePromise == ChannelSpec => Promise!Safety
  <1>1. ChannelInv /\ [ChannelNext]_allVars => [Promise!Next]_(Promise!vars)
    BY ChannelIsQueue, PromiseStep DEF ChannelInv
  <1> QED
    BY <1>1, PromiseInit, ChannelInvAlways, PTL DEF ChannelSpec, Promise!Safety

\* In chats without threads, a press of a button taken up while the run waits passes the
\* checks, and decides unless another answer or the deadline came first (bridge.rs, route).
THEOREM TapResumes ==
    ASSUME Threads = {Main}
    PROVE  ChannelSpec => TapResumesTheRun
  <1> DEFINE Resumes ==
        /\ \A tap \in sent \ sent' :
               (/\ Waits(tap.ask)
                /\ tap.ask \in shown
                /\ tap.from = [chat |-> post[tap.ask].at.chat, thread |-> Main]
                /\ tap.option # "AllowAlways") => driver' = tap
        /\ driver # None /\ driver' = None /\ Waits(driver.ask) => via'[driver.ask] = driver
  <1>1. ChannelInv /\ [ChannelNext]_allVars => [Resumes]_allVars
    <2> SUFFICES ASSUME ChannelInv, ChannelNext PROVE Resumes
      OBVIOUS
    <2>1. CASE RouteAnswer
      BY <2>1, RouteAnswerStep DEF RouteAnswer
    <2>2. ASSUME NEW tap \in sent, Route(tap) PROVE Resumes
      <3>1. /\ driver = None /\ sent' = sent \ {tap}
            /\ driver' = IF Outstanding(tap) /\ MayRoute(tap) THEN tap ELSE None
        BY <2>2 DEF Route
      <3> SUFFICES ASSUME Waits(tap.ask), tap.ask \in shown, tap.option # "AllowAlways",
                          tap.from = [chat |-> post[tap.ask].at.chat, thread |-> Main]
                   PROVE  Outstanding(tap) /\ MayRoute(tap)
        BY <3>1
      <3>2. tap.ask \in Asks /\ AskInv(tap.ask) /\ PostInv(tap.ask)
        BY DEF ChannelInv, ChannelTyped, IInv, Tap
      <3>3. tap.ask \in pending /\ pc[tap.ask] # "idle"
        BY <3>2 DEF Waits, AskInv
      <3>4. /\ asked[tap.ask] = [risk |-> post[tap.ask].risk, scope |-> post[tap.ask].at]
            /\ post[tap.ask].at \in Scopes /\ Covers(ChannelCeiling, post[tap.ask].risk)
        BY <3>2, <3>3 DEF PostInv
      <3>5. post[tap.ask].at = tap.from
        BY <3>4, ChannelAssumption
      <3> QED
        BY <3>3, <3>4, <3>5 DEF Outstanding, MayRoute
    <2>3. ASSUME NEW a \in Asks,
                 \/ \E risk \in Risks, at \in Scopes : AskVia(a, risk, at)
                 \/ PostLands(a)
                 \/ PostReturns(a)
                 \/ AwaitAnswer(a)
                 \/ \E option \in ApprovalOption :
                        \/ PressButton(a, option)
                        \/ \E from \in Scopes : NameQuestion(a, option, from)
          PROVE  Resumes
      BY <2>3 DEF AskVia, PostLands, PostReturns, AwaitAnswer, PressButton, NameQuestion, Arrives, channelVars
    <2>4. CASE Elsewhere
      BY <2>4 DEF Elsewhere, channelVars
    <2> QED
      BY <2>1, <2>2, <2>3, <2>4 DEF ChannelNext
  <1> QED
    BY <1>1, ChannelInvAlways, PTL DEF ChannelSpec, TapResumesTheRun

-----------------------------------------------------------------------------
(* PhoneApprover                                                           *)

\* What holds of one push at every step of its life.
PushInv(a) ==
    /\ phonePc[a] = "idle" => a \notin waiting \cup delivered /\ phoneRisk[a] = None
    /\ phonePc[a] # "idle" => phoneRisk[a] \in Phone!RiskClass
    /\ a \in waiting => tapped[a] = None /\ phonePc[a] # "done"
    /\ tapped[a] # None => /\ phonePc[a] # "idle" /\ a \in delivered
                           /\ Phone!Allows(tapped[a]) => Phone!Covers(Phone!PHONE_CEILING, phoneRisk[a])
    /\ phoneChan[a] # None => phoneChan[a] = tapped[a]
    /\ (tapped[a] # None /\ a \notin late) => phoneChan[a] = tapped[a]
    /\ (tapped[a] # None /\ phonePc[a] \in {"pushing", "listening"}) => phoneChan[a] = tapped[a]
    /\ phonePc[a] \in {"idle", "pushing", "listening", "expired"} => phoneWaited[a] = None
    /\ phonePc[a] \in {"expired", "waited", "done"} =>
           \/ phoneWaited[a] # None /\ phoneWaited[a] = tapped[a]
           \/ phoneWaited[a] = None /\ a \in phoneDue /\ (tapped[a] = None \/ a \in late)
    /\ phonePc[a] = "done" => phoneDecision[a] = IF phoneWaited[a] = None THEN "Deny" ELSE phoneWaited[a]
    /\ phonePc[a] # "done" => phoneDecision[a] = None

PhoneInv == Phone!TypeOK /\ \A a \in Pushes : PushInv(a)

LEMMA PhoneInit == Phone!Init => PhoneInv /\ Phone!Promise!Init
  <1>1. Phone!Init => PhoneInv
    BY NoneIsNoValue DEF Phone!Init, PhoneInv, Phone!TypeOK, PushInv, Phone!Taps
  <1>2. Phone!Init => Phone!Promise!Init
    BY DEF Phone!Init, Phone!Promise!Init
  <1> QED
    BY <1>1, <1>2

LEMMA PhoneTypeStep == PhoneInv /\ [Phone!Next]_(Phone!vars) => Phone!TypeOK'
  <1> SUFFICES ASSUME PhoneInv, [Phone!Next]_(Phone!vars) PROVE Phone!TypeOK'
    OBVIOUS
  <1>0. Phone!TypeOK
    BY DEF PhoneInv
  <1>1. CASE UNCHANGED Phone!vars
    BY <1>0, <1>1 DEF Phone!vars, Phone!TypeOK
  <1>2. CASE Phone!Next
    <2> PICK a \in Pushes :
            \/ \E r \in Phone!RiskClass : Phone!Ask(a, r)
            \/ Phone!PushArrives(a) \/ Phone!PushReturns(a) \/ Phone!DeadlinePasses(a) \/ Phone!Run(a)
            \/ \E token \in Pushes, tap \in Phone!Taps : Phone!Respond(a, token, tap)
      BY <1>2 DEF Phone!Next
    <2>1. CASE \E r \in Phone!RiskClass : Phone!Ask(a, r)
      BY <1>0, <2>1 DEF Phone!TypeOK, Phone!Ask
    <2>2. CASE Phone!PushArrives(a) \/ Phone!PushReturns(a) \/ Phone!DeadlinePasses(a)
      BY <1>0, <2>2 DEF Phone!TypeOK, Phone!PushArrives, Phone!PushReturns, Phone!DeadlinePasses
    <2>3. CASE Phone!PushTimesOut(a) \/ Phone!Wake(a) \/ Phone!Expire(a) \/ Phone!DropReceiver(a)
      BY <1>0, <2>3 DEF Phone!TypeOK, Phone!PushTimesOut, Phone!Wake, Phone!Expire, Phone!DropReceiver
    <2>4. CASE Phone!Settle(a)
      BY <1>0, <2>4 DEF Phone!TypeOK, Phone!Settle, Phone!Taps
    <2>5. CASE \E token \in Pushes, tap \in Phone!Taps : Phone!Respond(a, token, tap)
      BY <1>0, <2>5 DEF Phone!TypeOK, Phone!Respond
    <2> QED
      BY <2>1, <2>2, <2>3, <2>4, <2>5 DEF Phone!Run
  <1> QED
    BY <1>1, <1>2

\* Every step keeps the invariant of the push that steps, and touches no other.
LEMMA PushStep == PhoneInv /\ [Phone!Next]_(Phone!vars) => \A b \in Pushes : PushInv(b)'
  <1> SUFFICES ASSUME PhoneInv, [Phone!Next]_(Phone!vars), NEW b \in Pushes PROVE PushInv(b)'
    OBVIOUS
  <1>0. Phone!TypeOK /\ PushInv(b)
    BY DEF PhoneInv
  <1>1. CASE UNCHANGED Phone!vars
    BY <1>0, <1>1 DEF Phone!vars, PushInv, Phone!Covers, Phone!Allows
  <1>2. CASE Phone!Next
    <2> PICK a \in Pushes :
            \/ \E r \in Phone!RiskClass : Phone!Ask(a, r)
            \/ Phone!PushArrives(a) \/ Phone!PushReturns(a) \/ Phone!DeadlinePasses(a) \/ Phone!Run(a)
            \/ \E token \in Pushes, tap \in Phone!Taps : Phone!Respond(a, token, tap)
      BY <1>2 DEF Phone!Next
    <2>1. CASE \E r \in Phone!RiskClass : Phone!Ask(a, r)
      BY <1>0, <2>1 DEF Phone!TypeOK, PushInv, Phone!Ask, Phone!Covers, Phone!Allows
    <2>2. CASE Phone!PushArrives(a)
      BY <1>0, <2>2 DEF Phone!TypeOK, PushInv, Phone!PushArrives, Phone!Covers, Phone!Allows
    <2>3. CASE Phone!PushReturns(a) \/ Phone!PushTimesOut(a)
      BY <1>0, <2>3 DEF Phone!TypeOK, PushInv, Phone!PushReturns, Phone!PushTimesOut, Phone!Covers, Phone!Allows
    <2>4. CASE Phone!DeadlinePasses(a)
      BY <1>0, <2>4 DEF Phone!TypeOK, PushInv, Phone!DeadlinePasses, Phone!Covers, Phone!Allows
    <2>5. CASE Phone!Wake(a)
      BY <1>0, <2>5 DEF Phone!TypeOK, PushInv, Phone!Wake, Phone!Covers, Phone!Allows
    <2>6. CASE Phone!Expire(a) \/ Phone!DropReceiver(a)
      BY <1>0, <2>6 DEF Phone!TypeOK, PushInv, Phone!Expire, Phone!DropReceiver, Phone!Covers, Phone!Allows
    <2>7. CASE Phone!Settle(a)
      BY <1>0, <2>7 DEF Phone!TypeOK, PushInv, Phone!Settle, Phone!Covers, Phone!Allows
    <2>8. ASSUME NEW token \in Pushes, NEW tap \in Phone!Taps, Phone!Respond(a, token, tap)
          PROVE  PushInv(b)'
      <3>1. tap # None
        BY NoneIsNoValue DEF Phone!Taps, ApprovalOption
      <3> QED
        BY <1>0, <2>8, <3>1 DEF Phone!TypeOK, PushInv, Phone!Respond, Phone!Covers, Phone!Allows
    <2> QED
      BY <2>1, <2>2, <2>3, <2>4, <2>5, <2>6, <2>7, <2>8 DEF Phone!Run
  <1> QED
    BY <1>1, <1>2

LEMMA PhoneInvAlways == Phone!Safety => []PhoneInv
  <1>1. PhoneInv /\ [Phone!Next]_(Phone!vars) => PhoneInv'
    BY PhoneTypeStep, PushStep DEF PhoneInv
  <1> QED
    BY <1>1, PhoneInit, PTL DEF Phone!Safety

\* A yes needs the question's own push and token and a risk within the phone's ceiling,
\* and a tap in time decides, even one during the push (phone.rs, respond and decide).
THEOREM TapDecides == Phone!Safety => []TapDecidesItsQuestion
  <1>1. PhoneInv => TapDecidesItsQuestion
    <2> SUFFICES ASSUME PhoneInv, NEW a \in Pushes
                 PROVE  /\ (phoneDecision[a] # None /\ Phone!Allows(phoneDecision[a])) =>
                               /\ a \in delivered /\ tapped[a] = phoneDecision[a]
                               /\ Phone!Covers(Phone!PHONE_CEILING, phoneRisk[a])
                        /\ (phonePc[a] = "done" /\ tapped[a] # None /\ a \notin late) =>
                               phoneDecision[a] = tapped[a]
      BY DEF TapDecidesItsQuestion, Phone!TapDecidesItsQuestion
    <2>1. PushInv(a)
      BY DEF PhoneInv
    <2> QED
      BY <2>1 DEF PushInv, Phone!Allows
  <1> QED
    BY <1>1, PhoneInvAlways, PTL

\* Every step of a push is a step the promise allows, or none: the phone, like the queue,
\* closes a question once, with the first entitled tap or with a denial (phone.rs, decide).
THEOREM PhoneKeepsThePromise == Phone!Safety => Phone!Promise!Safety
  <1>1. PhoneInv /\ [Phone!Next]_(Phone!vars) => [Phone!Promise!Next]_(Phone!Promise!vars)
    <2> SUFFICES ASSUME PhoneInv, [Phone!Next]_(Phone!vars)
                 PROVE  [Phone!Promise!Next]_(Phone!Promise!vars)
      OBVIOUS
    <2>0. Phone!TypeOK /\ \A x \in Pushes : PushInv(x)
      BY DEF PhoneInv
    <2>1. CASE UNCHANGED Phone!vars
      BY <2>1 DEF Phone!vars, Phone!Promise!vars
    <2>2. CASE Phone!Next
      <3> PICK a \in Pushes :
              \/ \E r \in Phone!RiskClass : Phone!Ask(a, r)
              \/ Phone!PushArrives(a) \/ Phone!PushReturns(a) \/ Phone!DeadlinePasses(a) \/ Phone!Run(a)
              \/ \E token \in Pushes, tap \in Phone!Taps : Phone!Respond(a, token, tap)
        BY <2>2 DEF Phone!Next
      <3>1. ASSUME NEW r \in Phone!RiskClass, Phone!Ask(a, r)
            PROVE  Phone!Promise!Next
        <4>1. Phone!Promise!Ask(a, r)
          BY <2>0, <3>1 DEF Phone!TypeOK, Phone!Ask, Phone!Promise!Ask
        <4> QED
          BY <4>1 DEF Phone!Promise!Next, Phone!RiskClass, Phone!Read, Phone!Privileged,
                      Phone!Promise!RiskClass, Phone!Promise!Read, Phone!Promise!Privileged
      <3>2. CASE Phone!PushArrives(a) \/ Phone!DeadlinePasses(a)
        BY <3>2 DEF Phone!PushArrives, Phone!DeadlinePasses, Phone!Promise!vars
      <3>3. CASE \/ Phone!PushReturns(a) \/ Phone!PushTimesOut(a) \/ Phone!Wake(a)
                 \/ Phone!Expire(a) \/ Phone!DropReceiver(a)
        BY <2>0, <3>3 DEF Phone!TypeOK, Phone!PushReturns, Phone!PushTimesOut, Phone!Wake, Phone!Expire,
                          Phone!DropReceiver, Phone!Promise!vars
      <3>4. CASE Phone!Settle(a)
        <4>1. \A tap \in Phone!Taps : [option |-> tap, ceiling |-> Phone!PHONE_CEILING] # None
          <5>1. \A tap \in Phone!Taps : [option |-> tap, ceiling |-> Phone!PHONE_CEILING] \in Reply
            BY DEF Phone!Taps, Phone!PHONE_CEILING, Phone!External, Reply, ApprovalOption, RiskClass, Read,
                   Privileged
          <5> QED
            BY <5>1, NoneIsNoValue
        <4>2. ASSUME phoneWaited[a] = None PROVE Phone!Promise!Close(a)
          BY <2>0, <3>4, <4>2 DEF Phone!TypeOK, Phone!Settle, Phone!Promise!Close
        <4>3. ASSUME phoneWaited[a] # None PROVE Phone!Promise!Close(a)
          <5>1. phoneWaited[a] = tapped[a] /\ tapped[a] \in Phone!Taps
            BY <2>0, <3>4, <4>3 DEF Phone!TypeOK, PushInv, Phone!Settle
          <5> QED
            BY <2>0, <3>4, <4>1, <4>3, <5>1 DEF Phone!TypeOK, Phone!Settle, Phone!Promise!Close
        <4>4. Phone!Promise!Close(a)
          BY <4>2, <4>3
        <4> QED
          BY <4>4 DEF Phone!Promise!Next
      <3>5. ASSUME NEW token \in Pushes, NEW tap \in Phone!Taps, Phone!Respond(a, token, tap)
            PROVE  Phone!Promise!Next
        <4> DEFINE o == [option |-> tap, ceiling |-> Phone!PHONE_CEILING]
        <4>1. o \in Phone!Promise!Offer /\ tap # None
          BY NoneIsNoValue
             DEF ApprovalOption, Phone!Taps, Phone!PHONE_CEILING, Phone!External, Phone!Promise!Offer, Phone!Promise!RiskClass,
                 Phone!Promise!ApprovalOption, Phone!Promise!Read, Phone!Promise!Privileged
        <4>2. Phone!Promise!Accept(a, o)
          BY <2>0, <3>5, <4>1
             DEF Phone!TypeOK, PushInv, Phone!Respond, Phone!Promise!Accept, Phone!Promise!Entitled,
                 Phone!Promise!Allows, Phone!Allows, Phone!Covers, Phone!Promise!Covers
        <4> QED
          BY <4>1, <4>2 DEF Phone!Promise!Next
      <3> QED
        BY <3>1, <3>2, <3>3, <3>4, <3>5 DEF Phone!Run
    <2> QED
      BY <2>1, <2>2
  <1> QED
    BY <1>1, PhoneInit, PhoneInvAlways, PTL DEF Phone!Safety, Phone!Promise!Safety

-----------------------------------------------------------------------------
(* AnswerStream                                                            *)

\* The longest text a call may have carried so far.
Longest == IF answerPc \in {"streaming", "joining", "visible"} THEN written ELSE buffer

\* Telegram numbers its messages from one, and a call names one it has posted.
ScreenInv ==
    /\ \E n \in Nat : Telegram!Posted = 1..n
    /\ screen \in [Telegram!Posted -> Nat]
    /\ buffer \in Nat /\ written \in Nat /\ written <= buffer
    /\ message \in Telegram!Posted \cup {None}
    /\ \A g \in ghosts :
           /\ g = [to |-> g.to, text |-> g.text]
           /\ g.to \in Telegram!Posted \cup {None}
           /\ g.text \in Nat /\ g.text <= Longest

\* The write under way carries all there is to carry, to the message there is; and
\* once accepted it is on the screen, unless an unanswered edit undid it.
WriteInv ==
    /\ write \in Telegram!Write \cup {None}
    /\ answerPc \in {"editing", "sending"} => write # None
    /\ answerPc \in {"streaming", "joining"} /\ write = None => message = None
    /\ write # None =>
           /\ answerPc \in {"streaming", "joining", "editing", "sending"}
           /\ write.to \in Telegram!Posted \cup {None}
           /\ write.id \in Telegram!Posted \cup {None}
           /\ write.to = IF answerPc = "sending" THEN None ELSE message
           /\ answerPc = "editing" => message # None
           /\ write.text = Longest
           /\ ~overtaken /\ write.verdict = "accepted" =>
                  /\ write.to # None => screen[write.to] = write.text
                  /\ write.id # None => screen[write.id] = write.text
                  /\ \E m \in Telegram!Posted : screen[m] = write.text

\* What the ways to end well rest on.
EndInv ==
    /\ answerPc \in {"visible", "edited"} =>
           /\ message # None
           /\ ~overtaken => screen[message] = buffer
    /\ answerPc = "visible" => written = buffer
    /\ answerPc = "replaced" /\ ~overtaken => \E m \in Telegram!Posted : screen[m] = buffer

AnswerInv == ScreenInv /\ WriteInv /\ EndInv

\* The message a call that names `to` puts its text in.
Target(to) == IF to = None THEN Telegram!Fresh ELSE to

\* What landing does: the text is in its target, every other message keeps its own,
\* and what a send posts was not there before.
LEMMA LandedFacts ==
  ASSUME ScreenInv, NEW to \in Telegram!Posted \cup {None}, NEW text \in Nat
  PROVE  LET S == Telegram!Landed(to, text) IN
         /\ \E n \in Nat : DOMAIN S = 1..n
         /\ S \in [DOMAIN S -> Nat]
         /\ Telegram!Posted \subseteq DOMAIN S
         /\ Target(to) \in DOMAIN S
         /\ S[Target(to)] = text
         /\ to = None => Target(to) \notin Telegram!Posted
         /\ \A m \in Telegram!Posted : m # Target(to) => S[m] = screen[m]
  <1> PICK n \in Nat : Telegram!Posted = 1..n
    BY DEF ScreenInv
  <1>1. Telegram!Fresh = n + 1
    <2>1. Telegram!Cardinality(1..n) = Cardinality(1..n)
      BY Zenon DEF Telegram!Cardinality, Cardinality
    <2>2. Cardinality(1..n) = n
      BY FS_Interval
    <2> QED
      BY <2>1, <2>2 DEF Telegram!Fresh
  <1>2. None \notin 1..n
    BY AnswersAssumption
  <1> DEFINE S == Telegram!Landed(to, text)
  <1>3. S = [m \in (1..n) \cup {Target(to)} |-> IF m = Target(to) THEN text ELSE screen[m]]
    BY DEF Telegram!Landed, Target
  <1>4. screen \in [1..n -> Nat]
    BY DEF ScreenInv
  <1>5. CASE to = None
    <2>1. Target(to) = n + 1
      BY <1>1, <1>5 DEF Target
    <2>2. DOMAIN S = 1..(n + 1)
      BY <1>3, <2>1
    <2> HIDE DEF S
    <2> QED
      BY <1>3, <1>4, <2>1, <2>2 DEF S
  <1>6. CASE to # None
    <2>1. Target(to) = to /\ to \in 1..n
      BY <1>6 DEF Target
    <2>2. DOMAIN S = 1..n
      BY <1>3, <2>1
    <2> HIDE DEF S
    <2> QED
      BY <1>3, <1>4, <1>6, <2>1, <2>2 DEF S
  <1> QED
    BY <1>5, <1>6

LEMMA AnswerInit == Telegram!Init => AnswerInv
  <1> SUFFICES ASSUME Telegram!Init PROVE AnswerInv
    OBVIOUS
  <1>1. Telegram!Posted = {} /\ {} = 1..0
    BY DEF Telegram!Init, Telegram!Posted
  <1>2. screen \in [Telegram!Posted -> Nat]
    BY DEF Telegram!Init, Telegram!Posted
  <1> QED
    BY <1>1, <1>2 DEF Telegram!Init, AnswerInv, ScreenInv, WriteInv, EndInv, Longest

\* A write that begins is a write with no verdict yet.
LEMMA BeginFacts ==
  ASSUME NEW to \in Nat \cup {None}, NEW text \in Nat, Telegram!BeginWrite(to, text)
  PROVE  /\ write' \in Telegram!Write /\ write' # None
         /\ write'.to = to /\ write'.text = text /\ write'.id = None /\ write'.verdict # "accepted"
  BY AnswersAssumption DEF Telegram!BeginWrite, Telegram!Write, Telegram!Verdicts

LEMMA ChunkKeeps == ASSUME AnswerInv, NEW n \in Chunks, Telegram!Chunk(n) PROVE AnswerInv'
  <1> DEFINE grown == buffer + n
             reaped == write # None /\ write.verdict # None
             id == IF reaped THEN Telegram!MessageAfter(write) ELSE message
  <1>0. n \in Nat /\ None \notin Nat /\ None \notin Telegram!Write
    BY AnswersAssumption
  <1>1. /\ answerPc = "streaming" /\ answerPc' = "streaming"
        /\ buffer' = grown
        /\ screen' = screen /\ ghosts' = ghosts /\ overtaken' = overtaken
    BY DEF Telegram!Chunk
  <1>2. Telegram!Posted' = Telegram!Posted /\ Telegram!Posted \subseteq Nat
    BY <1>1 DEF Telegram!Posted, AnswerInv, ScreenInv
  <1>3. id \in Telegram!Posted \cup {None}
    BY DEF AnswerInv, ScreenInv, WriteInv, Telegram!MessageAfter
  <1>4. \/ written' = written /\ message' = message /\ write' = write
        \/ message' = id /\ written' = grown /\ Telegram!BeginWrite(id, grown)
        \/ message' = id /\ written' = written /\ write' = write /\ ~reaped
        \/ message' = id /\ written' = written /\ write' = None /\ id = None
    BY DEF Telegram!Chunk, Telegram!SkipFlush
  <1>5. grown \in Nat /\ written <= grown /\ written \in Nat
    BY <1>0 DEF AnswerInv, ScreenInv
  <1>6. CASE message' = id /\ written' = grown /\ Telegram!BeginWrite(id, grown)
    <2>1. /\ write' \in Telegram!Write /\ write' # None
          /\ write'.to = id /\ write'.text = grown /\ write'.id = None /\ write'.verdict # "accepted"
      BY <1>2, <1>3, <1>5, <1>6, BeginFacts
    <2>2. ScreenInv'
      BY <1>1, <1>2, <1>3, <1>5, <1>6 DEF AnswerInv, ScreenInv, Longest
    <2>3. WriteInv'
      BY <1>1, <1>2, <1>3, <1>6, <2>1 DEF AnswerInv, WriteInv, Longest
    <2>4. EndInv'
      BY <1>1 DEF EndInv
    <2> QED
      BY <2>2, <2>3, <2>4 DEF AnswerInv
  <1>7. CASE message' = message /\ written' = written /\ write' = write
    <2>1. ScreenInv'
      BY <1>1, <1>2, <1>5, <1>7 DEF AnswerInv, ScreenInv, Longest
    <2>2. WriteInv' /\ EndInv'
      BY <1>1, <1>2, <1>7 DEF AnswerInv, WriteInv, EndInv, Longest
    <2> QED
      BY <2>1, <2>2 DEF AnswerInv
  <1>8. CASE message' = None /\ written' = written /\ write' = None
    <2>1. ScreenInv'
      BY <1>1, <1>2, <1>5, <1>8 DEF AnswerInv, ScreenInv, Longest
    <2>2. WriteInv' /\ EndInv'
      BY <1>1, <1>2, <1>8 DEF AnswerInv, WriteInv, EndInv, Longest
    <2> QED
      BY <2>1, <2>2 DEF AnswerInv
  <1> QED
    BY <1>4, <1>6, <1>7, <1>8

LEMMA CloseKeeps == ASSUME AnswerInv, Telegram!Close PROVE AnswerInv'
  <1>1. /\ answerPc = "streaming" /\ answerPc' = "joining"
        /\ buffer' = buffer /\ written' = written /\ message' = message /\ write' = write
        /\ screen' = screen /\ ghosts' = ghosts /\ overtaken' = overtaken
    BY DEF Telegram!Close
  <1>2. ScreenInv'
    BY <1>1 DEF AnswerInv, ScreenInv, Longest, Telegram!Posted
  <1>3. WriteInv' /\ EndInv'
    BY <1>1 DEF AnswerInv, WriteInv, EndInv, Longest, Telegram!Posted
  <1> QED
    BY <1>2, <1>3 DEF AnswerInv

\* A call that lands where the write under way points, accepted or not.
LEMMA CallKeeps == ASSUME AnswerInv, Telegram!Call PROVE AnswerInv'
  <1>1. /\ write # None /\ write.verdict = None
        /\ buffer' = buffer /\ written' = written /\ message' = message
        /\ answerPc' = answerPc /\ overtaken' = overtaken
    BY DEF Telegram!Call
  <1>2. /\ write \in Telegram!Write
        /\ write.to \in Telegram!Posted \cup {None} /\ write.text \in Nat
        /\ Telegram!Posted \subseteq Nat
    BY <1>1 DEF AnswerInv, ScreenInv, WriteInv, Telegram!Write
  <1>3. answerPc \in {"streaming", "joining", "editing", "sending"}
    BY <1>1 DEF AnswerInv, WriteInv
  <1> DEFINE V == Telegram!Verdicts \cup {None}
             N == Nat \cup {None}
  <1>4. Telegram!Write = [to : N, text : Nat, calls : Nat, verdict : V, id : N]
    BY DEF Telegram!Write
  <1>5. V = Telegram!Verdicts \cup {None} /\ N = Nat \cup {None}
    OBVIOUS
  <1> HIDE DEF V, N
  <1> DEFINE S == Telegram!Landed(write.to, write.text)
  <1>6. /\ \E n \in Nat : DOMAIN S = 1..n
        /\ S \in [DOMAIN S -> Nat]
        /\ Telegram!Posted \subseteq DOMAIN S
        /\ Target(write.to) \in DOMAIN S
        /\ S[Target(write.to)] = write.text
    BY <1>2, LandedFacts DEF AnswerInv
  <1> HIDE DEF S
  <1>7. ASSUME screen' = S \/ screen' = screen,
               \/ ghosts' = ghosts
               \/ ghosts' = ghosts \cup {[to |-> write.to, text |-> write.text]}
        PROVE  ScreenInv' /\ Telegram!Posted \subseteq Telegram!Posted'
    <2>1. Telegram!Posted \subseteq Telegram!Posted'
      BY <1>6, <1>7 DEF Telegram!Posted
    <2>2. (\E n \in Nat : Telegram!Posted' = 1..n) /\ screen' \in [Telegram!Posted' -> Nat]
      BY <1>6, <1>7 DEF Telegram!Posted, AnswerInv, ScreenInv
    <2>3. Longest' = Longest
      BY <1>1 DEF Longest
    <2>4. write.text <= Longest
      BY <1>1, <1>2 DEF AnswerInv, WriteInv
    <2>5. \A g \in ghosts' :
              /\ g = [to |-> g.to, text |-> g.text]
              /\ g.to \in Telegram!Posted \cup {None}
              /\ g.text \in Nat /\ g.text <= Longest
      BY <1>2, <1>7, <2>4 DEF AnswerInv, ScreenInv
    <2> QED
      BY <1>1, <2>1, <2>2, <2>3, <2>5 DEF AnswerInv, ScreenInv
  <1>8. ASSUME Telegram!Posted \subseteq Telegram!Posted',
               write' \in Telegram!Write,
               write'.to = write.to, write'.text = write.text,
               write'.id \in Telegram!Posted' \cup {None},
               write'.verdict = "accepted" =>
                   /\ write.to # None => screen'[write.to] = write.text
                   /\ write'.id # None => screen'[write'.id] = write.text
                   /\ \E m \in Telegram!Posted' : screen'[m] = write.text
        PROVE  WriteInv' /\ EndInv'
    <2>1. write' # None
      BY <1>8, AnswersAssumption
    <2>2. EndInv'
      BY <1>1, <1>3 DEF EndInv
    <2> QED
      BY <1>1, <1>2, <1>3, <1>8, <2>1, <2>2 DEF AnswerInv, WriteInv, Longest
  <1>9. CASE Telegram!CallAccepted
    <2>1. PICK id \in {None, Telegram!Fresh} :
              write' = [write EXCEPT !.calls = @ + 1, !.verdict = "accepted",
                                     !.id = IF write.to = None THEN id ELSE None]
      BY <1>9 DEF Telegram!CallAccepted
    <2>2. screen' = S /\ ghosts' = ghosts
      BY <1>9 DEF Telegram!CallAccepted, S
    <2>3. ScreenInv' /\ Telegram!Posted \subseteq Telegram!Posted'
      BY <1>7, <2>2
    <2>4. Telegram!Posted' = DOMAIN S
      BY <2>2 DEF Telegram!Posted
    <2>5. /\ write'.to = write.to /\ write'.text = write.text
          /\ write'.id \in {None, Target(write.to)}
      BY <1>2, <2>1 DEF Telegram!Write, Target
    <2>6. write' \in Telegram!Write
      <3>1. write.to = None => Telegram!Fresh \in Nat
        BY <1>6 DEF Target
      <3> DEFINE i == IF write.to = None THEN id ELSE None
      <3>2. i \in N /\ "accepted" \in V /\ write.calls + 1 \in Nat
        BY <1>2, <1>4, <1>5, <3>1 DEF Telegram!Verdicts
      <3> HIDE DEF i
      <3>3. write' = [write EXCEPT !.calls = @ + 1, !.verdict = "accepted", !.id = i]
        BY <2>1 DEF i
      <3> QED
        BY <1>2, <1>4, <3>2, <3>3
    <2>7. /\ write.to # None => screen'[write.to] = write.text
          /\ write'.id # None => screen'[write'.id] = write.text
          /\ \E m \in Telegram!Posted' : screen'[m] = write.text
      BY <1>6, <2>2, <2>4, <2>5 DEF Target
    <2>8. write'.id \in Telegram!Posted' \cup {None}
      BY <1>6, <2>4, <2>5
    <2> QED
      BY <1>8, <2>3, <2>5, <2>6, <2>7, <2>8 DEF AnswerInv
  <1>10. CASE Telegram!CallTurnedDown \/ Telegram!CallUnanswered
    <2>1. PICK v \in {None, "retry", "refused"} :
              write' = [write EXCEPT !.calls = @ + 1, !.verdict = v]
      BY <1>10 DEF Telegram!CallTurnedDown, Telegram!CallUnanswered, Telegram!NextStep
    <2>2. /\ screen' = S \/ screen' = screen
          /\ \/ ghosts' = ghosts
             \/ ghosts' = ghosts \cup {[to |-> write.to, text |-> write.text]}
      BY <1>10 DEF Telegram!CallTurnedDown, Telegram!CallUnanswered, S
    <2>3. ScreenInv' /\ Telegram!Posted \subseteq Telegram!Posted'
      BY <1>7, <2>2
    <2>4. /\ write' \in Telegram!Write
          /\ write'.to = write.to /\ write'.text = write.text /\ write'.id = write.id
          /\ write'.verdict = v /\ v # "accepted"
      <3>1. v \in V /\ v # "accepted" /\ write.calls + 1 \in Nat
        BY <1>2, <1>4, <1>5, AnswersAssumption DEF Telegram!Verdicts
      <3> QED
        BY <1>2, <1>4, <2>1, <3>1
    <2>5. write'.id \in Telegram!Posted' \cup {None}
      BY <1>1, <2>3, <2>4 DEF AnswerInv, WriteInv
    <2> QED
      BY <1>8, <2>3, <2>4, <2>5 DEF AnswerInv
  <1> QED
    BY <1>9, <1>10 DEF Telegram!Call

\* A call that lands late carries no more than what was written since: where it puts
\* less, that is what `overtaken` records.
LEMMA GhostKeeps == ASSUME AnswerInv, Telegram!GhostLands PROVE AnswerInv'
  <1>1. PICK g \in ghosts :
            /\ screen' = Telegram!Landed(g.to, g.text)
            /\ ghosts' = ghosts \ {g}
            /\ overtaken' = (overtaken \/ (g.to # None /\ screen[g.to] > g.text))
    BY DEF Telegram!GhostLands
  <1>2. /\ buffer' = buffer /\ written' = written /\ message' = message /\ write' = write
        /\ answerPc' = answerPc
    BY DEF Telegram!GhostLands
  <1>3. /\ g.to \in Telegram!Posted \cup {None} /\ g.text \in Nat /\ g.text <= Longest
        /\ Longest \in Nat
    BY DEF AnswerInv, ScreenInv, Longest
  <1> DEFINE S == Telegram!Landed(g.to, g.text)
  <1>4. /\ \E n \in Nat : DOMAIN S = 1..n
        /\ S \in [DOMAIN S -> Nat]
        /\ Telegram!Posted \subseteq DOMAIN S
        /\ S[Target(g.to)] = g.text
        /\ g.to = None => Target(g.to) \notin Telegram!Posted
        /\ \A m \in Telegram!Posted : m # Target(g.to) => S[m] = screen[m]
    BY <1>3, LandedFacts DEF AnswerInv
  <1> HIDE DEF S
  <1>5. screen' = S /\ Telegram!Posted' = DOMAIN S
    BY <1>1 DEF S, Telegram!Posted
  <1>6. Longest' = Longest
    BY <1>2 DEF Longest
  <1>7. ScreenInv'
    BY <1>1, <1>2, <1>4, <1>5, <1>6 DEF AnswerInv, ScreenInv
  <1>8. ASSUME ~overtaken'
        PROVE  ~overtaken /\ ~(g.to # None /\ screen[g.to] > g.text)
    BY Zenon, <1>1, <1>8
  <1>9. ASSUME ~overtaken', NEW m \in Telegram!Posted, screen[m] = Longest
        PROVE  screen'[m] = Longest
    <2>1. CASE m # Target(g.to)
      BY <1>4, <1>5, <1>9, <2>1
    <2>2. CASE m = Target(g.to)
      <3>1. g.to = m
        BY <1>4, <2>2 DEF Target
      <3>2. g.to # None
        BY <1>4, <2>2 DEF Target
      <3>3. ~(screen[m] > g.text)
        BY <1>8, <1>9, <3>1, <3>2
      <3>4. g.text = Longest
        BY <1>3, <1>9, <3>3
      <3> QED
        BY <1>4, <1>5, <2>2, <3>4
    <2> QED
      BY <2>1, <2>2
  <1>10. WriteInv'
    <2>1. ASSUME write # None
          PROVE  /\ write.to \in Telegram!Posted' \cup {None}
                 /\ write.id \in Telegram!Posted' \cup {None}
                 /\ ~overtaken' /\ write.verdict = "accepted" =>
                        /\ write.to # None => screen'[write.to] = write.text
                        /\ write.id # None => screen'[write.id] = write.text
                        /\ \E m \in Telegram!Posted' : screen'[m] = write.text
      <3>1. write.text = Longest
        BY <2>1 DEF AnswerInv, WriteInv
      <3> QED
        BY <1>4, <1>5, <1>8, <1>9, <2>1, <3>1 DEF AnswerInv, WriteInv
    <2> QED
      BY <1>2, <1>6, <2>1 DEF AnswerInv, WriteInv
  <1>11. EndInv'
    <2>1. ASSUME answerPc \in {"visible", "edited", "replaced"} PROVE Longest = buffer
      BY <2>1 DEF AnswerInv, EndInv, Longest
    <2>2. ASSUME answerPc \in {"visible", "edited"}, ~overtaken' PROVE screen'[message] = buffer
      <3>1. message \in Telegram!Posted
        BY <2>2 DEF AnswerInv, EndInv, ScreenInv
      <3> QED
        BY <1>8, <1>9, <2>1, <2>2, <3>1 DEF AnswerInv, EndInv
    <2>3. ASSUME answerPc = "replaced", ~overtaken'
          PROVE  \E m \in Telegram!Posted' : screen'[m] = buffer
      <3>1. PICK m \in Telegram!Posted : screen[m] = buffer
        BY <1>8, <2>3 DEF AnswerInv, EndInv
      <3> QED
        BY <1>4, <1>5, <1>9, <2>1, <2>3, <3>1
    <2> QED
      BY <1>2, <2>2, <2>3 DEF AnswerInv, EndInv
  <1> QED
    BY <1>7, <1>10, <1>11 DEF AnswerInv

LEMMA JoinKeeps == ASSUME AnswerInv, Telegram!Join PROVE AnswerInv'
  <1> DEFINE id == IF write = None THEN message ELSE Telegram!MessageAfter(write)
             stale == IF write = None THEN failed ELSE ~Telegram!Success(write)
  <1>0. None \notin Nat /\ None \notin Telegram!Write
    BY AnswersAssumption
  <1>1. /\ answerPc = "joining" /\ message' = id
        /\ buffer' = buffer /\ written' = written /\ screen' = screen /\ ghosts' = ghosts
        /\ overtaken' = overtaken
    BY DEF Telegram!Join
  <1>2. /\ Telegram!Posted' = Telegram!Posted /\ Telegram!Posted \subseteq Nat
        /\ buffer \in Nat /\ written \in Nat /\ written <= buffer
    BY <1>1 DEF Telegram!Posted, AnswerInv, ScreenInv
  <1>3. id \in Telegram!Posted \cup {None}
    BY DEF AnswerInv, ScreenInv, WriteInv, Telegram!MessageAfter
  <1>4. ASSUME Longest' = written \/ Longest' = buffer PROVE ScreenInv'
    <2>1. \A g \in ghosts : g.text \in Nat /\ g.text <= written
      BY <1>1 DEF AnswerInv, ScreenInv, Longest
    <2>2. \A g \in ghosts : g.text <= Longest'
      BY <1>2, <1>4, <2>1
    <2> QED
      BY <1>1, <1>2, <1>3, <2>2 DEF AnswerInv, ScreenInv
  <1>5. CASE answerPc' = "nothing" /\ write' = None
    <2>1. ScreenInv'
      BY <1>1, <1>4, <1>5 DEF Longest
    <2> QED
      BY <1>5, <2>1 DEF AnswerInv, WriteInv, EndInv
  <1>6. CASE /\ buffer > 0 /\ buffer = written /\ ~stale /\ id # None
             /\ answerPc' = "visible" /\ write' = None
    <2>1. ScreenInv'
      BY <1>1, <1>4, <1>6 DEF Longest
    <2>2. write # None
      BY <1>1, <1>6 DEF AnswerInv, WriteInv
    <2>3. write.verdict = "accepted"
      BY <1>6, <2>2 DEF Telegram!Success
    <2>4. write.text = buffer /\ write.to = message
      BY <1>1, <1>6, <2>2 DEF AnswerInv, WriteInv, Longest
    <2>5. id = IF message = None THEN write.id ELSE message
      BY <2>2, <2>3 DEF Telegram!MessageAfter, Telegram!Success
    <2>6. ~overtaken => screen[id] = buffer
      BY <1>6, <2>2, <2>3, <2>4, <2>5 DEF AnswerInv, WriteInv
    <2>7. EndInv'
      BY <1>1, <1>6, <2>6 DEF EndInv
    <2> QED
      BY <1>6, <2>1, <2>7 DEF AnswerInv, WriteInv
  <1>7. CASE /\ answerPc' = IF id # None THEN "editing" ELSE "sending"
             /\ Telegram!BeginWrite(id, buffer)
    <2>1. ScreenInv'
      BY <1>1, <1>4, <1>7 DEF Longest
    <2>2. /\ write' \in Telegram!Write /\ write' # None
          /\ write'.to = id /\ write'.text = buffer /\ write'.id = None /\ write'.verdict # "accepted"
      BY <1>2, <1>3, <1>7, BeginFacts
    <2>3. WriteInv'
      BY <1>1, <1>2, <1>3, <1>7, <2>2 DEF WriteInv, Longest
    <2> QED
      BY <1>7, <2>1, <2>3 DEF AnswerInv, EndInv
  <1> QED
    BY <1>5, <1>6, <1>7 DEF Telegram!Join

LEMMA LastEditKeeps == ASSUME AnswerInv, Telegram!LastEdit PROVE AnswerInv'
  <1>1. /\ answerPc = "editing"
        /\ buffer' = buffer /\ written' = written /\ message' = message /\ screen' = screen
        /\ ghosts' = ghosts /\ overtaken' = overtaken
    BY DEF Telegram!LastEdit
  <1>2. Telegram!Posted' = Telegram!Posted /\ buffer \in Nat
    BY <1>1 DEF Telegram!Posted, AnswerInv, ScreenInv
  <1>3. ASSUME answerPc' \in {"edited", "sending"} PROVE ScreenInv'
    BY <1>1, <1>2, <1>3 DEF AnswerInv, ScreenInv, Longest
  <1>4. /\ write # None /\ write.to = message /\ message # None /\ write.text = buffer
        /\ ~overtaken /\ write.verdict = "accepted" => screen[message] = buffer
    BY <1>1 DEF AnswerInv, WriteInv, Longest
  <1>5. CASE write.verdict = "accepted" /\ answerPc' = "edited" /\ write' = None
    <2>1. EndInv'
      BY <1>1, <1>4, <1>5 DEF EndInv
    <2> QED
      BY <1>3, <1>5, <2>1 DEF AnswerInv, WriteInv
  <1>6. CASE answerPc' = "sending" /\ Telegram!BeginWrite(None, buffer)
    <2>1. /\ write' \in Telegram!Write /\ write' # None
          /\ write'.to = None /\ write'.text = buffer /\ write'.id = None /\ write'.verdict # "accepted"
      BY <1>2, <1>6, BeginFacts
    <2>2. WriteInv'
      BY <1>1, <1>6, <2>1 DEF WriteInv, Longest
    <2> QED
      BY <1>3, <1>6, <2>2 DEF AnswerInv, EndInv
  <1> QED
    BY <1>5, <1>6 DEF Telegram!LastEdit, Telegram!Success

LEMMA LastSendKeeps == ASSUME AnswerInv, Telegram!LastSend PROVE AnswerInv'
  <1>1. /\ answerPc = "sending" /\ write' = None
        /\ buffer' = buffer /\ written' = written /\ screen' = screen
        /\ ghosts' = ghosts /\ overtaken' = overtaken
        /\ answerPc' = IF write.verdict = "accepted" THEN "replaced" ELSE "error"
        /\ message' \in {message, write.id}
    BY DEF Telegram!LastSend, Telegram!Success
  <1>2. Telegram!Posted' = Telegram!Posted
    BY <1>1 DEF Telegram!Posted
  <1>3. /\ write # None /\ write.id \in Telegram!Posted \cup {None} /\ write.text = buffer
        /\ ~overtaken /\ write.verdict = "accepted" => \E m \in Telegram!Posted : screen[m] = buffer
    BY <1>1 DEF AnswerInv, WriteInv, Longest
  <1>4. ScreenInv'
    BY <1>1, <1>2, <1>3 DEF AnswerInv, ScreenInv, Longest
  <1>5. EndInv'
    BY <1>1, <1>2, <1>3 DEF EndInv
  <1> QED
    BY <1>1, <1>4, <1>5 DEF AnswerInv, WriteInv

LEMMA AnswerInvKept == AnswerInv /\ [Telegram!Next]_(Telegram!vars) => AnswerInv'
  <1> SUFFICES ASSUME AnswerInv, [Telegram!Next]_(Telegram!vars) PROVE AnswerInv'
    OBVIOUS
  <1>1. CASE UNCHANGED Telegram!vars
    BY <1>1 DEF Telegram!vars, AnswerInv, ScreenInv, WriteInv, EndInv, Longest, Telegram!Posted
  <1>2. CASE Telegram!Next
    BY <1>2, ChunkKeeps, CloseKeeps, CallKeeps, GhostKeeps, JoinKeeps, LastEditKeeps, LastSendKeeps
       DEF Telegram!Next, Telegram!Drive
  <1> QED
    BY <1>1, <1>2

\* When stream_answer returns well the whole answer is on the screen, for answers and
\* chunks of any length, any number of calls per write and of calls that land late,
\* unless a call that timed out landed over a longer text (telegram_stream.rs).
THEOREM AnswerIsDelivered == Telegram!Spec => []AnswerDelivered
  <1>1. AnswerInv => AnswerDelivered
    BY DEF AnswerInv, EndInv, AnswerDelivered, Telegram!AnswerDelivered
  <1> QED
    BY <1>1, AnswerInit, AnswerInvKept, PTL DEF Telegram!Spec

=============================================================================

---------------------------- MODULE ConsentProofs ----------------------------
(***************************************************************************)
(* An approval session in its three hands, for every set of actions and    *)
(* keys, every rule list, risk assignment, budget, level and grant: the    *)
(* call gate keeps consent and denials; a chat's session, whatever the     *)
(* order of its calls, lets rules outrank memory and stays bounded; the    *)
(* MCP server leaves no question and counts every call.                    *)
(***************************************************************************)
EXTENDS MCConsent, ApprovalPolicyProofs, FiniteSetTheorems

-----------------------------------------------------------------------------
(* The gate: its inductive invariant, in parts                             *)

\* The call in hand, and the question parked for it while the approver has it.
InHand ==
    /\ pc # "ready" => call \in Actions /\ ran = None
    /\ pc = "asking" => session.outstanding = [id |-> calls, act |-> call]

\* Only a run that asked for yolo has an approver that says yes by itself, and
\* nobody is asked in it.
NobodyAsked ==
    /\ approver = "AlwaysAllow" => asLevel = "yolo" /\ refused = {}

\* A yes in memory is a person's, and a no of theirs is in memory.
MemoryIsTheirs ==
    /\ asLevel # "yolo" => \A k \in Keys : session.remembered[k] = "allow" => k \in consent
    /\ \A k \in refused : session.remembered[k] = "deny"

\* What is about to run was harmless, or safe at the level in force, or allowed.
RunningIsAllowed ==
    pc = "running" /\ call \notin Harmless /\ asLevel # "yolo"
    /\ RiskOf[call] >= Threshold(session.level) =>
        yes \/ KeyOf[call] \in consent \/ call \in AllowListed

\* What is asked about or about to run is not under a standing no.
NotRefused ==
    pc \in {"asking", "running"} /\ KeyOf[call] \in refused => call \in AskFirst \cup Harmless

IInv ==
    /\ TypeOK /\ InHand /\ NobodyAsked /\ MemoryIsTheirs /\ RunningIsAllowed /\ NotRefused
    /\ RiskyRunsHaveConsent /\ DenialSticks

-----------------------------------------------------------------------------
LEMMA InitIInv == Init => IInv
  <1> SUFFICES ASSUME Init PROVE IInv
    OBVIOUS
  <1> PICK level \in Levels, willWait \in BOOLEAN, hasPhone \in BOOLEAN :
          /\ asLevel = level
          /\ approver = ApproverFor(level, willWait, hasPhone)
          /\ session = AfterSetLevel(NewSession("balanced", GrantEnds), level)
    BY DEF Init
  <1>1. level \in AutonomyLevel
    BY GateAssumption
  <1>2. approver \in Approvers /\ (approver = "AlwaysAllow" => asLevel = "yolo")
    BY DEF ApproverFor, Approvers
  <1>3. /\ session \in Session
        /\ \A k \in Keys : session.remembered[k] = "nothing"
    BY <1>1, GateAssumption
       DEF AfterSetLevel, NewSession, Session, NothingRemembered, Remembered, AutonomyLevel
  <1> QED
    BY <1>1, <1>2, <1>3
       DEF Init, IInv, TypeOK, InHand, NobodyAsked, MemoryIsTheirs, RunningIsAllowed, NotRefused,
           RiskyRunsHaveConsent, DenialSticks

\* A finished call leaves the gate's own variables in their types.
LEMMA FinishedType ==
    ASSUME TypeOK, Finished
    PROVE  /\ pc' \in {"ready", "deciding", "asking", "running"}
           /\ call' \in Actions \cup {None}
           /\ calls' \in Nat
           /\ yes' \in BOOLEAN
  <1>1. calls' \in Nat
    BY DEF TypeOK, Finished
  <1>2. yes' \in BOOLEAN
    BY Zenon DEF Finished
  <1> QED
    BY <1>1, <1>2, Zenon DEF Finished

\* A call is proposed: nothing of the session or of what was said changes.
LEMMA ProposeStep ==
    ASSUME IInv, NEW act \in Actions, Propose(act)
    PROVE  IInv'
  <1>1. /\ \/ act \in Harmless /\ pc' = "running" /\ call' = act /\ UNCHANGED <<calls, yes>>
           \/ pc' = "deciding" /\ call' = act /\ UNCHANGED <<calls, yes>>
           \/ Finished
        /\ ran' = None
        /\ UNCHANGED <<approver, asLevel, session, now, consent, refused>>
    BY DEF Propose
  <1>2. TypeOK'
    BY <1>1, FinishedType DEF IInv, TypeOK
  <1>3. InHand' /\ NobodyAsked' /\ MemoryIsTheirs'
    BY <1>1 DEF IInv, InHand, NobodyAsked, MemoryIsTheirs, Finished
  <1>4. RunningIsAllowed' /\ NotRefused'
    BY <1>1 DEF RunningIsAllowed, NotRefused, Finished
  <1>5. RiskyRunsHaveConsent' /\ DenialSticks'
    BY <1>1 DEF RiskyRunsHaveConsent, DenialSticks
  <1> QED
    BY <1>2, <1>3, <1>4, <1>5 DEF IInv

\* The session decides.
LEMMA DecideStep ==
    ASSUME IInv, Decide
    PROVE  IInv'
  <1> DEFINE live == DropExpired(session, now)
             layer == Layer(live, call)
  <1>1. /\ session \in Session /\ now \in Nat /\ calls \in Nat /\ call \in Actions
        /\ KeyOf[call] \in Keys /\ ran = None
    BY RiskType DEF IInv, TypeOK, InHand, Decide
  <1>2. /\ live \in Session
        /\ ~IsExpired(session, now) => live = session
        /\ IsExpired(session, now) => \A k \in Keys : live.remembered[k] = "nothing"
    BY <1>1, DropExpiredFacts
  <1>3. /\ layer \in AllowLayers \cup AskLayers \cup DenyLayers
        /\ layer \in AllowLayers =>
               /\ call \notin AskFirst
               /\ live.remembered[KeyOf[call]] # "deny"
        /\ layer \in AskLayers => call \in AskFirst \/ live.remembered[KeyOf[call]] # "deny"
        /\ layer = "remembered_allow" => live.remembered[KeyOf[call]] = "allow"
        /\ layer = "allow_rule" => call \in AllowListed
        /\ layer = "level" => RiskOf[call] < Threshold(live.level)
    BY <1>1, <1>2, LayerFacts
  <1>4. /\ session' \in Session
        /\ session'.level = live.level /\ session'.remembered = live.remembered
        /\ layer \in AskLayers => session'.outstanding = [id |-> calls, act |-> call]
    BY <1>1, AfterDecideFacts DEF Decide
  <1>5. \/ layer \in AllowLayers /\ pc' = "running" /\ UNCHANGED <<call, calls, yes>>
        \/ layer \in AskLayers /\ pc' = "asking" /\ UNCHANGED <<call, calls, yes>>
        \/ Finished
    BY <1>3, LayersApart DEF Decide
  <1>6. /\ consent' = IF IsExpired(session, now) THEN {} ELSE consent
        /\ refused' = IF IsExpired(session, now) THEN {} ELSE refused
        /\ UNCHANGED <<approver, asLevel, now, ran>>
    BY DEF Decide
  <1> HIDE DEF live, layer
  <1>7. TypeOK'
    <2>1. /\ pc' \in {"ready", "deciding", "asking", "running"}
          /\ call' \in Actions \cup {None} /\ calls' \in Nat /\ yes' \in BOOLEAN
      BY <1>5, FinishedType, Zenon DEF IInv, TypeOK
    <2> QED
      BY <1>4, <1>6, <2>1, Zenon DEF IInv, TypeOK
  <1>8. InHand'
    BY <1>1, <1>4, <1>5, <1>6 DEF InHand, Finished
  <1>9. NobodyAsked'
    BY <1>6 DEF IInv, NobodyAsked
  <1>10. MemoryIsTheirs'
    BY <1>2, <1>4, <1>6 DEF IInv, MemoryIsTheirs
  <1>11. RunningIsAllowed'
    <2>1. layer \in AllowLayers =>
              layer = "remembered_allow" \/ layer = "allow_rule" \/ layer = "level"
      BY DEF AllowLayers
    <2>2. RiskOf[call] \in Nat /\ Threshold(live.level) \in Nat
      BY <1>1, <1>2, RiskType, ThresholdType DEF Session
    <2> QED
      BY <1>1, <1>3, <1>4, <1>5, <1>6, <1>10, <2>1, <2>2
         DEF RunningIsAllowed, MemoryIsTheirs, Finished
  <1>12. NotRefused'
    BY <1>1, <1>3, <1>4, <1>5, <1>6, <1>10 DEF NotRefused, MemoryIsTheirs, Finished
  <1>13. RiskyRunsHaveConsent' /\ DenialSticks'
    BY <1>1, <1>6 DEF RiskyRunsHaveConsent, DenialSticks
  <1> QED
    BY <1>7, <1>8, <1>9, <1>10, <1>11, <1>12, <1>13 DEF IInv

\* An approver's answer is resolved: a person's, any approver's no, or the yes of
\* the approver a yolo run has.
LEMMA ResolvedStep ==
    ASSUME IInv, pc = "asking", NEW option \in ApprovalOption, NEW byPerson \in BOOLEAN,
           Resolved(option, byPerson),
           byPerson => approver # "AlwaysAllow",
           byPerson \/ option = "Deny" \/ (asLevel = "yolo" /\ refused = {})
    PROVE  IInv'
  <1> DEFINE after == AfterResolve(session, calls, option, call)
             lasting == option \in {"AllowForChat", "AllowAlways"}
  <1>1. /\ session \in Session /\ calls \in Nat /\ call \in Actions
        /\ KeyOf[call] \in Keys /\ ran = None
        /\ session.outstanding = [id |-> calls, act |-> call]
    BY RiskType DEF IInv, TypeOK, InHand
  <1>2. Current(session, calls)
    BY <1>1, ParkedIsCurrent
  <1>3. /\ after \in Session /\ after.level = session.level
        /\ \A k \in Keys \ {KeyOf[call]} : after.remembered[k] = session.remembered[k]
        /\ lasting => after.remembered[KeyOf[call]] = "allow"
        /\ option = "Deny" => after.remembered[KeyOf[call]] = "deny"
        /\ option = "AllowOnce" =>
               after.remembered[KeyOf[call]] = session.remembered[KeyOf[call]]
    BY <1>1, <1>2, AfterResolveFacts
  <1>4. /\ session' = after
        /\ \/ option # "Deny" /\ pc' = "running" /\ yes' = byPerson /\ UNCHANGED <<call, calls>>
           \/ option = "Deny" /\ Finished
    BY <1>2 DEF Resolved, ResolveVerdict, Allows
  <1>5. /\ consent' = IF byPerson /\ lasting THEN consent \cup {KeyOf[call]}
                      ELSE IF byPerson /\ option = "Deny" THEN consent \ {KeyOf[call]}
                      ELSE consent
        /\ refused' = IF byPerson /\ option = "Deny" THEN refused \cup {KeyOf[call]}
                      ELSE IF byPerson /\ lasting THEN refused \ {KeyOf[call]}
                      ELSE refused
        /\ UNCHANGED <<approver, asLevel, now, ran>>
    BY DEF Resolved
  <1>6. option = "Deny" \/ option = "AllowOnce" \/ lasting
    BY DEF ApprovalOption
  <1> HIDE DEF after
  <1>7. TypeOK'
    <2>1. /\ pc' \in {"ready", "deciding", "asking", "running"}
          /\ call' \in Actions \cup {None} /\ calls' \in Nat /\ yes' \in BOOLEAN
      BY <1>4, FinishedType, Zenon DEF IInv, TypeOK
    <2>2. consent' \in SUBSET Keys /\ refused' \in SUBSET Keys
      BY <1>1, <1>5 DEF IInv, TypeOK
    <2> QED
      BY <1>3, <1>4, <1>5, <2>1, <2>2, Zenon DEF IInv, TypeOK
  <1>8. InHand'
    BY <1>1, <1>4, <1>5 DEF IInv, InHand, Finished
  <1>9. NobodyAsked'
    BY <1>5 DEF IInv, NobodyAsked
  <1>10. MemoryIsTheirs'
    <2> SUFFICES ASSUME NEW k \in Keys
                 PROVE  /\ asLevel # "yolo" /\ session'.remembered[k] = "allow" => k \in consent'
                        /\ k \in refused' => session'.remembered[k] = "deny"
      BY <1>5, <1>7 DEF MemoryIsTheirs, TypeOK
    <2>0. /\ asLevel # "yolo" /\ session.remembered[k] = "allow" => k \in consent
          /\ k \in refused => session.remembered[k] = "deny"
      BY DEF IInv, MemoryIsTheirs
    <2>1. CASE k # KeyOf[call]
      BY <1>3, <1>4, <1>5, <2>0, <2>1
    <2>2. CASE k = KeyOf[call]
      BY <1>3, <1>4, <1>5, <1>6, <2>0, <2>2
    <2> QED
      BY <2>1, <2>2
  <1>11. RunningIsAllowed'
    BY <1>4, <1>5 DEF RunningIsAllowed, Finished
  <1>12. NotRefused'
    BY <1>4, <1>5 DEF IInv, NotRefused, Finished
  <1>13. RiskyRunsHaveConsent' /\ DenialSticks'
    BY <1>1, <1>5 DEF RiskyRunsHaveConsent, DenialSticks
  <1> QED
    BY <1>7, <1>8, <1>9, <1>10, <1>11, <1>12, <1>13 DEF IInv

\* The tool runs, on the consent it has.
LEMMA RunToolStep ==
    ASSUME IInv, RunTool
    PROVE  IInv'
  <1>1. /\ call \in Actions /\ session \in Session /\ yes \in BOOLEAN
        /\ pc = "running"
    BY DEF IInv, TypeOK, InHand, RunTool
  <1>2. ran' = [act |-> call, person |-> yes \/ KeyOf[call] \in consent, level |-> session.level]
    BY DEF RunTool
  <1>3. /\ ran'.act = call /\ ran'.level = session.level
        /\ ran'.person <=> yes \/ KeyOf[call] \in consent
    BY <1>2
  <1>4. ran' \in [act : Actions, person : BOOLEAN, level : AutonomyLevel]
    <2>1. (yes \/ KeyOf[call] \in consent) \in BOOLEAN /\ session.level \in AutonomyLevel
      BY <1>1 DEF Session
    <2> QED
      BY <1>1, <1>2, <2>1, Zenon
  <1>5. Finished /\ UNCHANGED <<approver, asLevel, session, now, consent, refused>>
    BY DEF RunTool
  <1>6. TypeOK'
    BY <1>4, <1>5, FinishedType, Zenon DEF IInv, TypeOK
  <1>7. RiskyRunsHaveConsent'
    BY <1>1, <1>3, <1>5 DEF IInv, RunningIsAllowed, RiskyRunsHaveConsent
  <1>8. DenialSticks'
    BY <1>1, <1>3, <1>5 DEF IInv, NotRefused, DenialSticks
  <1> QED
    BY <1>5, <1>6, <1>7, <1>8
       DEF IInv, InHand, NobodyAsked, MemoryIsTheirs, RunningIsAllowed, NotRefused, Finished

-----------------------------------------------------------------------------
LEMMA IInvStep == IInv /\ [Next]_vars => IInv'
  <1> SUFFICES ASSUME IInv, [Next]_vars PROVE IInv'
    OBVIOUS
  <1>1. CASE UNCHANGED vars
    BY <1>1 DEF vars, IInv, TypeOK, InHand, NobodyAsked, MemoryIsTheirs, RunningIsAllowed,
                NotRefused, RiskyRunsHaveConsent, DenialSticks
  <1>2. CASE \E act \in Actions : Propose(act)
    BY <1>2, ProposeStep
  <1>3. CASE Decide
    BY <1>3, DecideStep
  <1>4. CASE AlwaysAllow
    <2>1. Resolved("AllowForChat", FALSE) /\ pc = "asking" /\ approver = "AlwaysAllow"
      BY <1>4 DEF AlwaysAllow
    <2> QED
      BY <2>1, ResolvedStep DEF IInv, NobodyAsked, ApprovalOption
  <1>5. CASE RefusingApprover
    <2>1. Resolved("Deny", FALSE) /\ pc = "asking"
      BY <1>5 DEF RefusingApprover
    <2> QED
      BY <2>1, ResolvedStep DEF ApprovalOption
  <1>6. ASSUME NEW option \in ApprovalOption, PhoneTap(option) PROVE IInv'
    <2>1. Resolved(option, TRUE) /\ pc = "asking" /\ approver # "AlwaysAllow"
      BY <1>6 DEF PhoneTap
    <2> QED
      BY <2>1, ResolvedStep
  <1>7. ASSUME NEW option \in ApprovalOption, NEW ceiling \in RiskClass,
               QueueAnswer(option, ceiling)
        PROVE  IInv'
    <2>1. Resolved(option, TRUE) /\ pc = "asking" /\ approver # "AlwaysAllow"
      BY <1>7 DEF QueueAnswer
    <2> QED
      BY <2>1, ResolvedStep
  <1>8. CASE Silence
    <2>1. Resolved("Deny", FALSE) /\ pc = "asking"
      BY <1>8 DEF Silence
    <2> QED
      BY <2>1, ResolvedStep DEF ApprovalOption
  <1>9. CASE RunTool
    BY <1>9, RunToolStep
  <1>10. CASE Tick
    BY <1>10 DEF Tick, IInv, TypeOK, InHand, NobodyAsked, MemoryIsTheirs, RunningIsAllowed,
                 NotRefused, RiskyRunsHaveConsent, DenialSticks
  <1> QED
    BY <1>1, <1>2, <1>3, <1>4, <1>5, <1>6, <1>7, <1>8, <1>9, <1>10 DEF Next

LEMMA IInvAlways == Safety => []IInv
  BY InitIInv, IInvStep, PTL DEF Safety

\* Every variable of the gate stays in its type.
THEOREM TypeCorrect == Safety => []TypeOK
  <1>1. IInv => TypeOK
    BY DEF IInv
  <1> QED
    BY <1>1, IInvAlways, PTL

\* Unless the request asked for yolo, nothing at or above the class the level asks
\* about runs without a person's yes or an allow rule (agent.rs, handle_call).
THEOREM ConsentHolds == Safety => []RiskyRunsHaveConsent
  <1>1. IInv => RiskyRunsHaveConsent
    BY DEF IInv
  <1> QED
    BY <1>1, IInvAlways, PTL

\* Nothing runs under a key a person denied in the grant in force, except what an
\* ask rule put to them anew (approval.rs, resolve and decide).
THEOREM DenialHolds == Safety => []DenialSticks
  <1>1. IInv => DenialSticks
    BY DEF IInv
  <1> QED
    BY <1>1, IInvAlways, PTL

-----------------------------------------------------------------------------
(* The chat: its inductive invariant, in parts                             *)

\* The chat's session is a session, and the operations on it are the gate's.
LEMMA SamePolicy ==
    /\ Chat!Session = Session
    /\ Chat!Question = Question
    /\ Chat!AllowLayers = AllowLayers
    /\ Chat!AskLayers = AskLayers
    /\ Chat!DenyLayers = DenyLayers
    /\ Chat!AutonomyLevel = AutonomyLevel
    /\ Chat!ApprovalOption = ApprovalOption
    /\ \A s, t : Chat!DropExpired(s, t) = DropExpired(s, t)
    /\ \A s, t : Chat!IsExpired(s, t) = IsExpired(s, t)
    /\ \A s, act : Chat!Layer(s, act) = Layer(s, act)
    /\ \A s, act, id, t : Chat!AfterDecide(s, act, id, t) = AfterDecide(s, act, id, t)
    /\ \A s, id : Chat!Current(s, id) = Current(s, id)
    /\ \A s, id, option, act :
           Chat!AfterResolve(s, id, option, act) = AfterResolve(s, id, option, act)
    /\ \A s, id, option : Chat!ResolveVerdict(s, id, option) = ResolveVerdict(s, id, option)
    /\ \A s : Chat!AfterTimeout(s) = AfterTimeout(s)
    /\ \A s, level : Chat!AfterSetLevel(s, level) = AfterSetLevel(s, level)
    /\ \A s : Chat!AfterRevoke(s) = AfterRevoke(s)
    /\ \A s : Chat!AfterTakePromotions(s) = AfterTakePromotions(s)
    /\ \A layer : Chat!VerdictOf(layer) = VerdictOf(layer)
    /\ \A level, ends : Chat!NewSession(level, ends) = NewSession(level, ends)
    /\ \A level : Chat!Tighten(level) = Tighten(level)
    /\ \A level : Chat!Threshold(level) = Threshold(level)
  BY DEF Session, Chat!Session, Question, Chat!Question, AllowLayers, Chat!AllowLayers,
     AskLayers, Chat!AskLayers, DenyLayers, Chat!DenyLayers, AutonomyLevel,
     Chat!AutonomyLevel, ApprovalOption, Chat!ApprovalOption, DropExpired, Chat!DropExpired,
     IsExpired, Chat!IsExpired, Layer, Chat!Layer, AfterDecide, Chat!AfterDecide, Current,
     Chat!Current, AfterResolve, Chat!AfterResolve, ResolveVerdict, Chat!ResolveVerdict,
     AfterTimeout, Chat!AfterTimeout, AfterSetLevel, Chat!AfterSetLevel, AfterRevoke,
     Chat!AfterRevoke, AfterTakePromotions, Chat!AfterTakePromotions, VerdictOf,
     Chat!VerdictOf, NewSession, Chat!NewSession, Tighten, Chat!Tighten, Threshold,
     Chat!Threshold, RuleLayer, Chat!RuleLayer, MemoryLayer, Chat!MemoryLayer, StandingLayer,
     Chat!StandingLayer, OverCeiling, Chat!OverCeiling, BudgetSpent, Chat!BudgetSpent,
     NothingRemembered, Chat!NothingRemembered, Remembered, Chat!Remembered, Allows,
     Chat!Allows, Read, Chat!Read, Mutate, Chat!Mutate, External, Chat!External, Destructive,
     Chat!Destructive, NeverAsk, Chat!NeverAsk, Privileged, Chat!Privileged

\* A question in a caller's hands was asked under an id of its own, about an action
\* the rules do not refuse outright; the parked one is in somebody's hands.
Questions ==
    /\ \A q \in held : q.id < asks /\ q.act \notin Denied \cup Unenumerable
    /\ \A q, r \in held : q.id = r.id => q = r
    /\ chatSession.outstanding \in held \cup {None}

\* consecutive_auto counts every unreviewed action the level let through.
Counted == unreviewed <= chatSession.auto

\* Until it is replaced, the scoped grant is in force with its own level, or it
\* ended, and every yes in memory was given after that.
GrantTracked ==
    granted # None =>
        \/ /\ chatSession.expiresAt = granted.ends
           /\ chatSession.level = granted.level
        \/ /\ granted.ends # None /\ chatNow >= granted.ends
           /\ chatSession.expiresAt = None
           /\ chatSession.level = Tighten(granted.level)
           /\ \A k \in Keys : chatSession.remembered[k] = "allow" =>
                  yesAt[k] # None /\ yesAt[k] >= granted.ends

ChatInv ==
    /\ Chat!TypeOK /\ Questions /\ Counted /\ GrantTracked
    /\ RulesOutrankMemory /\ LenienceIsBounded

-----------------------------------------------------------------------------
LEMMA ChatInitial == Chat!Init => ChatInv
  <1> SUFFICES ASSUME Chat!Init PROVE ChatInv
    OBVIOUS
  <1>1. chatSession \in Session
    BY SamePolicy, ConsentAssumption, GateAssumption
       DEF Chat!Init, NewSession, Session, NothingRemembered, Remembered
  <1>2. Chat!TypeOK
    BY SamePolicy, ConsentAssumption, GateAssumption, <1>1 DEF Chat!Init, Chat!TypeOK
  <1>3. Questions /\ Counted /\ GrantTracked
    BY SamePolicy DEF Chat!Init, NewSession, Questions, Counted, GrantTracked
  <1>4. RulesOutrankMemory /\ LenienceIsBounded
    BY SamePolicy, PolicyAssumption DEF Chat!Init, RulesOutrankMemory,
       Chat!RulesOutrankMemory, LenienceIsBounded, Chat!LenienceIsBounded,
       Chat!CheckInCadence, Chat!GrantDiesAtItsEnd,
           Chat!Ran, Chat!RanUnasked
  <1> QED
    BY <1>2, <1>3, <1>4 DEF ChatInv

\* decide: an allow comes past every rule, and past the budget never by the level.
LEMMA ChatDecideStep ==
    ASSUME ChatInv, NEW act \in Actions, Chat!Decide(act)
    PROVE  ChatInv'
  <1> DEFINE live == DropExpired(chatSession, chatNow)
             layer == Layer(live, act)
             q == [id |-> asks, act |-> act]
  <1>1. /\ chatSession \in Session /\ chatNow \in Nat /\ asks \in Nat /\ unreviewed \in Nat
        /\ chatSession.auto \in Nat /\ KeyOf[act] \in Keys /\ RiskOf[act] \in Nat
        /\ q \in Question
    BY SamePolicy, RiskType DEF ChatInv, Chat!TypeOK, Session, Question
  <1>2. /\ live \in Session /\ live.auto = chatSession.auto
        /\ ~IsExpired(chatSession, chatNow) => live = chatSession
        /\ IsExpired(chatSession, chatNow) => /\ live.level = Tighten(chatSession.level)
                                      /\ live.expiresAt = None
                                      /\ \A k \in Keys : live.remembered[k] = "nothing"
    BY <1>1, DropExpiredFacts
  <1>3. /\ layer \in AllowLayers \cup AskLayers \cup DenyLayers
        /\ layer \in AllowLayers => act \notin Denied \cup Unenumerable \cup AskFirst
        /\ layer \in AskLayers => act \notin Denied \cup Unenumerable
        /\ layer = "remembered_allow" => live.remembered[KeyOf[act]] = "allow"
        /\ layer = "level" => RiskOf[act] < Threshold(live.level) /\ ~BudgetSpent(live)
    BY <1>1, <1>2, LayerFacts
  <1>4. /\ chatSession' \in Session
        /\ chatSession'.level = live.level /\ chatSession'.expiresAt = live.expiresAt
        /\ chatSession'.remembered = live.remembered
        /\ chatSession'.auto =
               IF layer \in AllowLayers THEN chatSession.auto + 1 ELSE chatSession.auto
        /\ chatSession'.outstanding = IF layer \in AskLayers THEN q ELSE chatSession.outstanding
    <2>1. chatSession' = AfterDecide(chatSession, act, asks, chatNow)
      BY SamePolicy DEF Chat!Decide
    <2> QED
      BY <1>1, <2>1, AfterDecideFacts
  <1>5. /\ last' = [op |-> "decide", act |-> act, id |-> asks,
                    verdict |-> VerdictOf(layer), layer |-> layer]
        /\ held' = IF layer \in AskLayers THEN held \cup {q} ELSE held
        /\ asks' = IF layer \in AskLayers THEN asks + 1 ELSE asks
        /\ unreviewed' = IF layer = "level" THEN unreviewed + 1 ELSE unreviewed
        /\ UNCHANGED <<chatNow, yesAt, granted>>
    BY SamePolicy DEF Chat!Decide
  <1>6. /\ VerdictOf(layer) \in {"allow", "ask", "deny"}
        /\ VerdictOf(layer) = "allow" => layer \in AllowLayers
    BY DEF VerdictOf
  <1>7. q.id = asks /\ q.act = act
    OBVIOUS
  <1> HIDE DEF live, layer, q
  <1>8. Chat!TypeOK'
    <2>1. last' \in Chat!Observed
      BY SamePolicy, <1>1, <1>3, <1>5, <1>6 DEF Chat!Observed
    <2>2. held' \in SUBSET Question /\ asks' \in Nat /\ unreviewed' \in Nat
      BY SamePolicy, <1>1, <1>5 DEF ChatInv, Chat!TypeOK
    <2> QED
      BY SamePolicy, <1>4, <1>5, <2>1, <2>2 DEF ChatInv, Chat!TypeOK
  <1>9. Questions'
    <2>1. \A r \in held : r.id \in Nat /\ r.id < asks
      BY SamePolicy DEF ChatInv, Chat!TypeOK, Questions, Question
    <2>2. \A r \in held' : r.id < asks' /\ r.act \notin Denied \cup Unenumerable
      BY <1>1, <1>3, <1>5, <1>7, <2>1 DEF ChatInv, Questions
    <2>3. \A r, t \in held' : r.id = t.id => r = t
      BY <1>1, <1>5, <1>7, <2>1 DEF ChatInv, Questions
    <2>4. chatSession'.outstanding \in held' \cup {None}
      BY <1>4, <1>5 DEF ChatInv, Questions
    <2> QED
      BY <2>2, <2>3, <2>4 DEF Questions
  <1>10. Counted'
    BY <1>1, <1>4, <1>5 DEF ChatInv, Counted, AllowLayers
  <1>11. GrantTracked'
    BY SamePolicy, <1>1, <1>2, <1>4, <1>5, PolicyAssumption DEF ChatInv, Chat!TypeOK,
       GrantTracked, IsExpired
  <1>12. RulesOutrankMemory'
    BY SamePolicy, <1>3, <1>5, <1>6 DEF RulesOutrankMemory, Chat!RulesOutrankMemory, Chat!Ran
  <1>13. Chat!CheckInCadence'
    BY SamePolicy, <1>1, <1>2, <1>3, <1>5, PolicyAssumption
       DEF ChatInv, Counted, LenienceIsBounded, Chat!LenienceIsBounded, Chat!CheckInCadence,
          BudgetSpent
  <1>14. Chat!GrantDiesAtItsEnd'
    <2> SUFFICES ASSUME layer \in AllowLayers, granted # None, granted.ends # None,
                        chatNow >= granted.ends
                 PROVE  \/ layer = "allow_rule"
                        \/ layer = "remembered_allow" /\ yesAt[KeyOf[act]] >= granted.ends
                        \/ layer = "level" /\ RiskOf[act] < Threshold(Tighten(granted.level))
      BY SamePolicy, <1>5, <1>6 DEF Chat!GrantDiesAtItsEnd, Chat!RanUnasked, Chat!Ran
    <2>1. layer = "remembered_allow" \/ layer = "allow_rule" \/ layer = "level"
      BY DEF AllowLayers
    <2>2. CASE chatSession.expiresAt = granted.ends /\ chatSession.level = granted.level
      <3>1. IsExpired(chatSession, chatNow)
        BY <2>2 DEF IsExpired
      <3> QED
        BY <1>1, <1>2, <1>3, <2>1, <2>2, <3>1
    <2>3. CASE ~(chatSession.expiresAt = granted.ends /\ chatSession.level = granted.level)
      <3>1. /\ chatSession.expiresAt = None /\ chatSession.level = Tighten(granted.level)
            /\ \A k \in Keys : chatSession.remembered[k] = "allow" => yesAt[k] >= granted.ends
        BY <2>3 DEF ChatInv, GrantTracked
      <3>2. live = chatSession
        BY <1>2, <3>1 DEF IsExpired
      <3> QED
        BY <1>1, <1>3, <2>1, <3>1, <3>2
    <2> QED
      BY <2>2, <2>3
  <1> QED
    BY SamePolicy, <1>8, <1>9, <1>10, <1>11, <1>12, <1>13, <1>14 DEF ChatInv,
       LenienceIsBounded, Chat!LenienceIsBounded

\* resolve: only the parked question's answer counts, and it is a review.
LEMMA ChatResolveStep ==
    ASSUME ChatInv, NEW q \in held, NEW option \in ApprovalOption, Chat!Resolve(q, option)
    PROVE  ChatInv'
  <1> DEFINE lasting == option \in {"AllowForChat", "AllowAlways"}
             k == KeyOf[q.act]
  <1>1. /\ chatSession \in Session /\ chatSession.auto \in Nat
        /\ chatNow \in Nat /\ unreviewed \in Nat
        /\ q \in Question /\ q.id \in Nat /\ q.act \in Actions /\ k \in Keys
        /\ yesAt \in [Keys -> Nat \cup {None}]
    BY SamePolicy, RiskType DEF ChatInv, Chat!TypeOK, Session, Question
  <1>2. /\ chatSession' \in Session
        /\ chatSession'.level = chatSession.level /\ chatSession'.expiresAt = chatSession.expiresAt
        /\ ~Current(chatSession, q.id) => chatSession' = chatSession
        /\ Current(chatSession, q.id) =>
               /\ chatSession'.outstanding = None /\ chatSession'.auto = 0
               /\ \A j \in Keys \ {k} : chatSession'.remembered[j] = chatSession.remembered[j]
               /\ option = "Deny" => chatSession'.remembered[k] = "deny"
               /\ option = "AllowOnce" => chatSession'.remembered[k] = chatSession.remembered[k]
    <2>1. chatSession' = AfterResolve(chatSession, q.id, option, q.act)
      BY SamePolicy DEF Chat!Resolve
    <2> QED
      BY <1>1, <2>1, AfterResolveFacts
  <1>3. /\ held' = held \ {q}
        /\ last' = [op |-> "resolve", act |-> q.act, id |-> q.id,
                    verdict |-> ResolveVerdict(chatSession, q.id, option), layer |-> "person"]
        /\ unreviewed' = IF Current(chatSession, q.id) THEN 0 ELSE unreviewed
        /\ yesAt' =
               IF Current(chatSession, q.id) /\ lasting
                 THEN [yesAt EXCEPT ![k] = chatNow] ELSE yesAt
        /\ UNCHANGED <<chatNow, asks, granted>>
    BY SamePolicy DEF Chat!Resolve
  <1>4. ResolveVerdict(chatSession, q.id, option) \in {"allow", "deny"}
    BY DEF ResolveVerdict
  <1>5. option = "Deny" \/ option = "AllowOnce" \/ lasting
    BY DEF ApprovalOption
  <1>6. Chat!TypeOK'
    <2>1. last' \in Chat!Observed
      BY SamePolicy, <1>1, <1>3, <1>4 DEF Chat!Observed
    <2>2. yesAt' \in [Keys -> Nat \cup {None}]
      BY <1>1, <1>3
    <2> QED
      BY SamePolicy, <1>2, <1>3, <2>1, <2>2 DEF ChatInv, Chat!TypeOK
  <1>7. Questions'
    <2>1. chatSession'.outstanding \in held' \cup {None}
      <3>1. CASE Current(chatSession, q.id)
        BY <1>2, <3>1
      <3>2. CASE ~Current(chatSession, q.id)
        BY <1>2, <1>3, <3>2 DEF ChatInv, Questions, Current
      <3> QED
        BY <3>1, <3>2
    <2> QED
      BY <1>3, <2>1 DEF ChatInv, Questions
  <1>8. Counted'
    BY <1>1, <1>2, <1>3 DEF ChatInv, Counted
  <1>9. GrantTracked'
    <2>1. ASSUME NEW j \in Keys, chatSession'.remembered[j] = "allow"
          PROVE  \/ chatSession.remembered[j] = "allow" /\ yesAt'[j] = yesAt[j]
                 \/ yesAt'[j] = chatNow
      <3>1. CASE Current(chatSession, q.id)
        BY <1>1, <1>2, <1>3, <1>5, <2>1, <3>1
      <3>2. CASE ~Current(chatSession, q.id)
        BY <1>2, <1>3, <2>1, <3>2
      <3> QED
        BY <3>1, <3>2
    <2> QED
      BY <1>1, <1>2, <1>3, <2>1, PolicyAssumption DEF ChatInv, GrantTracked
  <1>10. RulesOutrankMemory'
    BY SamePolicy, <1>3 DEF ChatInv, Questions, RulesOutrankMemory, Chat!RulesOutrankMemory,
       Chat!Ran
  <1>11. LenienceIsBounded'
    <2>1. Chat!CheckInCadence'
      BY SamePolicy, <1>1, <1>3, PolicyAssumption DEF ChatInv, LenienceIsBounded,
         Chat!LenienceIsBounded, Chat!CheckInCadence
    <2>2. Chat!GrantDiesAtItsEnd'
      BY SamePolicy, <1>3 DEF Chat!GrantDiesAtItsEnd, Chat!RanUnasked
    <2> QED
      BY SamePolicy, <2>1, <2>2 DEF LenienceIsBounded, Chat!LenienceIsBounded
  <1> QED
    BY <1>6, <1>7, <1>8, <1>9, <1>10, <1>11 DEF ChatInv

-----------------------------------------------------------------------------
(* The steps that answer nobody: last' = None                              *)

\* Such a step says nothing ran, so only the budget's count is left to show.
LEMMA SilentStep ==
    ASSUME ChatInv, last' = None, unreviewed' \in {0, unreviewed}
    PROVE  RulesOutrankMemory' /\ LenienceIsBounded'
  <1>1. RulesOutrankMemory' /\ Chat!GrantDiesAtItsEnd'
    BY SamePolicy DEF RulesOutrankMemory, Chat!RulesOutrankMemory, Chat!GrantDiesAtItsEnd,
       Chat!RanUnasked, Chat!Ran
  <1>2. Chat!CheckInCadence'
    BY SamePolicy, PolicyAssumption DEF ChatInv, LenienceIsBounded, Chat!LenienceIsBounded,
       Chat!CheckInCadence
  <1> QED
    BY SamePolicy, <1>1, <1>2 DEF LenienceIsBounded, Chat!LenienceIsBounded

LEMMA TimeoutStep ==
    ASSUME ChatInv, Chat!Timeout
    PROVE  ChatInv'
  <1>1. chatSession \in Session
    BY SamePolicy DEF ChatInv, Chat!TypeOK
  <1>2. /\ chatSession' \in Session /\ chatSession'.outstanding = None
        /\ chatSession'.level = chatSession.level /\ chatSession'.expiresAt = chatSession.expiresAt
        /\ chatSession'.remembered = chatSession.remembered /\ chatSession'.auto = chatSession.auto
    BY SamePolicy, <1>1 DEF Chat!Timeout, AfterTimeout, Session
  <1>3. /\ held' = held \ {chatSession.outstanding} /\ last' = None
        /\ UNCHANGED <<chatNow, asks, unreviewed, yesAt, granted>>
    BY SamePolicy DEF Chat!Timeout
  <1>4. Chat!TypeOK'
    BY SamePolicy, <1>2, <1>3 DEF ChatInv, Chat!TypeOK
  <1>5. Questions' /\ Counted' /\ GrantTracked'
    BY <1>2, <1>3 DEF ChatInv, Questions, Counted, GrantTracked
  <1> QED
    BY <1>3, <1>4, <1>5, SilentStep DEF ChatInv

LEMMA SetLevelStep ==
    ASSUME ChatInv, NEW level \in AutonomyLevel, Chat!SetLevel(level)
    PROVE  ChatInv'
  <1>1. chatSession \in Session
    BY SamePolicy DEF ChatInv, Chat!TypeOK
  <1>2. /\ chatSession' \in Session /\ chatSession'.auto = 0
        /\ chatSession'.outstanding = chatSession.outstanding
    BY SamePolicy, <1>1 DEF Chat!SetLevel, AfterSetLevel, Session
  <1>3. /\ unreviewed' = 0 /\ granted' = None /\ last' = None
        /\ UNCHANGED <<chatNow, held, asks, yesAt>>
    BY SamePolicy DEF Chat!SetLevel
  <1>4. Chat!TypeOK'
    BY SamePolicy, <1>2, <1>3 DEF ChatInv, Chat!TypeOK
  <1>5. Questions' /\ Counted' /\ GrantTracked'
    BY <1>2, <1>3 DEF ChatInv, Questions, Counted, GrantTracked
  <1> QED
    BY <1>3, <1>4, <1>5, SilentStep DEF ChatInv

LEMMA RevokeStep ==
    ASSUME ChatInv, Chat!Revoke
    PROVE  ChatInv'
  <1>1. chatSession \in Session
    BY SamePolicy DEF ChatInv, Chat!TypeOK
  <1>2. chatSession' \in Session /\ chatSession'.outstanding = None /\ chatSession'.auto = 0
    BY SamePolicy, <1>1 DEF Chat!Revoke, AfterRevoke, Session, AutonomyLevel,
       NothingRemembered, Remembered
  <1>3. /\ unreviewed' = 0 /\ granted' = None /\ last' = None
        /\ yesAt' = [k \in Keys |-> None]
        /\ UNCHANGED <<chatNow, held, asks>>
    BY SamePolicy DEF Chat!Revoke
  <1>4. Chat!TypeOK'
    BY SamePolicy, <1>2, <1>3 DEF ChatInv, Chat!TypeOK
  <1>5. Questions' /\ Counted' /\ GrantTracked'
    BY <1>2, <1>3 DEF ChatInv, Questions, Counted, GrantTracked
  <1> QED
    BY <1>3, <1>4, <1>5, SilentStep DEF ChatInv

LEMMA TakePromotionsStep ==
    ASSUME ChatInv, Chat!TakePromotions
    PROVE  ChatInv'
  <1>1. chatSession \in Session
    BY SamePolicy DEF ChatInv, Chat!TypeOK
  <1>2. /\ chatSession' \in Session /\ chatSession'.outstanding = chatSession.outstanding
        /\ chatSession'.level = chatSession.level /\ chatSession'.expiresAt = chatSession.expiresAt
        /\ chatSession'.remembered = chatSession.remembered /\ chatSession'.auto = chatSession.auto
    BY SamePolicy, <1>1 DEF Chat!TakePromotions, AfterTakePromotions, Session
  <1>3. last' = None /\ UNCHANGED <<chatNow, held, asks, unreviewed, yesAt, granted>>
    BY SamePolicy DEF Chat!TakePromotions
  <1>4. Chat!TypeOK'
    BY SamePolicy, <1>2, <1>3 DEF ChatInv, Chat!TypeOK
  <1>5. Questions' /\ Counted' /\ GrantTracked'
    BY <1>2, <1>3 DEF ChatInv, Questions, Counted, GrantTracked
  <1> QED
    BY <1>3, <1>4, <1>5, SilentStep DEF ChatInv

LEMMA TickStep ==
    ASSUME ChatInv, Chat!Tick
    PROVE  ChatInv'
  <1>1. /\ chatNow \in Nat /\ chatNow' = chatNow + 1 /\ last' = None
        /\ UNCHANGED <<chatSession, held, asks, unreviewed, yesAt, granted>>
    BY SamePolicy DEF ChatInv, Chat!TypeOK, Chat!Tick
  <1>2. Chat!TypeOK' /\ Questions' /\ Counted'
    BY SamePolicy, <1>1 DEF ChatInv, Chat!TypeOK, Questions, Counted
  <1>3. GrantTracked'
    <2>1. granted # None => granted.ends \in Nat \cup {None}
      BY SamePolicy DEF ChatInv, Chat!TypeOK
    <2> QED
      BY <1>1, <2>1 DEF ChatInv, GrantTracked
  <1> QED
    BY <1>1, <1>2, <1>3, SilentStep DEF ChatInv

-----------------------------------------------------------------------------
LEMMA ChatInvStep == ChatInv /\ [Chat!Next]_(Chat!vars) => ChatInv'
  <1> SUFFICES ASSUME ChatInv, [Chat!Next]_(Chat!vars) PROVE ChatInv'
    OBVIOUS
  <1>1. CASE UNCHANGED Chat!vars
    BY SamePolicy, <1>1 DEF Chat!vars, ChatInv, Chat!TypeOK, Questions, Counted,
       GrantTracked, RulesOutrankMemory, Chat!RulesOutrankMemory,
                LenienceIsBounded, Chat!LenienceIsBounded, Chat!CheckInCadence,
                Chat!GrantDiesAtItsEnd, Chat!RanUnasked, Chat!Ran
  <1>2. CASE Chat!Next
    BY SamePolicy, <1>2, ChatDecideStep, ChatResolveStep, TimeoutStep, SetLevelStep, RevokeStep,
       TakePromotionsStep, TickStep DEF Chat!Next
  <1> QED
    BY <1>1, <1>2

LEMMA ChatInvAlways == Chat!Spec => []ChatInv
  <1>1. Chat!Init => ChatInv
    BY ChatInitial
  <1> QED
    BY <1>1, ChatInvStep, PTL DEF Chat!Spec

\* A session stays well-formed, and every question in a caller's hands has an id
\* no other has: an answer can only ever be taken for the question it was given to
\* (approval.rs, decide and resolve).
THEOREM SessionTypeCorrect == Chat!Spec => [](Chat!TypeOK /\ Questions)
  <1>1. ChatInv => Chat!TypeOK /\ Questions
    BY DEF ChatInv
  <1> QED
    BY <1>1, ChatInvAlways, PTL

\* No order of answers, levels and expiries gets an action past a deny rule or an
\* ask rule, whatever is remembered under its key (approval.rs, decide).
THEOREM RulesHold == Chat!Spec => []RulesOutrankMemory
  <1>1. ChatInv => RulesOutrankMemory
    BY DEF ChatInv
  <1> QED
    BY <1>1, ChatInvAlways, PTL

\* What runs without a question is bounded by the budget between two reviews and
\* by the end of the grant (approval.rs, decide and drop_expired).
THEOREM LenienceHolds == Chat!Spec => []LenienceIsBounded
  <1>1. ChatInv => LenienceIsBounded
    BY DEF ChatInv
  <1> QED
    BY <1>1, ChatInvAlways, PTL

-----------------------------------------------------------------------------
(* The server                                                              *)

\* The server's session is a session too.
LEMMA ServerPolicy ==
    /\ Server!Session = Session
    /\ \A s, act : Server!Layer(s, act) = Layer(s, act)
    /\ \A s, act, id, t : Server!AfterDecide(s, act, id, t) = AfterDecide(s, act, id, t)
    /\ \A s : Server!AfterTimeout(s) = AfterTimeout(s)
    /\ \A layer : Server!VerdictOf(layer) = VerdictOf(layer)
    /\ \A level, ends : Server!NewSession(level, ends) = NewSession(level, ends)
  BY DEF Session, Server!Session, Question, Server!Question, AllowLayers, Server!AllowLayers,
     AskLayers, Server!AskLayers, DenyLayers, Server!DenyLayers, AutonomyLevel,
     Server!AutonomyLevel, DropExpired, Server!DropExpired, IsExpired, Server!IsExpired,
     Layer, Server!Layer, AfterDecide, Server!AfterDecide, AfterTimeout, Server!AfterTimeout,
     VerdictOf, Server!VerdictOf, NewSession, Server!NewSession, Tighten, Server!Tighten,
     Threshold, Server!Threshold, RuleLayer, Server!RuleLayer, MemoryLayer,
     Server!MemoryLayer, StandingLayer, Server!StandingLayer, OverCeiling,
     Server!OverCeiling, BudgetSpent, Server!BudgetSpent, NothingRemembered,
     Server!NothingRemembered, Remembered, Server!Remembered, Read, Server!Read, Mutate,
     Server!Mutate, External, Server!External, Destructive, Server!Destructive, NeverAsk,
     Server!NeverAsk, Privileged, Server!Privileged

ServerPhases == {"idle", "judge", "asked", "run", "ran", "refused"}

\* A call that is judged or has asked is about an action.
ServerTyped ==
    /\ serverSession \in Session /\ serverSession.expiresAt = None
    /\ serverPc \in [ServerCalls -> ServerPhases]
    /\ serverAsks \in [ServerCalls -> Actions \cup {None}]
    /\ serverStats \in [Server!Counters -> Nat]
    /\ \A c \in ServerCalls : serverPc[c] \in {"judge", "asked"} => serverAsks[c] \in Actions

ServerInv == ServerTyped /\ NothingLeftToAnswer

CallsOver(places) == {c \in ServerCalls : places[c] \in {"ran", "refused"}}
Settled(counts) == counts["ran"] + counts["refused_needing_approval"] + counts["refused_other"]

\* The server counts as everybody does.
LEMMA SameCount == \A S : Server!Cardinality(S) = Cardinality(S)
  BY DEF Server!Cardinality, Cardinality, Server!IsFiniteSet, IsFiniteSet

\* What NothingLeftToAnswer says, in these terms.
LEMMA NothingLeftMeans ==
    NothingLeftToAnswer <=>
        /\ serverSession.outstanding # None =>
               \E c \in ServerCalls :
                   serverPc[c] = "asked" /\ serverAsks[c] = serverSession.outstanding.act
        /\ Settled(serverStats) = Cardinality(CallsOver(serverPc))
  BY SameCount DEF NothingLeftToAnswer, Server!NothingLeftToAnswer, Server!Over, CallsOver, Settled

\* A counter goes up by one.
LEMMA OneMoreCounted ==
    ASSUME NEW counts \in [Server!Counters -> Nat], NEW k \in Server!Counters
    PROVE  LET next == [counts EXCEPT ![k] = @ + 1]
           IN /\ next \in [Server!Counters -> Nat]
              /\ Settled(counts) \in Nat
              /\ Settled(next) = IF k = "calls" THEN Settled(counts) ELSE Settled(counts) + 1
  BY DEF Server!Counters, Settled

LEMMA ServerInitial == Server!Init => ServerInv
  <1> SUFFICES ASSUME Server!Init PROVE ServerInv
    OBVIOUS
  <1>1. /\ serverSession = NewSession(ServerLevel, None)
        /\ serverPc = [c \in ServerCalls |-> "idle"]
        /\ serverAsks = [c \in ServerCalls |-> None]
        /\ serverStats = [k \in Server!Counters |-> 0]
    BY ServerPolicy DEF Server!Init
  <1>2. /\ serverSession \in Session /\ serverSession.expiresAt = None
        /\ serverSession.outstanding = None
    BY <1>1, ConsentAssumption DEF NewSession, Session, NothingRemembered, Remembered
  <1>3. ServerTyped
    BY <1>1, <1>2 DEF ServerTyped, ServerPhases
  <1>4. CallsOver(serverPc) = {}
    BY <1>1 DEF CallsOver
  <1>5. Settled(serverStats) = 0
    BY <1>1 DEF Settled, Server!Counters
  <1> QED
    BY <1>2, <1>3, <1>4, <1>5, FS_EmptySet, NothingLeftMeans DEF ServerInv

\* A step of one call: where it goes, what is counted, what question is left.
LEMMA ServerCallStep ==
    ASSUME ServerInv, NEW c \in ServerCalls, NEW p \in ServerPhases,
           serverPc[c] \notin {"ran", "refused"},
           serverPc' = [serverPc EXCEPT ![c] = p],
           serverSession' \in Session, serverSession'.expiresAt = None,
           serverAsks' \in [ServerCalls -> Actions \cup {None}],
           \A d \in ServerCalls \ {c} : serverAsks'[d] = serverAsks[d],
           p \in {"judge", "asked"} => serverAsks'[c] \in Actions,
           \/ /\ p \in {"ran", "refused"}
              /\ \E k \in Server!Counters \ {"calls"} :
                     serverStats' = [serverStats EXCEPT ![k] = @ + 1]
           \/ /\ p \notin {"ran", "refused"}
              /\ \/ serverStats' = serverStats
                 \/ serverStats' = [serverStats EXCEPT !["calls"] = @ + 1],
           \/ serverSession'.outstanding = None
           \/ serverSession'.outstanding = serverSession.outstanding /\ serverPc[c] # "asked"
           \/ serverSession'.outstanding # None /\ p = "asked"
              /\ serverSession'.outstanding.act = serverAsks'[c]
    PROVE  ServerInv'
  <1>1. /\ serverPc \in [ServerCalls -> ServerPhases] /\ serverStats \in [Server!Counters -> Nat]
        /\ \A d \in ServerCalls : serverPc[d] \in {"judge", "asked"} => serverAsks[d] \in Actions
    BY DEF ServerInv, ServerTyped
  <1>2. /\ serverPc' \in [ServerCalls -> ServerPhases] /\ serverPc'[c] = p
        /\ \A d \in ServerCalls \ {c} : serverPc'[d] = serverPc[d]
    BY <1>1
  <1>3. /\ Cardinality(CallsOver(serverPc)) \in Nat
        /\ p \in {"ran", "refused"} =>
               Cardinality(CallsOver(serverPc')) = Cardinality(CallsOver(serverPc)) + 1
        /\ p \notin {"ran", "refused"} =>
               Cardinality(CallsOver(serverPc')) = Cardinality(CallsOver(serverPc))
    <2>1. IsFiniteSet(CallsOver(serverPc)) /\ c \notin CallsOver(serverPc)
      <3>1. CallsOver(serverPc) \subseteq ServerCalls
        BY DEF CallsOver
      <3>2. IsFiniteSet(CallsOver(serverPc))
        BY <3>1, ConsentAssumption, FS_Subset
      <3> QED
        BY <3>2 DEF CallsOver
    <2>2. Cardinality(CallsOver(serverPc)) \in Nat
      BY <2>1, FS_CardinalityType
    <2>3. CASE p \in {"ran", "refused"}
      <3>1. CallsOver(serverPc') = CallsOver(serverPc) \cup {c}
        BY <1>2, <2>3 DEF CallsOver
      <3>2. Cardinality(CallsOver(serverPc) \cup {c}) = Cardinality(CallsOver(serverPc)) + 1
        BY <2>1, FS_AddElement
      <3>3. Cardinality(CallsOver(serverPc')) = Cardinality(CallsOver(serverPc)) + 1
        BY <3>1, <3>2
      <3> QED
        BY <2>2, <2>3, <3>3
    <2>4. CASE p \notin {"ran", "refused"}
      <3>1. CallsOver(serverPc') = CallsOver(serverPc)
        BY <1>2, <2>4 DEF CallsOver
      <3> QED
        BY <2>2, <2>4, <3>1
    <2> QED
      BY <2>3, <2>4
  <1>4. /\ serverStats' \in [Server!Counters -> Nat]
        /\ Settled(serverStats') =
               IF p \in {"ran", "refused"} THEN Settled(serverStats) + 1 ELSE Settled(serverStats)
    <2>1. "calls" \in Server!Counters
      BY DEF Server!Counters
    <2> QED
      BY <1>1, <2>1, OneMoreCounted
  <1>5. ServerTyped'
    BY <1>1, <1>2, <1>4 DEF ServerTyped
  <1>6. serverSession'.outstanding # None =>
            \E d \in ServerCalls :
                serverPc'[d] = "asked" /\ serverAsks'[d] = serverSession'.outstanding.act
    <2>1. CASE serverSession'.outstanding = serverSession.outstanding /\ serverPc[c] # "asked"
      BY <1>2, <2>1, NothingLeftMeans DEF ServerInv
    <2> QED
      BY <1>2, <2>1
  <1>7. Settled(serverStats') = Cardinality(CallsOver(serverPc'))
    BY <1>3, <1>4, NothingLeftMeans DEF ServerInv
  <1>8. NothingLeftToAnswer'
    BY <1>6, <1>7, SameCount
       DEF NothingLeftToAnswer, Server!NothingLeftToAnswer, Server!Over, CallsOver, Settled
  <1> QED
    BY <1>5, <1>8 DEF ServerInv

LEMMA ServerStep == ServerInv /\ [Server!Next]_(Server!vars) => ServerInv'
  <1> SUFFICES ASSUME ServerInv, [Server!Next]_(Server!vars) PROVE ServerInv'
    OBVIOUS
  <1>1. CASE UNCHANGED Server!vars
    BY <1>1 DEF Server!vars, ServerInv, ServerTyped, NothingLeftToAnswer,
       Server!NothingLeftToAnswer
  <1>2. ASSUME NEW c \in ServerCalls,
               \/ \E a \in Actions \cup {None} : Server!Call(c, a)
               \/ Server!RefuseEarly(c) \/ Server!Decide(c) \/ Server!TimeOut(c) \/ Server!Run(c)
        PROVE  ServerInv'
    <2>1. /\ serverSession \in Session /\ serverSession.expiresAt = None
          /\ serverAsks \in [ServerCalls -> Actions \cup {None}]
          /\ serverPc[c] \in {"judge", "asked"} => serverAsks[c] \in Actions
      BY DEF ServerInv, ServerTyped
    <2>2. /\ {"ran", "refused_needing_approval", "refused_other"}
                 \subseteq Server!Counters \ {"calls"}
          /\ {"idle", "judge", "asked", "run", "ran", "refused"} \subseteq ServerPhases
      BY DEF Server!Counters, ServerPhases
    <2>3. CASE \E a \in Actions \cup {None} : Server!Call(c, a)
      <3>1. PICK a \in Actions \cup {None} : Server!Call(c, a)
        BY <2>3
      <3> DEFINE p == IF a = None THEN "run" ELSE "judge"
      <3>2. /\ serverPc[c] = "idle" /\ serverPc' = [serverPc EXCEPT ![c] = p]
            /\ serverAsks' = [serverAsks EXCEPT ![c] = a]
            /\ serverSession' = serverSession
            /\ serverStats' = [serverStats EXCEPT !["calls"] = @ + 1]
        BY <3>1 DEF Server!Call, Server!Bump
      <3>3. /\ serverAsks' \in [ServerCalls -> Actions \cup {None}] /\ serverAsks'[c] = a
            /\ \A d \in ServerCalls \ {c} : serverAsks'[d] = serverAsks[d]
        BY <2>1, <3>2
      <3>4. /\ p \in ServerPhases /\ p \notin {"ran", "refused"}
            /\ p \in {"judge", "asked"} => a \in Actions
        BY <2>2
      <3> HIDE DEF p
      <3> QED
        BY <2>1, <3>2, <3>3, <3>4, ServerCallStep
    <2>4. CASE Server!RefuseEarly(c)
      <3>1. /\ serverPc[c] = "judge" /\ serverPc' = [serverPc EXCEPT ![c] = "refused"]
            /\ serverSession' = serverSession /\ serverAsks' = serverAsks
            /\ serverStats' = [serverStats EXCEPT !["refused_other"] = @ + 1]
        BY <2>4 DEF Server!RefuseEarly, Server!RefuseOther, Server!Bump
      <3> QED
        BY <2>1, <2>2, <3>1, ServerCallStep
    <2>5. CASE Server!Decide(c)
      <3> DEFINE act == serverAsks[c]
                 layer == Layer(serverSession, act)
      <3>1. /\ serverPc[c] = "judge" /\ act \in Actions /\ serverAsks' = serverAsks
            /\ serverSession' = AfterDecide(serverSession, act, 0, 0)
            /\ \/ /\ VerdictOf(layer) = "allow" /\ serverPc' = [serverPc EXCEPT ![c] = "run"]
                  /\ serverStats' = serverStats
               \/ /\ VerdictOf(layer) = "ask" /\ serverPc' = [serverPc EXCEPT ![c] = "asked"]
                  /\ serverStats' = serverStats
               \/ /\ VerdictOf(layer) = "deny" /\ serverPc' = [serverPc EXCEPT ![c] = "refused"]
                  /\ serverStats' = [serverStats EXCEPT !["refused_other"] = @ + 1]
        BY <2>1, <2>5, ServerPolicy DEF Server!Decide, Server!RefuseOther, Server!Bump
      <3>2. /\ serverSession' \in Session
            /\ serverSession'.expiresAt = DropExpired(serverSession, 0).expiresAt
            /\ serverSession'.outstanding =
                   IF Layer(DropExpired(serverSession, 0), act) \in AskLayers
                     THEN [id |-> 0, act |-> act] ELSE serverSession.outstanding
        BY <2>1, <3>1, AfterDecideFacts
      <3>3. DropExpired(serverSession, 0) = serverSession
        BY <2>1, DropExpiredFacts DEF ServerInv, ServerTyped, IsExpired
      <3>4. VerdictOf(layer) = "ask" <=> layer \in AskLayers
        BY LayersApart DEF VerdictOf
      <3>5. [id |-> 0, act |-> act] # None /\ [id |-> 0, act |-> act].act = act
        <4>1. [id |-> 0, act |-> act] \in Question
          BY <3>1 DEF Question
        <4> QED
          BY <4>1, PolicyAssumption
      <3> HIDE DEF act, layer
      <3> QED
        BY <2>1, <2>2, <3>1, <3>2, <3>3, <3>4, <3>5, ServerCallStep DEF act, layer
    <2>6. CASE Server!TimeOut(c)
      <3>1. /\ serverPc[c] = "asked" /\ serverPc' = [serverPc EXCEPT ![c] = "refused"]
            /\ serverSession' = AfterTimeout(serverSession) /\ serverAsks' = serverAsks
            /\ serverStats' = [serverStats EXCEPT !["refused_needing_approval"] = @ + 1]
        BY <2>6, ServerPolicy DEF Server!TimeOut, Server!Bump
      <3>2. /\ serverSession' \in Session /\ serverSession'.expiresAt = None
            /\ serverSession'.outstanding = None
        BY <2>1, <3>1 DEF AfterTimeout, Session
      <3> QED
        BY <2>1, <2>2, <3>1, <3>2, ServerCallStep
    <2>7. CASE Server!Run(c)
      <3>1. /\ serverPc[c] = "run" /\ serverPc' = [serverPc EXCEPT ![c] = "ran"]
            /\ serverSession' = serverSession /\ serverAsks' = serverAsks
            /\ serverStats' = [serverStats EXCEPT !["ran"] = @ + 1]
        BY <2>7 DEF Server!Run, Server!Bump
      <3> QED
        BY <2>1, <2>2, <3>1, ServerCallStep
    <2> QED
      BY <1>2, <2>3, <2>4, <2>5, <2>6, <2>7
  <1> QED
    BY <1>1, <1>2 DEF Server!Next

\* However many calls meet between one's decide and its timeout, a question is
\* outstanding only while a call that raised it is in progress, and every call that
\* is over was counted once (server.rs, call).
THEOREM NothingIsLeft == Server!Spec => []NothingLeftToAnswer
  <1>1. ServerInv => NothingLeftToAnswer
    BY DEF ServerInv
  <1> QED
    BY <1>1, ServerInitial, ServerStep, PTL DEF Server!Spec

=============================================================================

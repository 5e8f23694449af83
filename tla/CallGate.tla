----------------------------- MODULE CallGate -----------------------------
(***************************************************************************)
(* One daemon run putting its tool calls through the gate: the approval    *)
(* session chat.rs builds for the request, the approver it selects for the *)
(* request's autonomy level, and the decide / ask / resolve sequence of    *)
(* AgentLoop::handle_call between them.                                    *)
(*                                                                         *)
(* The queue and the phone are taken as what ApprovalPromise says of them: *)
(* the first entitled answer or a denial.  A run handles its calls one at  *)
(* a time, so nothing touches its session between decide and resolve.      *)
(***************************************************************************)
EXTENDS ApprovalPolicy

CONSTANTS
    Harmless,            \* calls of tools with no external effect: nothing gates them
    Capable,             \* actions the run's capability token covers
    Levels,              \* the autonomy levels a request may carry
    GrantEnds,           \* policy.expires_at of the deployment, or None
    MaxNow, MaxCalls     \* bounds: clock, tool calls

ASSUME GateAssumption ==
    /\ GrantEnds \in Nat \cup {None}
    /\ Levels \subseteq AutonomyLevel
    /\ Harmless \subseteq Actions \ Capable

PhoneCeiling == External

VARIABLES
    approver,    \* who answers this run's prompts
    asLevel,     \* the level the request asked for
    session,
    now,
    pc,          \* "ready", "deciding", "asking", "running"
    call,        \* the action being handled
    calls,       \* calls handled so far
    consent,     \* history: keys a person granted for the chat, in the grant in force
    yes,         \* history: a person said yes to the call being handled
    refused,     \* history: keys a person denied, in the grant in force
    ran          \* history: how the last call that ran got there, or None

vars == <<approver, asLevel, session, now, pc, call, calls, consent, yes, refused, ran>>

Approvers == {"AlwaysAllow", "RefusingApprover", "PhoneApprover", "ApprovalQueue"}

TypeOK ==
    /\ approver \in Approvers
    /\ asLevel \in AutonomyLevel
    /\ session \in Session
    /\ now \in Nat
    /\ pc \in {"ready", "deciding", "asking", "running"}
    /\ call \in Actions \cup {None}
    /\ calls \in Nat
    /\ consent \in SUBSET Keys
    /\ yes \in BOOLEAN
    /\ refused \in SUBSET Keys
    /\ ran \in [act : Actions, person : BOOLEAN, level : AutonomyLevel] \cup {None}

\* chat.rs: yolo first, then a request that will not wait, then the phone if
\* one is configured, else the queue.
ApproverFor(level, willWait, hasPhone) ==
    IF level = "yolo" THEN "AlwaysAllow"
    ELSE IF ~willWait THEN "RefusingApprover"
    ELSE IF hasPhone THEN "PhoneApprover"
    ELSE "ApprovalQueue"

Init ==
    /\ \E level \in Levels, willWait, hasPhone \in BOOLEAN :
           /\ asLevel = level
           /\ approver = ApproverFor(level, willWait, hasPhone)
           /\ session = AfterSetLevel(NewSession("balanced", GrantEnds), level)
    /\ now = 0
    /\ pc = "ready"
    /\ call = None
    /\ calls = 0
    /\ consent = {}
    /\ yes = FALSE
    /\ refused = {}
    /\ ran = None

-----------------------------------------------------------------------------
\* The call is finished; its result goes back to the model.
Finished ==
    /\ pc' = "ready"
    /\ call' = None
    /\ calls' = calls + 1
    /\ yes' = FALSE

\* Phases 1 and 2: a call the token does not cover is refused, unapprovably.
Propose(act) ==
    /\ pc = "ready"
    /\ calls < MaxCalls
    /\ \/ act \in Harmless /\ pc' = "running" /\ call' = act /\ UNCHANGED <<calls, yes>>
       \/ act \in Capable /\ pc' = "deciding" /\ call' = act /\ UNCHANGED <<calls, yes>>
       \/ act \notin Harmless \cup Capable /\ Finished
    /\ ran' = None
    /\ UNCHANGED <<approver, asLevel, session, now, consent, refused>>

\* Phase 3: the verdict of the session.
Decide ==
    LET layer == Layer(DropExpired(session, now), call)
    IN /\ pc = "deciding"
       /\ session' = AfterDecide(session, call, calls, now)
       /\ CASE layer \in AllowLayers -> pc' = "running" /\ UNCHANGED <<call, calls, yes>>
            [] layer \in AskLayers   -> pc' = "asking" /\ UNCHANGED <<call, calls, yes>>
            [] layer \in DenyLayers  -> Finished
       /\ consent' = IF IsExpired(session, now) THEN {} ELSE consent
       /\ refused' = IF IsExpired(session, now) THEN {} ELSE refused
       /\ UNCHANGED <<approver, asLevel, now, ran>>

\* The approver's answer, resolved against the session at once.
Resolved(option, byPerson) ==
    /\ session' = AfterResolve(session, calls, option, call)
    /\ IF ResolveVerdict(session, calls, option) = "allow"
         THEN pc' = "running" /\ yes' = byPerson /\ UNCHANGED <<call, calls>>
         ELSE Finished
    /\ consent' = IF byPerson /\ option \in {"AllowForChat", "AllowAlways"}
                    THEN consent \cup {KeyOf[call]}
                  ELSE IF byPerson /\ option = "Deny" THEN consent \ {KeyOf[call]}
                  ELSE consent
    /\ refused' = IF byPerson /\ option = "Deny" THEN refused \cup {KeyOf[call]}
                  ELSE IF byPerson /\ option \in {"AllowForChat", "AllowAlways"}
                    THEN refused \ {KeyOf[call]}
                  ELSE refused
    /\ UNCHANGED <<approver, asLevel, now, ran>>

\* AlwaysAllow answers every prompt "for this chat", and nobody is asked.
AlwaysAllow ==
    /\ pc = "asking"
    /\ approver = "AlwaysAllow"
    /\ Resolved("AllowForChat", FALSE)

RefusingApprover ==
    /\ pc = "asking"
    /\ approver = "RefusingApprover"
    /\ Resolved("Deny", FALSE)

\* A lock screen offers yes or no, and its yes reaches only to its ceiling.
PhoneTap(option) ==
    /\ pc = "asking"
    /\ approver = "PhoneApprover"
    /\ option \in {"AllowOnce", "Deny"}
    /\ Allows(option) => Covers(PhoneCeiling, RiskOf[call])
    /\ Resolved(option, TRUE)

\* Any surface with a sufficient ceiling, with any of the four options.
QueueAnswer(option, ceiling) ==
    /\ pc = "asking"
    /\ approver = "ApprovalQueue"
    /\ Covers(ceiling, RiskOf[call])
    /\ Resolved(option, TRUE)

\* Mutant of Silence: a prompt that timed out on a read is let through.
SilenceAllowsReads ==
    /\ pc = "asking"
    /\ approver \in {"PhoneApprover", "ApprovalQueue"}
    /\ Resolved(IF RiskOf[call] = Read THEN "AllowForChat" ELSE "Deny", FALSE)

\* Mutant of Silence: only the phone's wait is bounded.
SilencePhoneOnly ==
    /\ pc = "asking"
    /\ approver = "PhoneApprover"
    /\ Resolved("Deny", FALSE)

\* Nobody answered within the wait: a denial, resolved like any other.
Silence ==
    /\ pc = "asking"
    /\ approver \in {"PhoneApprover", "ApprovalQueue"}
    /\ Resolved("Deny", FALSE)

\* Phase 4: the tool runs.
RunTool ==
    /\ pc = "running"
    /\ ran' = [act |-> call, person |-> yes \/ KeyOf[call] \in consent, level |-> session.level]
    /\ Finished
    /\ UNCHANGED <<approver, asLevel, session, now, consent, refused>>

Tick ==
    /\ now < MaxNow
    /\ now' = now + 1
    /\ UNCHANGED <<approver, asLevel, session, pc, call, calls, consent, yes, refused, ran>>

Next ==
    \/ \E act \in Actions : Propose(act)
    \/ Decide
    \/ AlwaysAllow
    \/ RefusingApprover
    \/ \E option \in ApprovalOption : PhoneTap(option)
    \/ \E option \in ApprovalOption, ceiling \in RiskClass : QueueAnswer(option, ceiling)
    \/ Silence
    \/ RunTool
    \/ Tick

Safety == Init /\ [][Next]_vars

\* decide, the automatic approvers and the tool always return; a person need
\* not answer, but the wait for one ends.
Fairness ==
    /\ WF_vars(Decide) /\ WF_vars(RunTool)
    /\ WF_vars(AlwaysAllow) /\ WF_vars(RefusingApprover) /\ WF_vars(Silence)

Spec == Safety /\ Fairness

-----------------------------------------------------------------------------
\* Unless the request itself asked for yolo, whatever runs at or above the class
\* the level in force asks about was put to a person who said yes, or is on the
\* allow list: no timeout, refusal or stale memory stands in for consent.
RiskyRunsHaveConsent ==
    ran # None /\ asLevel # "yolo" /\ RiskOf[ran.act] >= Threshold(ran.level) =>
        ran.person \/ ran.act \in AllowListed \cup Harmless

\* A no lasts: once a person denied a key, nothing under it runs until the grant
\* it was given in expires or a person grants the key, except an action an ask
\* rule puts to them anew.
DenialSticks ==
    ran # None /\ KeyOf[ran.act] \in refused => ran.act \in AskFirst \cup Harmless

\* Every call that passed the capability check gets a result.
EveryCallReturns == pc = "deciding" ~> pc = "ready"

\* docs/approvals.md, "ceiling: destructive  # sudo always asks, even under
\* --autonomy yolo": above the ceiling nothing runs without a person's yes or an
\* allow rule, at any level.
CeilingSurvivesYolo ==
    ran # None /\ OverCeiling(ran.act) => ran.person \/ ran.act \in AllowListed

=============================================================================

-------------------------- MODULE ApprovalSession --------------------------
(***************************************************************************)
(* One chat's approval session driven through its whole public interface,  *)
(* in any order its callers can produce: actions decided, questions        *)
(* answered late or out of order, unanswered prompts timed out, the level  *)
(* changed, the grant revoked or expiring between any two calls.           *)
(***************************************************************************)
EXTENDS ApprovalPolicy

CONSTANTS
    InitialLevel, GrantEnds,      \* the policy the session starts from
    MaxNow, MaxAsks, MaxAuto      \* bounds: clock, questions, consecutive_auto

VARIABLES
    session,
    now,          \* the clock decide is passed
    held,         \* questions handed to callers and not resolved yet
    asks,         \* questions asked so far; the next approval id
    last,         \* what the latest call returned, if it was decide or resolve
    unreviewed,   \* history: actions the level alone let through since a review
    yesAt,        \* history: when each key was last granted for the chat
    granted       \* history: the level and end of the scoped grant, None once replaced

vars == <<session, now, held, asks, last, unreviewed, yesAt, granted>>

Observed ==
    [op : {"decide", "resolve"}, act : Actions, id : Nat,
     verdict : {"allow", "ask", "deny"}, layer : AllowLayers \cup AskLayers \cup DenyLayers \cup {"person"}]

TypeOK ==
    /\ session \in Session
    /\ now \in Nat
    /\ held \in SUBSET Question
    /\ asks \in Nat
    /\ last \in Observed \cup {None}
    /\ unreviewed \in Nat
    /\ yesAt \in [Keys -> Nat \cup {None}]
    /\ granted \in [level : AutonomyLevel, ends : Nat \cup {None}] \cup {None}

Init ==
    /\ session = NewSession(InitialLevel, GrantEnds)
    /\ now = 0
    /\ held = {}
    /\ asks = 0
    /\ last = None
    /\ unreviewed = 0
    /\ yesAt = [k \in Keys |-> None]
    /\ granted = [level |-> InitialLevel, ends |-> GrantEnds]

Decide(act) ==
    LET layer == Layer(DropExpired(session, now), act)
    IN /\ asks < MaxAsks
       /\ session.auto < MaxAuto
       /\ session' = AfterDecide(session, act, asks, now)
       /\ last' = [op |-> "decide", act |-> act, id |-> asks,
                   verdict |-> VerdictOf(layer), layer |-> layer]
       /\ IF layer \in AskLayers
            THEN /\ held' = held \cup {[id |-> asks, act |-> act]}
                 /\ asks' = asks + 1
            ELSE UNCHANGED <<held, asks>>
       /\ unreviewed' = IF layer = "level" THEN unreviewed + 1 ELSE unreviewed
       /\ UNCHANGED <<now, yesAt, granted>>

Resolve(q, option) ==
    LET counts == Current(session, q.id)
    IN /\ q \in held
       /\ held' = held \ {q}
       /\ session' = AfterResolve(session, q.id, option, q.act)
       /\ last' = [op |-> "resolve", act |-> q.act, id |-> q.id,
                   verdict |-> ResolveVerdict(session, q.id, option), layer |-> "person"]
       /\ unreviewed' = IF counts THEN 0 ELSE unreviewed
       /\ yesAt' = IF counts /\ option \in {"AllowForChat", "AllowAlways"}
                     THEN [yesAt EXCEPT ![KeyOf[q.act]] = now] ELSE yesAt
       /\ UNCHANGED <<now, asks, granted>>

Timeout ==
    /\ session.outstanding # None
    /\ session' = AfterTimeout(session)
    /\ held' = held \ {session.outstanding}
    /\ last' = None
    /\ UNCHANGED <<now, asks, unreviewed, yesAt, granted>>

SetLevel(level) ==
    /\ session' = AfterSetLevel(session, level)
    /\ unreviewed' = 0
    /\ granted' = None
    /\ last' = None
    /\ UNCHANGED <<now, held, asks, yesAt>>

Revoke ==
    /\ session' = AfterRevoke(session)
    /\ unreviewed' = 0
    /\ granted' = None
    /\ yesAt' = [k \in Keys |-> None]
    /\ last' = None
    /\ UNCHANGED <<now, held, asks>>

TakePromotions ==
    /\ session.promotions # {}
    /\ session' = AfterTakePromotions(session)
    /\ last' = None
    /\ UNCHANGED <<now, held, asks, unreviewed, yesAt, granted>>

Tick ==
    /\ now < MaxNow
    /\ now' = now + 1
    /\ last' = None
    /\ UNCHANGED <<session, held, asks, unreviewed, yesAt, granted>>

Next ==
    \/ \E act \in Actions : Decide(act)
    \/ \E q \in held, option \in ApprovalOption : Resolve(q, option)
    \/ Timeout
    \/ \E level \in AutonomyLevel : SetLevel(level)
    \/ Revoke
    \/ TakePromotions
    \/ Tick

Spec == Init /\ [][Next]_vars

-----------------------------------------------------------------------------
Ran == last # None /\ last.verdict = "allow"
RanUnasked == Ran /\ last.op = "decide"

\* Rules outrank memory. No history of answers, levels and expiries gets an
\* action past a deny rule or past the refusal of an unenumerable deletion, not
\* even when an allowed action shares its key; and an ask rule is never satisfied
\* by an earlier yes or an allow rule: each such action that runs was put to a person.
RulesOutrankMemory ==
    Ran => /\ last.act \notin Denied \cup Unenumerable
           /\ last.act \in AskFirst => last.op = "resolve"

\* The check-in cadence: between two reviews the level lets through at most
\* Budget actions nobody looked at.
CheckInCadence == Budget # None /\ Budget > 0 => unreviewed <= Budget

\* A yes remembered under a scoped grant dies with the grant: at or after its
\* end nothing runs on an answer given before it, and nothing runs on the
\* grant's own level.
GrantDiesAtItsEnd ==
    RanUnasked /\ granted # None /\ granted.ends # None /\ now >= granted.ends =>
        \/ last.layer = "allow_rule"
        \/ last.layer = "remembered_allow" /\ yesAt[KeyOf[last.act]] >= granted.ends
        \/ last.layer = "level" /\ RiskOf[last.act] < Threshold(Tighten(granted.level))

\* What runs without a question stays bounded whatever the order of answers, level
\* changes and expiries: by the budget between two reviews, and by the grant's end.
LenienceIsBounded == CheckInCadence /\ GrantDiesAtItsEnd

=============================================================================

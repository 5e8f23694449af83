--------------------------- MODULE ApprovalPolicy ---------------------------
(***************************************************************************)
(* The approval state of one chat as a value, and the operations on it     *)
(* (ApprovalSession in hx-core/src/approval.rs).  Each operation maps the  *)
(* session before to the session after and a verdict; the modules that     *)
(* hold a session apply them under its mutex, so each is one step.         *)
(*                                                                         *)
(* An action request is a member of Actions.  What the checks read of it   *)
(* is its risk class, the key a decision is remembered under and which     *)
(* rule lists it matches; several actions may share a key (rule_key: a     *)
(* tool's name, or a low-risk command's first words).                      *)
(***************************************************************************)
EXTENDS RiskLadder

CONSTANTS
    Actions, Keys,
    KeyOf,          \* [Actions -> Keys]
    RiskOf,         \* [Actions -> RiskClass]
    Denied,         \* actions a deny rule matches, the shipped floor included
    Unenumerable,   \* deletions refused because their targets cannot be listed
    AskFirst,       \* actions an ask rule matches
    AllowListed,    \* actions an allow rule matches
    Ceiling,        \* policy.ceiling: a risk class, or None
    Budget,         \* policy.unattended_budget: a count, or None
    None

Remembered == {"nothing", "allow", "deny"}
NothingRemembered == [k \in Keys |-> "nothing"]

Question == [id : Nat, act : Actions]

ASSUME PolicyAssumption ==
    /\ KeyOf \in [Actions -> Keys]
    /\ RiskOf \in [Actions -> RiskClass]
    /\ Ceiling \in RiskClass \cup {None}
    /\ Budget \in Nat \cup {None}
    /\ None \notin Nat \cup Question

Session ==
    [level       : AutonomyLevel,
     expiresAt   : Nat \cup {None},
     remembered  : [Keys -> Remembered],
     auto        : Nat,                      \* consecutive_auto
     promotions  : SUBSET Actions,
     outstanding : Question \cup {None}]

NewSession(level, expiresAt) ==
    [level |-> level, expiresAt |-> expiresAt, remembered |-> NothingRemembered,
     auto |-> 0, promotions |-> {}, outstanding |-> None]

-----------------------------------------------------------------------------
(* decide                                                                  *)

IsExpired(s, now) == s.expiresAt # None /\ now >= s.expiresAt

\* Mutant of DropExpired: the level tightens but nothing is forgotten.
DropExpiredKeepsMemory(s, now) ==
    IF IsExpired(s, now) THEN [s EXCEPT !.level = Tighten(@), !.expiresAt = None] ELSE s

\* An expired grant tightens the level and forgets what was remembered under it.
DropExpired(s, now) ==
    IF IsExpired(s, now)
      THEN [s EXCEPT !.level = Tighten(@), !.expiresAt = None, !.remembered = NothingRemembered]
      ELSE s

OverCeiling(act) == Ceiling # None /\ RiskOf[act] > Ceiling
BudgetSpent(s) == Budget # None /\ Budget > 0 /\ s.auto >= Budget

\* The checks of decide in three groups; "pass" hands on to the next.
RuleLayer(act) ==
    IF act \in Denied THEN "deny_rule"
    ELSE IF act \in Unenumerable THEN "unenumerable"
    ELSE IF act \in AskFirst THEN "ask_rule"
    ELSE "pass"

MemoryLayer(s, act) ==
    CASE s.remembered[KeyOf[act]] = "deny"    -> "remembered_deny"
      [] s.remembered[KeyOf[act]] = "allow"   -> "remembered_allow"
      [] s.remembered[KeyOf[act]] = "nothing" -> "pass"

StandingLayer(s, act) ==
    IF act \in AllowListed THEN "allow_rule"
    ELSE IF OverCeiling(act) THEN "ceiling"
    ELSE IF BudgetSpent(s) THEN "budget"
    ELSE IF RiskOf[act] >= Threshold(s.level) THEN "threshold"
    ELSE "level"

\* Mutant of Layer: what is remembered is consulted before the rules.
LayerMemoryFirst(s, act) ==
    IF MemoryLayer(s, act) # "pass" THEN MemoryLayer(s, act)
    ELSE IF RuleLayer(act) # "pass" THEN RuleLayer(act)
    ELSE StandingLayer(s, act)

\* The first check, in decide's order, that settles the action.
Layer(s, act) ==
    IF RuleLayer(act) # "pass" THEN RuleLayer(act)
    ELSE IF MemoryLayer(s, act) # "pass" THEN MemoryLayer(s, act)
    ELSE StandingLayer(s, act)

AllowLayers == {"remembered_allow", "allow_rule", "level"}
AskLayers   == {"ask_rule", "ceiling", "budget", "threshold"}
DenyLayers  == {"deny_rule", "unenumerable", "remembered_deny"}

VerdictOf(layer) ==
    IF layer \in AllowLayers THEN "allow" ELSE IF layer \in AskLayers THEN "ask" ELSE "deny"

\* The session after decide.  An allow counts against the budget; an ask parks
\* the question, under the fresh id `id`, in place of any earlier one.
AfterDecide(s, act, id, now) ==
    LET live  == DropExpired(s, now)
        layer == Layer(live, act)
    IN IF layer \in AllowLayers THEN [live EXCEPT !.auto = @ + 1]
       ELSE IF layer \in AskLayers THEN [live EXCEPT !.outstanding = [id |-> id, act |-> act]]
       ELSE live

-----------------------------------------------------------------------------
(* resolve, timeout, set_level, revoke, take_promotions                    *)

Current(s, id) == s.outstanding # None /\ s.outstanding.id = id

ResolveVerdict(s, id, option) ==
    IF Current(s, id) /\ Allows(option) THEN "allow" ELSE "deny"

\* Mutant of AfterResolve: a no settles the call it answers and is not kept.
AfterResolveForgetsNo(s, id, option, act) ==
    IF ~Current(s, id) THEN s
    ELSE [s EXCEPT !.outstanding = None,
                   !.auto = 0,
                   !.remembered[KeyOf[act]] =
                        IF option \in {"AllowForChat", "AllowAlways"} THEN "allow" ELSE @,
                   !.promotions = IF option = "AllowAlways" THEN @ \cup {act} ELSE @]

\* An answer to any question but the outstanding one changes nothing.
AfterResolve(s, id, option, act) ==
    IF ~Current(s, id) THEN s
    ELSE [s EXCEPT !.outstanding = None,
                   !.auto = 0,
                   !.remembered[KeyOf[act]] =
                        CASE option \in {"AllowForChat", "AllowAlways"} -> "allow"
                          [] option = "Deny" -> "deny"
                          [] OTHER -> @,
                   !.promotions = IF option = "AllowAlways" THEN @ \cup {act} ELSE @]

\* default_on_timeout is Deny on every request decide builds.
AfterTimeout(s) == [s EXCEPT !.outstanding = None]

AfterSetLevel(s, level) == [s EXCEPT !.level = level, !.auto = 0]

AfterRevoke(s) ==
    [s EXCEPT !.level = "balanced", !.expiresAt = None, !.remembered = NothingRemembered,
              !.outstanding = None, !.auto = 0]

AfterTakePromotions(s) == [s EXCEPT !.promotions = {}]

=============================================================================

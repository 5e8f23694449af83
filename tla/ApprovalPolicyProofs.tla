----------------------- MODULE ApprovalPolicyProofs -----------------------
(***************************************************************************)
(* What the operations on an approval session return and preserve, for     *)
(* every session, action, key and rule list.  The theorems about the       *)
(* modules that hold a session rest on these.                              *)
(***************************************************************************)
EXTENDS ApprovalPolicy, TLAPS

-----------------------------------------------------------------------------
(* The ladder                                                              *)

\* A lapsed grant's level is a level.
LEMMA TightenType ==
    ASSUME NEW level \in AutonomyLevel
    PROVE  Tighten(level) \in AutonomyLevel
  BY DEF AutonomyLevel, Tighten

\* Every level has a class it starts asking at.
LEMMA ThresholdType ==
    ASSUME NEW level \in AutonomyLevel
    PROVE  Threshold(level) \in Nat
  BY DEF AutonomyLevel, Threshold, Read, Mutate, External, Destructive, NeverAsk, Privileged

\* A risk is a number, as is a configured budget.
LEMMA RiskType ==
    ASSUME NEW act \in Actions
    PROVE  RiskOf[act] \in Nat /\ KeyOf[act] \in Keys
  BY PolicyAssumption DEF RiskClass, Read, Privileged

-----------------------------------------------------------------------------
(* decide                                                                  *)

\* What an expiry leaves is a session: unchanged, or with a tighter level, no end
\* and nothing remembered; the question and the counter stay.
LEMMA DropExpiredFacts ==
    ASSUME NEW s \in Session, NEW t \in Nat
    PROVE  LET live == DropExpired(s, t)
           IN /\ live \in Session
              /\ live.auto = s.auto /\ live.outstanding = s.outstanding
              /\ live.promotions = s.promotions
              /\ ~IsExpired(s, t) => live = s
              /\ IsExpired(s, t) => /\ live.level = Tighten(s.level)
                                    /\ live.expiresAt = None
                                    /\ \A k \in Keys : live.remembered[k] = "nothing"
  <1>1. NothingRemembered \in [Keys -> Remembered]
    BY DEF NothingRemembered, Remembered
  <1>2. Tighten(s.level) \in AutonomyLevel
    BY TightenType DEF Session
  <1> QED
    BY <1>1, <1>2 DEF DropExpired, Session, NothingRemembered

\* Exactly one check settles an action, and what it says about the action: an
\* allow comes from memory, a rule or the level and never past a deny rule, an ask
\* rule or a remembered no; a question is asked past a remembered no only by rule.
LEMMA LayerFacts ==
    ASSUME NEW s \in Session, NEW act \in Actions
    PROVE  LET layer == Layer(s, act)
           IN /\ layer \in AllowLayers \cup AskLayers \cup DenyLayers
              /\ layer \in AllowLayers =>
                     /\ act \notin Denied \cup Unenumerable \cup AskFirst
                     /\ s.remembered[KeyOf[act]] # "deny"
              /\ layer \in AskLayers =>
                     /\ act \notin Denied \cup Unenumerable
                     /\ act \in AskFirst \/ s.remembered[KeyOf[act]] # "deny"
              /\ layer = "remembered_allow" => s.remembered[KeyOf[act]] = "allow"
              /\ layer = "allow_rule" => act \in AllowListed
              /\ layer = "level" => /\ RiskOf[act] < Threshold(s.level)
                                    /\ ~BudgetSpent(s) /\ ~OverCeiling(act)
  <1>1. s.remembered[KeyOf[act]] \in Remembered
    BY RiskType DEF Session
  <1>2. RiskOf[act] \in Nat /\ Threshold(s.level) \in Nat
    BY RiskType, ThresholdType DEF Session
  <1>3. MemoryLayer(s, act) = CASE s.remembered[KeyOf[act]] = "deny" -> "remembered_deny"
                                [] s.remembered[KeyOf[act]] = "allow" -> "remembered_allow"
                                [] s.remembered[KeyOf[act]] = "nothing" -> "pass"
    BY DEF MemoryLayer
  <1>4. \/ s.remembered[KeyOf[act]] = "deny" /\ MemoryLayer(s, act) = "remembered_deny"
        \/ s.remembered[KeyOf[act]] = "allow" /\ MemoryLayer(s, act) = "remembered_allow"
        \/ s.remembered[KeyOf[act]] = "nothing" /\ MemoryLayer(s, act) = "pass"
    BY <1>1, <1>3 DEF Remembered
  <1> QED
    BY <1>2, <1>4 DEF Layer, RuleLayer, StandingLayer, AllowLayers, AskLayers, DenyLayers

\* The three kinds of layer exclude each other.
LEMMA LayersApart ==
    /\ AllowLayers \cap AskLayers = {}
    /\ AllowLayers \cap DenyLayers = {}
    /\ AskLayers \cap DenyLayers = {}
  BY DEF AllowLayers, AskLayers, DenyLayers

\* decide leaves a session: the live one, with the counter up after an allow and
\* the question parked after an ask.
LEMMA AfterDecideFacts ==
    ASSUME NEW s \in Session, NEW act \in Actions, NEW id \in Nat, NEW t \in Nat
    PROVE  LET live == DropExpired(s, t)
               next == AfterDecide(s, act, id, t)
           IN /\ next \in Session
              /\ next.level = live.level /\ next.expiresAt = live.expiresAt
              /\ next.remembered = live.remembered /\ next.promotions = live.promotions
              /\ next.auto = IF Layer(live, act) \in AllowLayers THEN s.auto + 1 ELSE s.auto
              /\ next.outstanding = IF Layer(live, act) \in AskLayers
                                      THEN [id |-> id, act |-> act] ELSE s.outstanding
  <1> DEFINE live == DropExpired(s, t)
             layer == Layer(live, act)
  <1>1. live \in Session /\ live.auto = s.auto /\ live.outstanding = s.outstanding
    BY DropExpiredFacts
  <1>2. [id |-> id, act |-> act] \in Question
    BY DEF Question
  <1>3. AfterDecide(s, act, id, t) =
            IF layer \in AllowLayers THEN [live EXCEPT !.auto = @ + 1]
            ELSE IF layer \in AskLayers THEN [live EXCEPT !.outstanding = [id |-> id, act |-> act]]
            ELSE live
    BY DEF AfterDecide
  <1> HIDE DEF live, layer
  <1>4. /\ AfterDecide(s, act, id, t) \in Session
        /\ AfterDecide(s, act, id, t).level = live.level
        /\ AfterDecide(s, act, id, t).expiresAt = live.expiresAt
        /\ AfterDecide(s, act, id, t).remembered = live.remembered
        /\ AfterDecide(s, act, id, t).promotions = live.promotions
    BY <1>1, <1>2, <1>3 DEF Session
  <1>5. AfterDecide(s, act, id, t).auto = IF layer \in AllowLayers THEN s.auto + 1 ELSE s.auto
    BY <1>1, <1>3 DEF Session
  <1>6. AfterDecide(s, act, id, t).outstanding =
            IF layer \in AskLayers THEN [id |-> id, act |-> act] ELSE s.outstanding
    BY <1>1, <1>3, LayersApart DEF Session
  <1> QED
    BY <1>4, <1>5, <1>6 DEF live, layer

-----------------------------------------------------------------------------
(* resolve                                                                 *)

\* resolve leaves a session: the same one for an answer to any question but the
\* outstanding one, else one that remembers the answer under the action's key only.
LEMMA AfterResolveFacts ==
    ASSUME NEW s \in Session, NEW id \in Nat, NEW option \in ApprovalOption, NEW act \in Actions
    PROVE  LET next == AfterResolve(s, id, option, act)
           IN /\ next \in Session
              /\ next.level = s.level /\ next.expiresAt = s.expiresAt
              /\ ~Current(s, id) => next = s
              /\ Current(s, id) =>
                     /\ next.outstanding = None /\ next.auto = 0
                     /\ \A k \in Keys \ {KeyOf[act]} : next.remembered[k] = s.remembered[k]
                     /\ option \in {"AllowForChat", "AllowAlways"} =>
                            next.remembered[KeyOf[act]] = "allow"
                     /\ option = "Deny" => next.remembered[KeyOf[act]] = "deny"
                     /\ option = "AllowOnce" =>
                            next.remembered[KeyOf[act]] = s.remembered[KeyOf[act]]
  <1> DEFINE kept == CASE option \in {"AllowForChat", "AllowAlways"} -> "allow"
                       [] option = "Deny" -> "deny"
                       [] OTHER -> s.remembered[KeyOf[act]]
             wanted == IF option = "AllowAlways" THEN s.promotions \cup {act} ELSE s.promotions
  <1>1. KeyOf[act] \in Keys
    BY RiskType
  <1>2. /\ kept \in Remembered
        /\ option \in {"AllowForChat", "AllowAlways"} => kept = "allow"
        /\ option = "Deny" => kept = "deny"
        /\ option = "AllowOnce" => kept = s.remembered[KeyOf[act]]
    BY <1>1 DEF Remembered, Session, ApprovalOption
  <1>3. wanted \in SUBSET Actions
    BY DEF Session
  <1>4. CASE ~Current(s, id)
    BY <1>4 DEF AfterResolve
  <1>5. CASE Current(s, id)
    <2> DEFINE memory == [s.remembered EXCEPT ![KeyOf[act]] = kept]
               next == AfterResolve(s, id, option, act)
    <2>1. next = [s EXCEPT !.outstanding = None, !.auto = 0, !.remembered = memory,
                           !.promotions = wanted]
      BY <1>5 DEF AfterResolve, Session
    <2>2. /\ memory \in [Keys -> Remembered]
          /\ memory[KeyOf[act]] = kept
          /\ \A k \in Keys \ {KeyOf[act]} : memory[k] = s.remembered[k]
      BY <1>1, <1>2 DEF Session
    <2> HIDE DEF kept, wanted, memory, next
    <2>3. /\ next \in Session /\ next.level = s.level /\ next.expiresAt = s.expiresAt
          /\ next.outstanding = None /\ next.auto = 0 /\ next.remembered = memory
      BY <1>3, <2>1, <2>2 DEF Session
    <2> QED
      BY <1>2, <1>5, <2>2, <2>3 DEF next
  <1> QED
    BY <1>4, <1>5

\* The parked question is the one an answer under its id is about.
LEMMA ParkedIsCurrent ==
    ASSUME NEW s, NEW id \in Nat, NEW act \in Actions,
           s.outstanding = [id |-> id, act |-> act]
    PROVE  Current(s, id)
  <1>1. [id |-> id, act |-> act] \in Question
    BY DEF Question
  <1> QED
    BY <1>1, PolicyAssumption DEF Current

=============================================================================

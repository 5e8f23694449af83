---------------------------- MODULE RiskLadder ----------------------------
(***************************************************************************)
(* The vocabulary the approval path shares: the risk classes and their     *)
(* order, the autonomy levels and the class each starts asking at, and the *)
(* four answers a question may get (hx-core/src/approval.rs).              *)
(*                                                                         *)
(* RiskClass derives Ord, and every use of it is a comparison, so a class  *)
(* is its rank.                                                            *)
(***************************************************************************)
EXTENDS Naturals

Read        == 0
Mutate      == 1
External    == 2
ThirdParty  == 3
Destructive == 4
Privileged  == 5

RiskClass == Read .. Privileged

\* Does a surface whose ceiling is `ceiling` authorise an action of `risk`?
Covers(ceiling, risk) == risk <= ceiling

AutonomyLevel == {"paranoid", "cautious", "balanced", "trusting", "yolo"}

\* The class at which a level starts asking; yolo's None is a rank above all.
NeverAsk == Privileged + 1

Threshold(level) ==
    CASE level = "paranoid" -> Read
      [] level = "cautious" -> Mutate
      [] level = "balanced" -> External
      [] level = "trusting" -> Destructive
      [] level = "yolo"     -> NeverAsk

\* The next tighter level, for a grant that has lapsed.
Tighten(level) ==
    CASE level = "paranoid" -> "paranoid"
      [] level = "cautious" -> "paranoid"
      [] level = "balanced" -> "cautious"
      [] level = "trusting" -> "balanced"
      [] level = "yolo"     -> "trusting"

ApprovalOption == {"AllowOnce", "AllowForChat", "AllowAlways", "Deny"}

Allows(option) == option # "Deny"

===========================================================================

-------------------------- MODULE ApprovalPromise --------------------------
(***************************************************************************)
(* What an approver that waits for a human promises the run that asks,     *)
(* whatever carries the question: it closes every question exactly once,   *)
(* with the first answer a surface was entitled to give or with a denial,  *)
(* and with nothing else.  ApprovalQueue and PhoneApprover implement it.   *)
(***************************************************************************)
EXTENDS RiskLadder

CONSTANTS Asks, None

VARIABLES state,    \* "unasked", "open" or "closed"
          risk,     \* the risk of the action asked about
          offer,    \* the first answer accepted for the question
          verdict   \* what the run was told

vars == <<state, risk, offer, verdict>>

Offer == [option : ApprovalOption, ceiling : RiskClass]

\* A yes reaches only to its surface's ceiling; anybody may say no.
Entitled(o, r) == Allows(o.option) => Covers(o.ceiling, r)

Init ==
    /\ state = [a \in Asks |-> "unasked"]
    /\ risk = [a \in Asks |-> None]
    /\ offer = [a \in Asks |-> None]
    /\ verdict = [a \in Asks |-> None]

Ask(a, r) ==
    /\ state[a] = "unasked"
    /\ state' = [state EXCEPT ![a] = "open"]
    /\ risk' = [risk EXCEPT ![a] = r]
    /\ UNCHANGED <<offer, verdict>>

Accept(a, o) ==
    /\ state[a] = "open"
    /\ offer[a] = None
    /\ Entitled(o, risk[a])
    /\ offer' = [offer EXCEPT ![a] = o]
    /\ UNCHANGED <<state, risk, verdict>>

\* An accepted answer may still lose to the deadline; the verdict is then no.
Close(a) ==
    /\ state[a] = "open"
    /\ state' = [state EXCEPT ![a] = "closed"]
    /\ \/ verdict' = [verdict EXCEPT ![a] = "Deny"]
       \/ /\ offer[a] # None
          /\ verdict' = [verdict EXCEPT ![a] = offer[a].option]
    /\ UNCHANGED <<risk, offer>>

Next ==
    \E a \in Asks :
        \/ \E r \in RiskClass : Ask(a, r)
        \/ \E o \in Offer : Accept(a, o)
        \/ Close(a)

Safety == Init /\ [][Next]_vars

Spec == Safety /\ \A a \in Asks : WF_vars(Close(a))

=============================================================================

--------------------------- MODULE PhoneApprover ---------------------------
(***************************************************************************)
(* Approvals by push notification (hx-server/src/phone.rs): the question   *)
(* is recorded, pushed to a relay that may lose it, hang or fail, and the  *)
(* tap comes back on a route of its own, carrying a one-time token.        *)
(*                                                                         *)
(* The push runs inside the wait, and the record exists before it starts,  *)
(* so a tap can arrive before the push call has returned.  The token of a  *)
(* question is named by the question's own id.  As in ApprovalQueue, the   *)
(* timeout polls the channel before the deadline, and `due` holds the      *)
(* asks whose wait is over.                                                *)
(***************************************************************************)
EXTENDS RiskLadder

CONSTANTS Asks,   \* approval ids, and the one-time tokens minted for them
          None

PHONE_CEILING == External

VARIABLES
    pc,         \* where each ask's decide is
    risk,       \* the risk recorded with the entry
    waiting,    \* the ids with an entry
    delivered,  \* asks whose payload reached a person's phone
    chan,       \* what was sent down the oneshot channel
    due,        \* asks whose wait is over
    waited,     \* what the wait yielded: an option, or None for elapsed
    decision,   \* the option returned to the run
    tapped,     \* history: the tap the respond route accepted
    late        \* history: asks tapped when their wait was over

vars == <<pc, risk, waiting, delivered, chan, due, waited, decision, tapped, late>>

Taps == {"AllowOnce", "Deny"}

TypeOK ==
    /\ pc \in [Asks -> {"idle", "pushing", "listening", "expired", "waited", "done"}]
    /\ risk \in [Asks -> RiskClass \cup {None}]
    /\ waiting \in SUBSET Asks
    /\ delivered \in SUBSET Asks
    /\ chan \in [Asks -> Taps \cup {None}]
    /\ due \in SUBSET Asks
    /\ waited \in [Asks -> Taps \cup {None}]
    /\ decision \in [Asks -> Taps \cup {None}]
    /\ tapped \in [Asks -> Taps \cup {None}]
    /\ late \in SUBSET Asks

Init ==
    /\ pc = [a \in Asks |-> "idle"]
    /\ risk = [a \in Asks |-> None]
    /\ waiting = {}
    /\ delivered = {}
    /\ chan = [a \in Asks |-> None]
    /\ due = {}
    /\ waited = [a \in Asks |-> None]
    /\ decision = [a \in Asks |-> None]
    /\ tapped = [a \in Asks |-> None]
    /\ late = {}

-----------------------------------------------------------------------------
(* decide                                                                  *)

\* The entry, with its fresh token, goes in before the push starts.
Ask(a, r) ==
    /\ pc[a] = "idle"
    /\ pc' = [pc EXCEPT ![a] = "pushing"]
    /\ risk' = [risk EXCEPT ![a] = r]
    /\ waiting' = waiting \cup {a}
    /\ UNCHANGED <<delivered, chan, due, waited, decision, tapped, late>>

\* External: the relay forwards the payload, early or late, whatever it tells
\* the daemon.
PushArrives(a) ==
    /\ pc[a] # "idle"
    /\ a \notin delivered
    /\ delivered' = delivered \cup {a}
    /\ UNCHANGED <<pc, risk, waiting, chan, due, waited, decision, tapped, late>>

\* The relay answers, with success or an error; either way the run listens on.
PushReturns(a) ==
    /\ pc[a] = "pushing"
    /\ pc' = [pc EXCEPT ![a] = "listening"]
    /\ UNCHANGED <<risk, waiting, delivered, chan, due, waited, decision, tapped, late>>

\* Mutant of PushTimesOut: the push is not inside the wait.
PushTimesOutNever(a) == FALSE /\ UNCHANGED vars

\* A relay that never answers holds the run no longer than its wait.
PushTimesOut(a) ==
    /\ pc[a] = "pushing"
    /\ a \in due
    /\ pc' = [pc EXCEPT ![a] = "listening"]
    /\ UNCHANGED <<risk, waiting, delivered, chan, due, waited, decision, tapped, late>>

\* Time: the wait, counted from before the push, is over.
DeadlinePasses(a) ==
    /\ pc[a] \in {"pushing", "listening"}
    /\ a \notin due
    /\ due' = due \cup {a}
    /\ UNCHANGED <<pc, risk, waiting, delivered, chan, waited, decision, tapped, late>>

\* Even with nothing left of the wait, a tap already in the channel is taken.
Wake(a) ==
    /\ pc[a] = "listening"
    /\ chan[a] # None
    /\ pc' = [pc EXCEPT ![a] = "waited"]
    /\ waited' = [waited EXCEPT ![a] = chan[a]]
    /\ UNCHANGED <<risk, waiting, delivered, chan, due, decision, tapped, late>>

\* Mutant of Expire: a tap that came during a push that used up the wait is lost.
ExpireIgnoresChannel(a) ==
    /\ pc[a] = "listening"
    /\ a \in due
    /\ pc' = [pc EXCEPT ![a] = "expired"]
    /\ UNCHANGED <<risk, waiting, delivered, chan, due, waited, decision, tapped, late>>

Expire(a) ==
    /\ pc[a] = "listening"
    /\ chan[a] = None
    /\ a \in due
    /\ pc' = [pc EXCEPT ![a] = "expired"]
    /\ UNCHANGED <<risk, waiting, delivered, chan, due, waited, decision, tapped, late>>

DropReceiver(a) ==
    /\ pc[a] = "expired"
    /\ pc' = [pc EXCEPT ![a] = "waited"]
    /\ UNCHANGED <<risk, waiting, delivered, chan, due, waited, decision, tapped, late>>

\* Whatever happened the entry goes; no tap is a denial.
Settle(a) ==
    /\ pc[a] = "waited"
    /\ pc' = [pc EXCEPT ![a] = "done"]
    /\ waiting' = waiting \ {a}
    /\ decision' = [decision EXCEPT ![a] = IF waited[a] = None THEN "Deny" ELSE waited[a]]
    /\ UNCHANGED <<risk, delivered, chan, due, waited, tapped, late>>

-----------------------------------------------------------------------------
(* respond                                                                 *)

\* A tap with a token some phone was sent.  It counts if the entry is there, the
\* token is the entry's and a yes is within the ceiling; anything else changes
\* nothing.  Whether the run still listens is not looked at: the result of the
\* send is dropped and the caller is told Ok.
Respond(a, token, tap) ==
    /\ token \in delivered
    /\ a \in waiting
    /\ token = a
    /\ Allows(tap) => Covers(PHONE_CEILING, risk[a])
    /\ waiting' = waiting \ {a}
    /\ chan' = IF pc[a] \in {"pushing", "listening", "expired"}
                 THEN [chan EXCEPT ![a] = tap] ELSE chan
    /\ tapped' = [tapped EXCEPT ![a] = tap]
    /\ late' = late \cup ({a} \cap due)
    /\ UNCHANGED <<pc, risk, delivered, due, waited, decision>>

-----------------------------------------------------------------------------
Run(a) == PushTimesOut(a) \/ Wake(a) \/ Expire(a) \/ DropReceiver(a) \/ Settle(a)

Next ==
    \E a \in Asks :
        \/ \E r \in RiskClass : Ask(a, r)
        \/ PushArrives(a)
        \/ PushReturns(a)
        \/ DeadlinePasses(a)
        \/ Run(a)
        \/ \E token \in Asks, tap \in Taps : Respond(a, token, tap)

Safety == Init /\ [][Next]_vars

\* Timers fire and woken tasks are polled; neither the relay nor the person is
\* obliged to do anything.
Fairness == \A a \in Asks : WF_vars(DeadlinePasses(a)) /\ WF_vars(Run(a))

Spec == Safety /\ Fairness

-----------------------------------------------------------------------------
\* A yes needs the question's own push to have reached a phone, a tap carrying
\* that question's token, and a risk within the phone's ceiling: a failed push, a
\* token of another question and silence never become one.  And a tap accepted
\* before the wait was over decides, whether it arrived after the push returned,
\* during the push, or during a push that went on to use up the whole wait.
TapDecidesItsQuestion ==
    \A a \in Asks :
        /\ decision[a] # None /\ Allows(decision[a]) =>
               a \in delivered /\ tapped[a] = decision[a] /\ Covers(PHONE_CEILING, risk[a])
        /\ pc[a] = "done" /\ tapped[a] # None /\ a \notin late => decision[a] = tapped[a]

-----------------------------------------------------------------------------
Promise == INSTANCE ApprovalPromise WITH
    state   <- [a \in Asks |-> IF pc[a] = "idle" THEN "unasked"
                               ELSE IF pc[a] = "done" THEN "closed" ELSE "open"],
    offer   <- [a \in Asks |-> IF tapped[a] = None THEN None
                               ELSE [option |-> tapped[a], ceiling |-> PHONE_CEILING]],
    verdict <- decision

\* The phone keeps the promise every waiting approver makes, liveness included.
PromiseSpec == Promise!Spec

=============================================================================

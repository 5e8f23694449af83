--------------------------- MODULE ApprovalQueue ---------------------------
(***************************************************************************)
(* The daemon's one approval queue (hx-agent/src/queue.rs): runs park a    *)
(* question and wait a bounded time, any surface may answer it, and        *)
(* silence is a denial.                                                    *)
(*                                                                         *)
(* An ask is one call of decide_in_with_wait, named by its approval id.    *)
(* Its steps are separated where another thread can run: the insert (under *)
(* the lock), each poll of the timeout future, the drop of the oneshot     *)
(* receiver, and the removal (under the lock).  tokio's timeout polls the  *)
(* receiver first and the deadline second, so between the poll that found  *)
(* the channel empty and the drop of the receiver a sender still succeeds. *)
(* How long each ask waits is abstracted to `due`, the asks whose deadline *)
(* has passed.                                                             *)
(***************************************************************************)
EXTENDS RiskLadder

CONSTANTS Asks,      \* approval ids, one per question (fresh uuids)
          Scopes,    \* the session or conversation a question belongs to
          Risks,     \* risk classes of the questions asked
          Ceilings,  \* ceilings of the surfaces that answer
          None       \* the absence of a value

VARIABLES
    pc,        \* where each ask's decide_in_with_wait is
    asked,     \* the request as inserted: its risk and its scope
    pending,   \* the ids the queue holds
    chan,      \* what was sent down the ask's oneshot channel
    due,       \* asks whose deadline has passed
    waited,    \* what the timeout future resolved to: an answer, or None for elapsed
    decision,  \* the ApprovalDecision returned to the run
    acked      \* history: the answer a caller was told reached the run

vars == <<pc, asked, pending, chan, due, waited, decision, acked>>

Request == [risk : RiskClass, scope : Scopes]
Reply   == [option : ApprovalOption, ceiling : RiskClass]
Verdict == [option : ApprovalOption, by : {"answer", "silence"}]

ASSUME OnTheLadder == Risks \subseteq RiskClass /\ Ceilings \subseteq RiskClass
ASSUME NoneIsNoValue == None \notin Request \cup Reply \cup Verdict \cup RiskClass \cup ApprovalOption

\* The receiver exists from the insert until the timeout future is dropped.
ReceiverOpen(a) == pc[a] \in {"parked", "expired"}

TypeOK ==
    /\ pc \in [Asks -> {"idle", "parked", "expired", "waited", "done"}]
    /\ asked \in [Asks -> Request \cup {None}]
    /\ pending \in SUBSET Asks
    /\ chan \in [Asks -> Reply \cup {None}]
    /\ due \in SUBSET Asks
    /\ waited \in [Asks -> Reply \cup {None}]
    /\ decision \in [Asks -> Verdict \cup {None}]
    /\ acked \in [Asks -> Reply \cup {None}]

Init ==
    /\ pc = [a \in Asks |-> "idle"]
    /\ asked = [a \in Asks |-> None]
    /\ pending = {}
    /\ chan = [a \in Asks |-> None]
    /\ due = {}
    /\ waited = [a \in Asks |-> None]
    /\ decision = [a \in Asks |-> None]
    /\ acked = [a \in Asks |-> None]

-----------------------------------------------------------------------------
(* The run that asks.                                                      *)

\* The insert: the scope is recorded with the entry, not patched afterwards.
Park(a, risk, scope) ==
    /\ pc[a] = "idle"
    /\ pc' = [pc EXCEPT ![a] = "parked"]
    /\ asked' = [asked EXCEPT ![a] = [risk |-> risk, scope |-> scope]]
    /\ pending' = pending \cup {a}
    /\ UNCHANGED <<chan, due, waited, decision, acked>>

\* Time: the ask's own wait runs out, whether or not anybody has noticed.
DeadlinePasses(a) ==
    /\ pc[a] = "parked"
    /\ a \notin due
    /\ due' = due \cup {a}
    /\ UNCHANGED <<pc, asked, pending, chan, waited, decision, acked>>

\* A poll that finds the channel full: the answer wins, however late it is.
Wake(a) ==
    /\ pc[a] = "parked"
    /\ chan[a] # None
    /\ pc' = [pc EXCEPT ![a] = "waited"]
    /\ waited' = [waited EXCEPT ![a] = chan[a]]
    /\ UNCHANGED <<asked, pending, chan, due, decision, acked>>

\* Mutant of Expire: the wait is not bounded, only an answer ends it.
ExpireNever(a) ==
    /\ pc[a] = "parked"
    /\ chan[a] # None
    /\ pc' = [pc EXCEPT ![a] = "expired"]
    /\ waited' = [waited EXCEPT ![a] = chan[a]]
    /\ UNCHANGED <<asked, pending, chan, due, decision, acked>>

\* A poll that finds the channel empty and the deadline past.
Expire(a) ==
    /\ pc[a] = "parked"
    /\ chan[a] = None
    /\ a \in due
    /\ pc' = [pc EXCEPT ![a] = "expired"]
    /\ waited' = [waited EXCEPT ![a] = None]
    /\ UNCHANGED <<asked, pending, chan, due, decision, acked>>

\* The timeout future, and the receiver in it, is dropped.
DropReceiver(a) ==
    /\ pc[a] = "expired"
    /\ pc' = [pc EXCEPT ![a] = "waited"]
    /\ UNCHANGED <<asked, pending, chan, due, waited, decision, acked>>

\* What the run is told.  The sender is dropped unsent only if a second insert
\* replaced the entry, which a fresh id per question excludes, so the branch
\* for a closed channel is never taken.
Outcome(w) ==
    IF w = None THEN [option |-> "Deny", by |-> "silence"]
                ELSE [option |-> w.option, by |-> "answer"]

\* Mutant of Settle: the entry is removed only by an answer.
SettleKeepsEntry(a) ==
    /\ pc[a] = "waited"
    /\ pc' = [pc EXCEPT ![a] = "done"]
    /\ decision' = [decision EXCEPT ![a] = Outcome(waited[a])]
    /\ UNCHANGED <<asked, pending, chan, due, waited, acked>>

\* Whatever happened, the entry goes, and the decision is returned.
Settle(a) ==
    /\ pc[a] = "waited"
    /\ pc' = [pc EXCEPT ![a] = "done"]
    /\ pending' = pending \ {a}
    /\ decision' = [decision EXCEPT ![a] = Outcome(waited[a])]
    /\ UNCHANGED <<asked, chan, due, waited, acked>>

-----------------------------------------------------------------------------
(* A surface that answers: one critical section under the queue's lock.    *)

AnswerResult(a, ceiling) ==
    IF a \notin pending THEN "Unknown"
    ELSE IF ~Covers(ceiling, asked[a].risk) THEN "AboveCeiling"
    ELSE IF ReceiverOpen(a) THEN "Answered"
    ELSE "Unknown"

\* Mutant of Answer: the surface's ceiling is not judged.
AnswerAnyCeiling(a, option, ceiling) ==
    /\ a \in pending
    /\ pending' = pending \ {a}
    /\ IF ReceiverOpen(a)
         THEN LET reply == [option |-> option, ceiling |-> ceiling]
              IN /\ chan' = [chan EXCEPT ![a] = reply]
                 /\ acked' = [acked EXCEPT ![a] = reply]
         ELSE UNCHANGED <<chan, acked>>
    /\ UNCHANGED <<pc, asked, due, waited, decision>>

\* Mutant of Answer: the entry is left for the run to remove.
AnswerKeepsEntry(a, option, ceiling) ==
    /\ a \in pending
    /\ Covers(ceiling, asked[a].risk)
    /\ IF ReceiverOpen(a)
         THEN LET reply == [option |-> option, ceiling |-> ceiling]
              IN /\ chan' = [chan EXCEPT ![a] = reply]
                 /\ acked' = [acked EXCEPT ![a] = reply]
         ELSE UNCHANGED <<chan, acked>>
    /\ UNCHANGED <<pc, asked, pending, due, waited, decision>>

\* An answer the ceiling allows takes the entry and sends; the send fails when
\* the receiver is gone.  Every other answer changes nothing.
Answer(a, option, ceiling) ==
    /\ a \in pending
    /\ Covers(ceiling, asked[a].risk)
    /\ pending' = pending \ {a}
    /\ IF ReceiverOpen(a)
         THEN LET reply == [option |-> option, ceiling |-> ceiling]
              IN /\ chan' = [chan EXCEPT ![a] = reply]
                 /\ acked' = [acked EXCEPT ![a] = reply]
         ELSE UNCHANGED <<chan, acked>>
    /\ UNCHANGED <<pc, asked, due, waited, decision>>

-----------------------------------------------------------------------------
Run(a) ==
    \/ Wake(a)
    \/ Expire(a)
    \/ DropReceiver(a)
    \/ Settle(a)

Next ==
    \E a \in Asks :
        \/ \E risk \in Risks, scope \in Scopes : Park(a, risk, scope)
        \/ DeadlinePasses(a)
        \/ Run(a)
        \/ \E option \in ApprovalOption, ceiling \in Ceilings :
               Answer(a, option, ceiling)

Safety == Init /\ [][Next]_vars

\* The timer wheel fires and the executor polls a woken task; nothing obliges
\* anybody to answer.
Fairness ==
    \A a \in Asks : WF_vars(DeadlinePasses(a)) /\ WF_vars(Run(a))

Spec == Safety /\ Fairness

-----------------------------------------------------------------------------
(* Properties.                                                             *)

\* A run is told yes only when some surface answered yes and that surface's
\* ceiling covered the risk of the very question the queue held: silence, a
\* refused answer and a lost race all end in a denial (queue.rs `answer`,
\* `decide_in_with_wait`).
GrantWithinCeiling ==
    \A a \in Asks :
        decision[a] # None /\ Allows(decision[a].option) =>
            /\ acked[a] # None
            /\ acked[a].option = decision[a].option
            /\ Covers(acked[a].ceiling, asked[a].risk)

\* What a polling client sees is exactly what can still be answered: an
\* unanswered question whose run is waiting is listed, and a question whose run
\* has been answered or has returned is not a ghost on the list.
QueueShowsWhatWaits ==
    \A a \in Asks :
        /\ pc[a] = "parked" => (a \in pending <=> acked[a] = None)
        /\ pc[a] \in {"idle", "done"} => a \notin pending

\* The first answer is the one that counts: no later tap, from any surface,
\* replaces an accepted answer, and no decision is revised.
FirstAnswerCounts ==
    [][\A a \in Asks :
          /\ acked[a] # None => acked'[a] = acked[a]
          /\ decision[a] # None => decision'[a] = decision[a]]_vars

-----------------------------------------------------------------------------
(* The queue implements the promise.                                       *)

Promise == INSTANCE ApprovalPromise WITH
    state   <- [a \in Asks |-> IF pc[a] = "idle" THEN "unasked"
                               ELSE IF pc[a] = "done" THEN "closed" ELSE "open"],
    risk    <- [a \in Asks |-> IF asked[a] = None THEN None ELSE asked[a].risk],
    offer   <- acked,
    verdict <- [a \in Asks |-> IF decision[a] = None THEN None ELSE decision[a].option]

\* Every behaviour of the queue, its liveness included, is one the promise
\* allows: first entitled answer or denial, exactly once.
PromiseSpec == Promise!Spec

=============================================================================

----------------------------- MODULE McpServer -----------------------------
(***************************************************************************)
(* hx's tools served to MCP clients (hx-mcp/src/server.rs): calls run      *)
(* concurrently against one approval session, and there is nobody to ask.  *)
(* `decide` and the fail-closed `timeout` that answers an ask are two      *)
(* acquisitions of the session's lock.                                     *)
(***************************************************************************)
EXTENDS ApprovalPolicy, FiniteSets

CONSTANTS
    Calls,       \* tools/call requests, one each
    Uncovered,   \* actions the server's capability does not cover
    Level        \* the session's level, which nothing here changes

VARIABLES
    approvals,  \* the session
    pc, asks,   \* of each call: where it is, the action its tool requires, if any
    stats       \* ServerStats

vars == <<approvals, pc, asks, stats>>

Counters == {"calls", "ran", "refused_needing_approval", "refused_other"}

Init ==
    /\ approvals = NewSession(Level, None)
    /\ pc = [c \in Calls |-> "idle"]
    /\ asks = [c \in Calls |-> None]
    /\ stats = [k \in Counters |-> 0]

Bump(k) == stats' = [stats EXCEPT ![k] = @ + 1]

RefuseOther(c) ==
    /\ pc' = [pc EXCEPT ![c] = "refused"]
    /\ Bump("refused_other")

\* prepare: a tool that requires nothing is neither covered nor judged.
Call(c, a) ==
    /\ pc[c] = "idle"
    /\ asks' = [asks EXCEPT ![c] = a]
    /\ pc' = [pc EXCEPT ![c] = IF a = None THEN "run" ELSE "judge"]
    /\ Bump("calls")
    /\ UNCHANGED approvals

\* An unknown tool, unusable arguments, a capability that does not cover it.
RefuseEarly(c) ==
    /\ pc[c] = "judge" /\ asks[c] \in Uncovered
    /\ RefuseOther(c)
    /\ UNCHANGED <<approvals, asks>>

Decide(c) ==
    LET verdict == VerdictOf(Layer(approvals, asks[c]))
    IN /\ pc[c] = "judge" /\ asks[c] \notin Uncovered
       /\ approvals' = AfterDecide(approvals, asks[c], 0, 0)
       /\ \/ /\ verdict = "allow"
             /\ pc' = [pc EXCEPT ![c] = "run"]
             /\ UNCHANGED stats
          \/ /\ verdict = "ask"
             /\ pc' = [pc EXCEPT ![c] = "asked"]
             /\ UNCHANGED stats
          \/ verdict = "deny" /\ RefuseOther(c)
       /\ UNCHANGED asks

\* Mutant of TimeOut: the call is refused and its question left where it is.
TimeOutForgotten(c) ==
    /\ pc[c] = "asked"
    /\ pc' = [pc EXCEPT ![c] = "refused"]
    /\ Bump("refused_needing_approval")
    /\ UNCHANGED <<approvals, asks>>

\* timeout, under the second lock: whatever question is outstanding by now goes.
TimeOut(c) ==
    /\ pc[c] = "asked"
    /\ approvals' = AfterTimeout(approvals)
    /\ pc' = [pc EXCEPT ![c] = "refused"]
    /\ Bump("refused_needing_approval")
    /\ UNCHANGED asks

Run(c) ==
    /\ pc[c] = "run"
    /\ pc' = [pc EXCEPT ![c] = "ran"]
    /\ Bump("ran")
    /\ UNCHANGED <<approvals, asks>>

Next ==
    \E c \in Calls :
        \/ \E a \in Actions \cup {None} : Call(c, a)
        \/ RefuseEarly(c) \/ Decide(c) \/ TimeOut(c) \/ Run(c)

Spec == Init /\ [][Next]_vars

-----------------------------------------------------------------------------
Over == {"ran", "refused"}

\* A refused call leaves nothing a person could answer, although another call
\* may decide between its decide and its timeout, and its timeout then removes
\* the other's question: one is outstanding only while a call that raised it is
\* still in progress.  And the counters add up: a call that is over was counted
\* once, as run, refused for want of an approver, or refused.
NothingLeftToAnswer ==
    /\ approvals.outstanding # None =>
           \E c \in Calls : pc[c] = "asked" /\ asks[c] = approvals.outstanding.act
    /\ stats["ran"] + stats["refused_needing_approval"] + stats["refused_other"]
         = Cardinality({c \in Calls : pc[c] \in Over})

=============================================================================

------------------------------ MODULE McpHost ------------------------------
(***************************************************************************)
(* The supervisor of one consumed MCP server (hx-mcp/src/host.rs): calls   *)
(* and health probes that share its connection, restart it within a budget *)
(* and mark it down.  A connection stands for the child behind it; the     *)
(* child, external, may exit, refuse, or never answer.                     *)
(*                                                                         *)
(* `st` is behind a read-write lock.  A call holds a read guard while it   *)
(* is in flight, so a step that writes `st` waits until no call is; a      *)
(* probe clones the peer and holds nothing.                                *)
(***************************************************************************)
EXTENDS Integers, FiniteSets

CONSTANTS
    Calls,         \* McpHost::call, one each
    Probes,        \* McpHost::health, one each
    MaxRestarts,   \* config.max_restarts
    MaxChildren,   \* bound: children started
    None

Procs == Calls \cup Probes
Children == 1..MaxChildren

VARIABLES
    st,         \* ServerState: what the server is, and its connection when Up
    restarting, \* who holds the mutex that serialises restarts
    spent,      \* RestartBudget: restarts spent inside the window
    alive,      \* children that run
    made,       \* children started so far
    pc, mine,   \* of each call and probe: where it is, the connection in its hands
    listed, catalogue  \* refresh_catalogue: what it read; whether tools are listed

vars == <<st, restarting, spent, alive, made, pc, mine, listed, catalogue>>

UpWith(c) == [is |-> "Up", conn |-> c]
Is(what)  == [is |-> what, conn |-> None]

TypeOK ==
    /\ st \in {UpWith(c) : c \in Children} \cup {Is(w) : w \in {"Down", "GivenUp", "Disabled"}}
    /\ restarting \in Calls \cup {None}
    /\ spent \in 0..MaxRestarts
    /\ alive \subseteq Children
    /\ made \in 0..MaxChildren
    /\ pc \in [Procs -> {"idle", "check", "restart", "connect", "list", "resolve", "send",
                         "flight", "probe", "take", "reap", "mark", "refresh", "publish", "done"}]
    /\ mine \in [Procs -> Children \cup {None}]
    /\ listed \in [Procs -> BOOLEAN]
    /\ catalogue \in BOOLEAN

Init ==
    /\ st \in {Is("Down"), Is("Disabled")}
    /\ restarting = None
    /\ spent = 0
    /\ alive = {}
    /\ made = 0
    /\ pc = [p \in Procs |-> "idle"]
    /\ mine = [p \in Procs |-> None]
    /\ listed = [p \in Procs |-> FALSE]
    /\ catalogue = FALSE

IsUp == st.is = "Up" /\ st.conn \in alive
InFlight == {p \in Procs : pc[p] = "flight"}
NoReaders == InFlight = {}

Goto(p, l) == pc' = [pc EXCEPT ![p] = l]
Budgeted == <<restarting, spent, made>>
Tools == <<listed, catalogue>>

-----------------------------------------------------------------------------
(* ensure_up                                                               *)

Call(p) ==
    /\ pc[p] = "idle"
    /\ Goto(p, IF st.is = "Disabled" THEN "refresh" ELSE "check")
    /\ UNCHANGED <<st, Budgeted, alive, mine, Tools>>

CheckUp(p) ==
    /\ pc[p] = "check"
    /\ Goto(p, IF IsUp THEN "resolve" ELSE "restart")
    /\ UNCHANGED <<st, Budgeted, alive, mine, Tools>>

\* Mutant of SpendRestart: the state is not read again under the mutex.
SpendRestartUnchecked(p) ==
    /\ pc[p] = "restart" /\ restarting = None
    /\ spent < MaxRestarts
    /\ restarting' = p
    /\ spent' = spent + 1
    /\ Goto(p, "connect")

\* Under the restart mutex: nothing to do when the server came up meanwhile or
\* was given up on; else one restart is spent, or the server is given up on.
FindUp(p) ==
    /\ pc[p] = "restart" /\ restarting = None
    /\ IsUp \/ st.is = "GivenUp"
    /\ Goto(p, IF IsUp THEN "resolve" ELSE "refresh")
    /\ UNCHANGED Budgeted

SpendRestart(p) ==
    /\ pc[p] = "restart" /\ restarting = None
    /\ ~IsUp /\ st.is # "GivenUp"
    /\ spent < MaxRestarts
    /\ restarting' = p
    /\ spent' = spent + 1
    /\ Goto(p, "connect")

OutOfBudget(p) ==
    /\ pc[p] = "restart" /\ restarting = None
    /\ ~IsUp /\ st.is # "GivenUp"
    /\ spent = MaxRestarts
    /\ restarting' = p
    /\ Goto(p, "take")
    /\ UNCHANGED spent

Restart(p) ==
    /\ FindUp(p) \/ SpendRestart(p) \/ OutOfBudget(p)
    /\ UNCHANGED <<st, alive, made, mine, Tools>>

\* A connection that `st` held and that is replaced is dropped, and its child
\* killed by the transport's drop guard.
Replace(new) ==
    /\ NoReaders
    /\ st' = new
    /\ alive' = alive \ {st.conn}

\* Spawn and handshake, bounded by start_timeout_secs.
ConnectFails(p) ==
    /\ pc[p] = "connect"
    /\ Replace(Is("Down"))
    /\ restarting' = None
    /\ Goto(p, "refresh")
    /\ UNCHANGED <<spent, made, mine, Tools>>

Connect(p) ==
    /\ pc[p] = "connect"
    /\ made < MaxChildren
    /\ made' = made + 1
    /\ alive' = alive \cup {made + 1}
    /\ mine' = [mine EXCEPT ![p] = made + 1]
    /\ Goto(p, "list")
    /\ UNCHANGED <<st, restarting, spent, Tools>>

\* tools/list did not answer: the new connection is closed.
ListFails(p) ==
    /\ pc[p] = "list"
    /\ NoReaders
    /\ st' = Is("Down")
    /\ alive' = alive \ {mine[p], st.conn}
    /\ restarting' = None
    /\ mine' = [mine EXCEPT ![p] = None]
    /\ Goto(p, "refresh")
    /\ UNCHANGED <<spent, made, Tools>>

\* The child may have exited since it answered: `st` is Up with a dead one.
BringUp(p) ==
    /\ pc[p] = "list"
    /\ Replace(UpWith(mine[p]))
    /\ restarting' = None
    /\ mine' = [mine EXCEPT ![p] = None]
    /\ Goto(p, "resolve")
    /\ UNCHANGED <<spent, made, Tools>>

-----------------------------------------------------------------------------
(* The call itself                                                         *)

\* The tool is no longer offered, or the arguments are not an object.
Unusable(p) ==
    /\ pc[p] = "resolve"
    /\ Goto(p, "refresh")
    /\ UNCHANGED <<st, Budgeted, alive, mine, Tools>>

Resolve(p) ==
    /\ pc[p] = "resolve"
    /\ Goto(p, "send")
    /\ UNCHANGED <<st, Budgeted, alive, mine, Tools>>

\* A server that went down since ensure_up reads as a closed transport.
Send(p) ==
    /\ pc[p] = "send"
    /\ IF st.is = "Up"
         THEN /\ mine' = [mine EXCEPT ![p] = st.conn]
              /\ Goto(p, "flight")
         ELSE /\ Goto(p, "take")
              /\ UNCHANGED mine
    /\ UNCHANGED <<st, Budgeted, alive, Tools>>

\* A result, or the server's own refusal.
Answer(p) ==
    /\ pc[p] = "flight" /\ mine[p] \in alive
    /\ Goto(p, "refresh")
    /\ mine' = [mine EXCEPT ![p] = None]
    /\ UNCHANGED <<st, Budgeted, alive, Tools>>

Dropped(p) ==
    /\ pc[p] = "flight" /\ mine[p] \notin alive
    /\ Goto(p, "take")
    /\ mine' = [mine EXCEPT ![p] = None]
    /\ UNCHANGED <<st, Budgeted, alive, Tools>>

\* Mutant of TimeOut: only a wait for the connection is cut off, not the answer.
TimeOutSendOnly(p) ==
    /\ pc[p] = "send"
    /\ Goto(p, "refresh")
    /\ mine' = [mine EXCEPT ![p] = None]
    /\ UNCHANGED <<st, Budgeted, alive, Tools>>

\* call_timeout_secs cuts off a call in flight, or one that waits for its read
\* guard; the connection stays.
TimeOut(p) ==
    /\ pc[p] \in {"send", "flight"}
    /\ Goto(p, "refresh")
    /\ mine' = [mine EXCEPT ![p] = None]
    /\ UNCHANGED <<st, Budgeted, alive, Tools>>

-----------------------------------------------------------------------------
(* mark_down and mark_given_up (the holder of the restart mutex gives up)  *)

\* Whichever connection `st` holds now is taken, not the one that failed.
Take(p) ==
    /\ pc[p] = "take"
    /\ NoReaders
    /\ IF st.is = "Up"
         THEN /\ st' = Is("Down")
              /\ mine' = [mine EXCEPT ![p] = st.conn]
              /\ Goto(p, "reap")
         ELSE /\ Goto(p, "mark")
              /\ UNCHANGED <<st, mine>>
    /\ UNCHANGED <<Budgeted, alive, Tools>>

\* close_with_timeout: the child is gone when it returns or by the drop guard.
Reap(p) ==
    /\ pc[p] = "reap"
    /\ alive' = alive \ {mine[p]}
    /\ mine' = [mine EXCEPT ![p] = None]
    /\ Goto(p, "mark")
    /\ UNCHANGED <<st, Budgeted, Tools>>

Mark(p) ==
    /\ pc[p] = "mark"
    /\ Replace(Is(IF restarting = p THEN "GivenUp" ELSE "Down"))
    /\ restarting' = IF restarting = p THEN None ELSE restarting
    /\ Goto(p, "refresh")
    /\ UNCHANGED <<spent, made, mine, Tools>>

-----------------------------------------------------------------------------
(* refresh_catalogue: read the servers, then publish                       *)

Refresh(p) ==
    /\ pc[p] = "refresh"
    /\ listed' = [listed EXCEPT ![p] = st.is = "Up"]
    /\ Goto(p, "publish")
    /\ UNCHANGED <<st, Budgeted, alive, mine, catalogue>>

Publish(p) ==
    /\ pc[p] = "publish"
    /\ catalogue' = listed[p]
    /\ Goto(p, "done")
    /\ UNCHANGED <<st, Budgeted, alive, mine, listed>>

-----------------------------------------------------------------------------
(* health, and the world                                                   *)

Probe(p) ==
    /\ pc[p] = "idle"
    /\ IF IsUp
         THEN /\ mine' = [mine EXCEPT ![p] = st.conn]
              /\ Goto(p, "probe")
         ELSE /\ Goto(p, "refresh")
              /\ UNCHANGED mine
    /\ UNCHANGED <<st, Budgeted, alive, Tools>>

ProbeAnswered(p) ==
    /\ pc[p] = "probe" /\ mine[p] \in alive
    /\ mine' = [mine EXCEPT ![p] = None]
    /\ Goto(p, "refresh")
    /\ UNCHANGED <<st, Budgeted, alive, Tools>>

\* An error, or call_timeout_secs without an answer: mark_down either way.
ProbeFailed(p) ==
    /\ pc[p] = "probe"
    /\ mine' = [mine EXCEPT ![p] = None]
    /\ Goto(p, "take")
    /\ UNCHANGED <<st, Budgeted, alive, Tools>>

Exit(c) ==
    /\ c \in alive
    /\ alive' = alive \ {c}
    /\ UNCHANGED <<st, Budgeted, pc, mine, Tools>>

\* The oldest restart leaves restart_window_secs.
AgeOut ==
    /\ spent > 0
    /\ spent' = spent - 1
    /\ UNCHANGED <<st, restarting, made, alive, pc, mine, Tools>>

\* What hx does by itself; a server's answers are never owed.
Step(p) ==
    \/ CheckUp(p) \/ Restart(p) \/ ConnectFails(p) \/ ListFails(p) \/ Resolve(p)
    \/ TimeOut(p) \/ Take(p) \/ Reap(p) \/ Mark(p) \/ Refresh(p) \/ Publish(p)
    \/ ProbeFailed(p)

Next ==
    \/ \E p \in Calls  : Call(p)
    \/ \E p \in Probes : Probe(p)
    \/ \E p \in Procs :
           \/ Step(p) \/ Connect(p) \/ BringUp(p) \/ Unusable(p) \/ Send(p)
           \/ Answer(p) \/ Dropped(p) \/ ProbeAnswered(p)
    \/ \E c \in Children : Exit(c)
    \/ AgeOut

Fairness == \A p \in Procs : WF_vars(Step(p))

Spec == Init /\ [][Next]_vars /\ Fairness

-----------------------------------------------------------------------------

BeingReaped == {mine[p] : p \in {q \in Procs : pc[q] = "reap"}}
BeingBroughtUp == {mine[p] : p \in {q \in Procs : pc[q] = "list"}}

\* Two calls that find the server down do not start two children, and no child
\* runs that nobody will close: each one alive is the state's connection, being
\* brought up, or being reaped, and at most one is not being reaped.  And no
\* restart, failed probe or late mark_down pulls the connection out from under a
\* call in flight: the server is Up with the one it was sent on.
ChildrenAccountedFor ==
    /\ alive \subseteq {st.conn} \cup BeingBroughtUp \cup BeingReaped
    /\ Cardinality(alive \ BeingReaped) =< 1
    /\ \A p \in InFlight : st = UpWith(mine[p])

\* A dead, wedged or misbehaving server never wedges a run: whatever the server
\* does, in the end every call and every probe that was made has returned.
EveryCallReturns == <>[](\A p \in Procs : pc[p] \in {"idle", "done"})

=============================================================================

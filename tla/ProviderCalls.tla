--------------------------- MODULE ProviderCalls ---------------------------
(***************************************************************************)
(* Concurrent model calls sharing one limiter: RouterModel::complete in    *)
(* hx-agent/src/model.rs, and the deadline AgentLoop::run puts around it.  *)
(*                                                                         *)
(* A call reads the clock once, when it starts, and uses that reading for  *)
(* its acquire and for its settlement, however much later they happen.     *)
(* Between those it is suspended in the provider's complete, the one await *)
(* at which the run's deadline can drop it.                                *)
(***************************************************************************)
EXTENDS Limiter, FiniteSets, FiniteSetsExt

CONSTANTS
    Calls,       \* model calls, of any number of runs
    Estimates,   \* reservations a call may make
    Usages,      \* what a response may report
    Start0,      \* the limiter as configured
    MaxNow       \* bound on the clock

ASSUME CallsAssumption ==
    /\ IsFiniteSet(Calls)
    /\ Estimates \subseteq Lease /\ Usages \subseteq Lease
    /\ Start0 \in LimiterState
    /\ Start0.inFlight = 0 /\ Start0.spent = 0 /\ Start0.day = 0
    /\ Start0.rpm # None =>
           Start0.rpm.cap > 0 /\ Start0.rpm.last = 0 /\ Start0.rpm.tokens = Start0.rpm.cap
    /\ MaxNow \in Nat

VARIABLES
    limiter,
    now,
    pc,         \* where each call's complete is
    at,         \* the clock reading each call works with
    lease,      \* what each call reserved
    crossed,    \* history: some step used a reading from before the limiter's day
    settled,    \* history: cost of the responses to calls of each day
    excess      \* history: by how much they went over their reservations

vars == <<limiter, now, pc, at, lease, crossed, settled, excess>>

Stages == {"idle", "started", "sending", "sent", "answered", "released", "refused", "abandoned"}
Days == 0 .. Day(MaxNow)

TypeOK ==
    /\ limiter \in LimiterState
    /\ now \in Nat
    /\ pc \in [Calls -> Stages]
    /\ at \in [Calls -> Nat]
    /\ lease \in [Calls -> Lease]
    /\ crossed \in BOOLEAN
    /\ settled \in [Days -> Nat]
    /\ excess \in [Days -> Nat]

Init ==
    /\ limiter = Start0
    /\ now = 0
    /\ pc = [c \in Calls |-> "idle"]
    /\ at = [c \in Calls |-> 0]
    /\ lease = [c \in Calls |-> [tokens |-> 0, usd |-> 0]]
    /\ crossed = FALSE
    /\ settled = [d \in Days |-> 0]
    /\ excess = [d \in Days |-> 0]

-----------------------------------------------------------------------------
Stale(c) == Day(at[c]) < limiter.day

\* complete reads the clock and prices the request.
Start(c, estimate) ==
    /\ pc[c] = "idle"
    /\ pc' = [pc EXCEPT ![c] = "started"]
    /\ at' = [at EXCEPT ![c] = now]
    /\ lease' = [lease EXCEPT ![c] = estimate]
    /\ UNCHANGED <<limiter, now, crossed, settled, excess>>

Acquire(c) ==
    /\ pc[c] = "started"
    /\ limiter' = AfterAcquire(limiter, lease[c], at[c])
    /\ pc' = [pc EXCEPT ![c] = IF Admits(limiter, lease[c], at[c]) THEN "sending" ELSE "refused"]
    /\ crossed' = (crossed \/ Stale(c))
    /\ UNCHANGED <<now, at, lease, settled, excess>>

\* External: the request reaches the provider.
Send(c) ==
    /\ pc[c] = "sending"
    /\ pc' = [pc EXCEPT ![c] = "sent"]
    /\ UNCHANGED <<limiter, now, at, lease, crossed, settled, excess>>

\* The provider answered; the lease is settled against the reported usage.
Reconcile(c, usage) ==
    /\ pc[c] = "sent"
    /\ limiter' = AfterReconcile(limiter, lease[c], usage, at[c])
    /\ pc' = [pc EXCEPT ![c] = "answered"]
    /\ crossed' = (crossed \/ Stale(c))
    /\ settled' = [settled EXCEPT ![Day(at[c])] = @ + usage.usd]
    /\ excess' = [excess EXCEPT ![Day(at[c])] = @ + Less(usage.usd, lease[c].usd)]
    /\ UNCHANGED <<now, at, lease>>

\* The model or the key did not resolve, or the provider's complete failed,
\* before the request left or after.
Release(c) ==
    /\ pc[c] \in {"sending", "sent"}
    /\ limiter' = AfterRelease(limiter, lease[c], at[c])
    /\ pc' = [pc EXCEPT ![c] = "released"]
    /\ crossed' = (crossed \/ Stale(c))
    /\ UNCHANGED <<now, at, lease, settled, excess>>

\* The run's deadline drops the future while it waits for the provider: nothing
\* after the await runs.
Abandon(c) ==
    /\ pc[c] \in {"sending", "sent"}
    /\ pc' = [pc EXCEPT ![c] = "abandoned"]
    /\ UNCHANGED <<limiter, now, at, lease, crossed, settled, excess>>

Tick ==
    /\ now < MaxNow
    /\ now' = now + 1
    /\ UNCHANGED <<limiter, pc, at, lease, crossed, settled, excess>>

Next ==
    \/ \E c \in Calls :
           \/ \E estimate \in Estimates : Start(c, estimate)
           \/ Acquire(c)
           \/ Send(c)
           \/ \E usage \in Usages : Reconcile(c, usage)
           \/ Release(c)
           \/ Abandon(c)
    \/ Tick

Safety == Init /\ [][Next]_vars

\* A call takes the router's lock and is polled; the provider's complete returns,
\* with a response or an error, unless the future is dropped first.
Settles(c) == Release(c) \/ \E usage \in Usages : Reconcile(c, usage)
Fairness == \A c \in Calls : WF_vars(Acquire(c)) /\ WF_vars(Settles(c))

Spec == Safety /\ Fairness

-----------------------------------------------------------------------------
Open == {c \in Calls : pc[c] \in {"sending", "sent", "abandoned"}}
Spent == {c \in Calls : pc[c] \in {"sending", "sent", "abandoned", "answered"}}

\* The concurrency count is the number of reservations not given back, through
\* every refusal, failure, late settlement and change of day, and never passes
\* the ceiling.
SlotsAreLeases ==
    /\ limiter.inFlight = Cardinality(Open)
    /\ limiter.concurrent # None => Cardinality(Open) <= limiter.concurrent

\* Over any time the requests the minute ceiling let through and did not take
\* back are at most a full bucket and what has refilled, although calls arrive
\* with clock readings out of order and released ones are refunded.
RpmHolds ==
    limiter.rpm # None =>
        Cardinality(Spent) <= limiter.rpm.cap + limiter.rpm.rate * now

Sum(S, f(_)) == MapThenSumSet(f, S)
LeaseUsd(c) == lease[c].usd
OpenOn(d) == {c \in Open : Day(at[c]) = d}

\* As long as no call outlives its day, the day's bill is exactly what was reported
\* for the calls answered and what the open ones reserved; and it passes the
\* ceiling only by what responses cost beyond their reservations, however many
\* calls were admitted at the same time.
BillIsExact ==
    ~crossed =>
        /\ limiter.spent = settled[limiter.day] + Sum(OpenOn(limiter.day), LeaseUsd)
        /\ limiter.dailyUsd # None => \A d \in Days : settled[d] <= limiter.dailyUsd + excess[d]

\* The comment in acquire, "Reaching the ceiling denies everything until the day
\* rolls over": once a day's responses have cost the ceiling, no call that starts
\* and is admitted on that day gets through.
CeilingDeniesForTheDay ==
    [][\A c \in Calls :
          /\ pc[c] = "started" /\ pc'[c] = "sending"
          /\ limiter.dailyUsd # None
          /\ Day(at[c]) = Day(now)
          => settled[Day(at[c])] < limiter.dailyUsd]_vars

\* The doc of Lease, "Must be either [`Limiter::reconcile`]d (normal path) or
\* [`Limiter::release`]d".
EveryLeaseIsSettled ==
    \A c \in Calls : pc[c] = "sending" ~> pc[c] \in {"answered", "released"}

=============================================================================

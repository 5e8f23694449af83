---------------------------- MODULE ModelRouter ----------------------------
(***************************************************************************)
(* The routing table (hx-provider/src/router.rs) under concurrent model    *)
(* calls (RouterModel::complete): a named pool with a ceiling and routes   *)
(* in order of preference, each route a provider with its credential pool. *)
(* One reservation is thus held at up to three levels, and has to be given *)
(* back at all of them, whichever level refused and however the call ends. *)
(*                                                                         *)
(* Every operation runs under the one router mutex.  Two pools may share a *)
(* provider, and a pool may list a provider twice (two of its models).     *)
(***************************************************************************)
EXTENDS CredentialPool

CONSTANTS
    Calls, Estimates, Usages,
    PoolNames, Routes,       \* [PoolNames -> Seq(Providers)]
    Providers,
    PoolStart,               \* [PoolNames -> limiter or None], as configured
    ProviderStarts,          \* configurations: a subset of [Providers -> Pool]
    MaxNow

VARIABLES
    pools,       \* each named pool's ceiling
    providers,   \* each provider's credential pool
    now,
    pc,          \* where each call's complete is
    at,          \* the clock reading it works with
    ticket       \* the reservation it holds

vars == <<pools, providers, now, pc, at, ticket>>

Ticket == [pool : PoolNames, provider : Providers, slot : Nat, lease : Lease]
Request == [pool : PoolNames, lease : Lease]

TypeOK ==
    /\ pools \in [PoolNames -> LimiterState \cup {None}]
    /\ providers \in [Providers -> Pool]
    /\ now \in Nat
    /\ pc \in [Calls -> {"idle", "started", "sent", "done", "refused", "abandoned"}]
    /\ at \in [Calls -> Nat]
    /\ ticket \in [Calls -> Ticket \cup Request \cup {None}]

Init ==
    /\ pools = PoolStart
    /\ providers \in ProviderStarts
    /\ now = 0
    /\ pc = [c \in Calls |-> "idle"]
    /\ at = [c \in Calls |-> 0]
    /\ ticket = [c \in Calls |-> None]

-----------------------------------------------------------------------------
(* acquire: the pool's ceiling, then each route until one serves.          *)

RouteTo(tables, provider, got) ==
    [providers |-> [tables EXCEPT ![provider] = got.pool], provider |-> provider, slot |-> got.slot]

\* The next route, unless an earlier one serves.
Try(tried, provider, lease, reading) ==
    IF tried.slot # 0 THEN tried
    ELSE RouteTo(tried.providers, provider, PoolAcquire(tried.providers[provider], lease, reading))

Served(tables, lease, reading, routes) ==
    LET Tried[n \in 0 .. Len(routes)] ==
            IF n = 0 THEN [providers |-> tables, provider |-> None, slot |-> 0]
            ELSE Try(Tried[n - 1], routes[n], lease, reading)
    IN Tried[Len(routes)]

Start(c, pool, lease) ==
    /\ pc[c] = "idle"
    /\ pc' = [pc EXCEPT ![c] = "started"]
    /\ at' = [at EXCEPT ![c] = now]
    /\ ticket' = [ticket EXCEPT ![c] = [pool |-> pool, lease |-> lease]]
    /\ UNCHANGED <<pools, providers, now>>

\* Mutant of Acquire: routes are tried before the pool's ceiling is looked at.
AcquireRoutesFirst(c) ==
    LET pool  == ticket[c].pool
        lease == ticket[c].lease
        got   == Served(providers, lease, at[c], Routes[pool])
    IN /\ pc[c] = "started"
       /\ providers' = got.providers
       /\ pools' = [pools EXCEPT ![pool] = CeilingAcquired(@, lease, at[c])]
       /\ IF got.slot # 0 /\ CeilingAdmits(pools[pool], lease, at[c])
            THEN /\ pc' = [pc EXCEPT ![c] = "sent"]
                 /\ ticket' = [ticket EXCEPT ![c] = [pool |-> pool, provider |-> got.provider,
                                                     slot |-> got.slot, lease |-> lease]]
            ELSE pc' = [pc EXCEPT ![c] = "refused"] /\ UNCHANGED ticket
       /\ UNCHANGED <<now, at>>

\* The pool's ceiling admitted the call and its routes have been tried.
Dispatch(c, pool, lease, held, got) ==
    /\ providers' = got.providers
    /\ \/ /\ got.slot # 0
          /\ pools' = [pools EXCEPT ![pool] = held]
          /\ pc' = [pc EXCEPT ![c] = "sent"]
          /\ ticket' = [ticket EXCEPT ![c] = [pool |-> pool, provider |-> got.provider,
                                              slot |-> got.slot, lease |-> lease]]
       \/ /\ got.slot = 0
          /\ pools' = [pools EXCEPT ![pool] = CeilingReleased(held, lease, at[c])]
          /\ pc' = [pc EXCEPT ![c] = "refused"]
          /\ UNCHANGED ticket

Acquire(c) ==
    LET pool  == ticket[c].pool
        lease == ticket[c].lease
        held  == CeilingAcquired(pools[pool], lease, at[c])
    IN /\ pc[c] = "started"
       /\ IF CeilingAdmits(pools[pool], lease, at[c])
            THEN Dispatch(c, pool, lease, held, Served(providers, lease, at[c], Routes[pool]))
            ELSE /\ pools' = [pools EXCEPT ![pool] = held]
                 /\ pc' = [pc EXCEPT ![c] = "refused"]
                 /\ UNCHANGED <<providers, ticket>>
       /\ UNCHANGED <<now, at>>

-----------------------------------------------------------------------------
(* The end of a call.                                                      *)

Reconcile(c, usage) ==
    LET t == ticket[c]
    IN /\ pc[c] = "sent"
       /\ providers' = [providers EXCEPT ![t.provider] =
                           PoolReconcile(@, t.slot, t.lease, usage, at[c])]
       /\ pools' = [pools EXCEPT ![t.pool] = CeilingReconciled(@, t.lease, usage, at[c])]
       /\ pc' = [pc EXCEPT ![c] = "done"]
       /\ UNCHANGED <<now, at, ticket>>

\* A key that does not resolve or a provider error releases the ticket; an
\* authentication failure benches the key in the same critical section.
Release(c, authFailure) ==
    LET t == ticket[c]
        p == IF authFailure THEN MarkUnhealthy(providers[t.provider], t.slot)
             ELSE providers[t.provider]
    IN /\ pc[c] = "sent"
       /\ providers' = [providers EXCEPT ![t.provider] = PoolRelease(p, t.slot, t.lease, at[c])]
       /\ pools' = [pools EXCEPT ![t.pool] = CeilingReleased(@, t.lease, at[c])]
       /\ pc' = [pc EXCEPT ![c] = "done"]
       /\ UNCHANGED <<now, at, ticket>>

\* The run's deadline drops the call at its await.
Abandon(c) ==
    /\ pc[c] = "sent"
    /\ pc' = [pc EXCEPT ![c] = "abandoned"]
    /\ UNCHANGED <<pools, providers, now, at, ticket>>

Tick ==
    /\ now < MaxNow
    /\ now' = now + 1
    /\ UNCHANGED <<pools, providers, pc, at, ticket>>

Next ==
    \/ \E c \in Calls :
           \/ \E pool \in PoolNames, lease \in Estimates : Start(c, pool, lease)
           \/ Acquire(c)
           \/ \E usage \in Usages : Reconcile(c, usage)
           \/ \E authFailure \in BOOLEAN : Release(c, authFailure)
           \/ Abandon(c)
    \/ Tick

Spec == Init /\ [][Next]_vars

-----------------------------------------------------------------------------
Open == {c \in Calls : pc[c] \in {"sent", "abandoned"}}

\* At every level a reservation is held by exactly the calls that were routed
\* through it and have not settled: a refusal at one level, a fallback to the
\* next route or key, and a failed call leave nothing behind at the others.
LeasesBalance ==
    /\ \A n \in PoolNames : pools[n] # None =>
           pools[n].inFlight = Cardinality({c \in Open : ticket[c].pool = n})
    /\ \A v \in Providers :
           /\ providers[v].limiter # None =>
                  providers[v].limiter.inFlight = Cardinality({c \in Open : ticket[c].provider = v})
           /\ \A i \in Positions(providers[v]) :
                  providers[v].slots[i].limiter.inFlight =
                      Cardinality({c \in Open : ticket[c].provider = v /\ ticket[c].slot = i})

\* What a limiter would let through at a reading of the clock.
Room(l, reading) ==
    LET r == RollDay(l, reading)
        Left(b) == IF b = None THEN None ELSE Refill(b, reading).tokens
    IN <<Left(r.rpm), Left(r.tpm), Left(r.rpd), r.spent, r.inFlight>>

\* A call that was refused costs nobody anything: at every level there is as
\* much room after the attempt as before it.
RefusedTakesNothing ==
    [][\A c \in Calls :
          pc[c] = "started" /\ pc'[c] = "refused" =>
              /\ \A n \in PoolNames : pools[n] # None => Room(pools'[n], at[c]) = Room(pools[n], at[c])
              /\ \A v \in Providers :
                     /\ providers[v].limiter # None =>
                            Room(providers'[v].limiter, at[c]) = Room(providers[v].limiter, at[c])
                     /\ \A i \in Positions(providers[v]) :
                            Room(providers'[v].slots[i].limiter, at[c])
                                = Room(providers[v].slots[i].limiter, at[c])]_vars

=============================================================================

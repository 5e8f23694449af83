--------------------------- MODULE CredentialPool ---------------------------
(***************************************************************************)
(* A provider's credential pool (hx-provider/src/pool.rs) as a value: an   *)
(* optional ceiling over the pool, and one slot per key with its own       *)
(* limiter, its health and its weighted-round-robin accumulator.  A slot   *)
(* is named by its position.                                               *)
(***************************************************************************)
EXTENDS Limiter, Sequences, FiniteSets, FiniteSetsExt

CONSTANT Scale   \* loads are fractions of Scale; every ceiling divides it

Strategies == {"Priority", "RoundRobin", "LeastLoaded", "CheapestCapable", "Weighted"}

Slot == [limiter : LimiterState, healthy : BOOLEAN, current : Int,
         weight : Nat \ {0}, priority : Nat, cost : Nat]
Pool == [strategy : Strategies, limiter : LimiterState \cup {None},
         slots : Seq(Slot), cursor : Nat]

-----------------------------------------------------------------------------
(* load_score: the fullest of the ceilings, as a part of Scale.            *)

BucketLoad(b, now) ==
    IF b = None THEN 0
    ELSE IF b.cap = 0 THEN Scale
    ELSE Scale - (Refill(b, now).tokens * Scale) \div b.cap

ShareLoad(used, limit) ==
    IF limit = None \/ limit = 0 THEN 0 ELSE Least(Scale, (used * Scale) \div limit)

LoadScore(l, now) ==
    LET r == RollDay(l, now)
    IN Max({BucketLoad(r.tpm, now), BucketLoad(r.rpm, now),
            ShareLoad(r.inFlight, r.concurrent), ShareLoad(r.spent, r.dailyUsd)})

\* Scoring a limiter rolls its day and refills the buckets it reads.
Scored(l, now) ==
    [RollDay(l, now) EXCEPT !.tpm = Refilled(@, now), !.rpm = Refilled(@, now)]

-----------------------------------------------------------------------------
(* pick_order                                                              *)

Positions(p) == 1 .. Len(p.slots)

Accrued(p, i) == p.slots[i].current + p.slots[i].weight

\* The first slot with the highest accumulator.
WeightedHead(p) ==
    CHOOSE i \in Positions(p) :
        \A j \in Positions(p) :
            \/ Accrued(p, j) < Accrued(p, i)
            \/ Accrued(p, j) = Accrued(p, i) /\ i <= j

TotalWeight(p) == MapThenSumSet(LAMBDA i : p.slots[i].weight, Positions(p))

\* Slot i comes before slot j: by the strategy's key, in configuration order between
\* equals; from the cursor on, around; the winner, then by descending weight.
Before(p, i, j, now) ==
    LET a == p.slots[i]
        b == p.slots[j]
        Ascending(x, y) == x < y \/ (x = y /\ i < j)
        Turn(k) == (k - 1 - p.cursor) % Len(p.slots)
    IN CASE p.strategy = "Priority" -> Ascending(a.priority, b.priority)
         [] p.strategy = "RoundRobin" -> Turn(i) < Turn(j)
         [] p.strategy = "LeastLoaded" ->
              Ascending(LoadScore(a.limiter, now), LoadScore(b.limiter, now))
         [] p.strategy = "CheapestCapable" ->
              a.cost < b.cost \/ (a.cost = b.cost /\ Ascending(a.priority, b.priority))
         [] p.strategy = "Weighted" ->
              LET head == WeightedHead(p)
              IN j # head /\ (i = head \/ Ascending(b.weight, a.weight))

\* The order: of each slot, how many are tried before it.
PickOrder(p, now) ==
    [i \in Positions(p) |-> Cardinality({j \in Positions(p) : Before(p, j, i, now)})]

\* What choosing an order leaves behind: every slot accrues its weight and the
\* winner pays the total; a scored limiter is refilled.
AfterPick(p, now) ==
    CASE p.strategy = "Weighted" ->
           LET head == WeightedHead(p)
           IN [p EXCEPT !.slots = [i \in Positions(p) |->
                  [p.slots[i] EXCEPT !.current = Accrued(p, i)
                       - (IF i = head THEN TotalWeight(p) ELSE 0)]]]
      [] p.strategy = "LeastLoaded" ->
           [p EXCEPT !.slots = [i \in Positions(p) |->
               [p.slots[i] EXCEPT !.limiter = Scored(@, now)]]]
      [] OTHER -> p

-----------------------------------------------------------------------------
(* acquire, reconcile, release, mark_unhealthy                             *)

\* An optional ceiling: what acquire, reconcile and release do to it.
CeilingAdmits(l, lease, now) == l # None => Admits(l, lease, now)
CeilingAcquired(l, lease, now) == IF l = None THEN None ELSE AfterAcquire(l, lease, now)
CeilingReconciled(l, lease, usage, now) ==
    IF l = None THEN None ELSE AfterReconcile(l, lease, usage, now)
CeilingReleased(l, lease, now) == IF l = None THEN None ELSE AfterRelease(l, lease, now)

Usable(p, i, lease, now) == p.slots[i].healthy /\ Admits(p.slots[i].limiter, lease, now)

\* The first usable slot, 0 if there is none.
FirstUsable(p, order, lease, now) ==
    LET fit == {i \in Positions(p) : Usable(p, i, lease, now)}
    IN IF fit = {} THEN 0 ELSE CHOOSE i \in fit : \A j \in fit : order[i] <= order[j]

\* Mutant of Rollback: a pool that served nothing keeps its reservation.
RollbackNothing(p, lease, now) == p

Rollback(p, lease, now) == [p EXCEPT !.limiter = CeilingReleased(@, lease, now)]

\* The slots up to k in the order, all of them when k is 0, after each healthy one
\* was asked.
Asked(p, order, k, lease, now) ==
    [i \in Positions(p) |->
        IF p.slots[i].healthy /\ (k = 0 \/ i = k \/ order[i] < order[k])
          THEN [p.slots[i] EXCEPT !.limiter = AfterAcquire(@, lease, now)]
          ELSE p.slots[i]]

\* The first key with headroom, k, serves.  Nothing served gives the ceiling's lease
\* back.
ServedBy(p, order, k, lease, now) ==
    IF k = 0
      THEN [pool |-> Rollback([p EXCEPT !.slots = Asked(p, order, k, lease, now)], lease, now),
            slot |-> 0]
      ELSE [pool |-> [p EXCEPT !.slots = Asked(p, order, k, lease, now), !.cursor = @ + 1],
            slot |-> k]

TryKeys(p, order, lease, now) ==
    ServedBy(p, order, FirstUsable(p, order, lease, now), lease, now)

\* The ceiling first, then the keys in the strategy's order.
WithCeiling(p, lease, now) == [p EXCEPT !.limiter = CeilingAcquired(@, lease, now)]
PickAndTry(held, lease, now) == TryKeys(AfterPick(held, now), PickOrder(held, now), lease, now)

PoolAcquire(p, lease, now) ==
    IF p.slots = <<>> THEN [pool |-> p, slot |-> 0]
    ELSE IF ~CeilingAdmits(p.limiter, lease, now)
      THEN [pool |-> WithCeiling(p, lease, now), slot |-> 0]
    ELSE PickAndTry(WithCeiling(p, lease, now), lease, now)

PoolReconcile(p, slot, lease, usage, now) ==
    [p EXCEPT !.slots[slot].limiter = AfterReconcile(@, lease, usage, now),
              !.limiter = CeilingReconciled(@, lease, usage, now)]

PoolRelease(p, slot, lease, now) ==
    Rollback([p EXCEPT !.slots[slot].limiter = AfterRelease(@, lease, now)], lease, now)

MarkUnhealthy(p, slot) == [p EXCEPT !.slots[slot].healthy = FALSE]

=============================================================================

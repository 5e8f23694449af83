------------------------------ MODULE Limiter ------------------------------
(***************************************************************************)
(* Rate and budget limiting (hx-provider/src/limits.rs): a limiter as a    *)
(* value, and the operations on it.  Callers hold it behind a lock, so     *)
(* each operation is one step of theirs.                                   *)
(*                                                                         *)
(* Time is a count of ticks, DayLength of them to a day, with the tick so  *)
(* short that a bucket's refill per tick is a whole number; money is in    *)
(* whole units.  A bucket is a TokenBucket, and an absent ceiling is None. *)
(***************************************************************************)
EXTENDS Integers

CONSTANTS DayLength, None

Bucket == [cap : Nat, rate : Nat, tokens : Nat, last : Nat]

ASSUME LimiterAssumption ==
    /\ DayLength \in Nat \ {0}
    /\ None \notin Nat
    /\ None \notin Bucket

Least(a, b) == IF a <= b THEN a ELSE b

Day(now) == now \div DayLength

-----------------------------------------------------------------------------
(* TokenBucket                                                             *)

\* A new bucket starts full.
NewBucket(cap, rate, now) == [cap |-> cap, rate |-> rate, tokens |-> cap, last |-> now]

\* A clock older than the last refill changes nothing.
Refill(b, now) ==
    IF now > b.last
      THEN [b EXCEPT !.tokens = Least(b.cap, b.tokens + (now - b.last) * b.rate), !.last = now]
      ELSE b

\* A request larger than the bucket is clamped to it, or it could never run.
Wants(b, n) == Least(n, b.cap)

Refilled(b, now) == IF b = None THEN None ELSE Refill(b, now)
Peek(b, n, now) == b = None \/ Refill(b, now).tokens >= Wants(b, n)

TryTake(b, n, now) ==
    IF b = None THEN None ELSE [Refill(b, now) EXCEPT !.tokens = @ - Wants(b, n)]

Refund(b, n) ==
    IF b = None THEN None ELSE [b EXCEPT !.tokens = Least(b.cap, @ + n)]

ConsumeExtra(b, n) ==
    IF b = None THEN None ELSE [b EXCEPT !.tokens = IF @ >= n THEN @ - n ELSE 0]

-----------------------------------------------------------------------------
(* Limiter                                                                 *)

LimiterState ==
    [rpm : Bucket \cup {None}, tpm : Bucket \cup {None}, rpd : Bucket \cup {None},
     dailyUsd : Nat \cup {None}, concurrent : Nat \cup {None},
     day : Nat, spent : Nat, inFlight : Nat]

Lease == [tokens : Nat, usd : Nat]

RollDay(l, now) ==
    IF Day(now) = l.day THEN l
    ELSE [l EXCEPT !.day = Day(now), !.spent = 0,
                   !.rpd = IF l.rpd = None THEN None
                           ELSE NewBucket(l.rpd.cap, l.rpd.rate, now)]

\* The first ceiling, in acquire's order, that stands in the way.
Refusal(l, lease, now) ==
    IF l.concurrent # None /\ l.inFlight >= l.concurrent THEN "Concurrency"
    ELSE IF ~Peek(l.rpm, 1, now) THEN "RequestsPerMinute"
    ELSE IF ~Peek(l.tpm, lease.tokens, now) THEN "TokensPerMinute"
    ELSE IF ~Peek(l.rpd, 1, now) THEN "RequestsPerDay"
    ELSE IF l.dailyUsd # None
            /\ (l.spent + lease.usd > l.dailyUsd \/ l.spent >= l.dailyUsd) THEN "DailyBudget"
    ELSE "admitted"

Admits(l, lease, now) == Refusal(RollDay(l, now), lease, now) = "admitted"

\* A refused acquire has rolled the day and refilled the buckets it looked at.
Peeked(l, why, now) ==
    [l EXCEPT
        !.rpm = IF why = "Concurrency" THEN @ ELSE Refilled(@, now),
        !.tpm = IF why \in {"Concurrency", "RequestsPerMinute"} THEN @ ELSE Refilled(@, now),
        !.rpd = IF why \in {"Concurrency", "RequestsPerMinute", "TokensPerMinute"}
                  THEN @ ELSE Refilled(@, now)]

\* Mutant of Committed: the minute bucket is looked at and not charged.
CommittedSkipsMinute(l, lease, now) ==
    [l EXCEPT !.tpm = TryTake(@, lease.tokens, now),
              !.rpd = TryTake(@, 1, now), !.spent = @ + lease.usd, !.inFlight = @ + 1]

Committed(l, lease, now) ==
    [l EXCEPT !.rpm = TryTake(@, 1, now), !.tpm = TryTake(@, lease.tokens, now),
              !.rpd = TryTake(@, 1, now), !.spent = @ + lease.usd, !.inFlight = @ + 1]

AfterAcquire(l, lease, now) ==
    LET rolled == RollDay(l, now)
        why    == Refusal(rolled, lease, now)
    IN IF why = "admitted" THEN Committed(rolled, lease, now) ELSE Peeked(rolled, why, now)

\* Both ways of settling subtract without going below zero.
Less(a, b) == IF a >= b THEN a - b ELSE 0

\* Mutant of AfterReconcile: the reservation stays on the day's bill.
AfterReconcileKeepsReservation(l, lease, usage, now) ==
    LET r == RollDay(l, now)
    IN [r EXCEPT !.tpm = IF usage.tokens < lease.tokens THEN Refund(@, lease.tokens - usage.tokens)
                         ELSE ConsumeExtra(@, usage.tokens - lease.tokens),
                 !.spent = @ + usage.usd,
                 !.inFlight = Less(@, 1)]

\* The reservation is replaced by the truth, and the slot freed.
AfterReconcile(l, lease, usage, now) ==
    LET r == RollDay(l, now)
    IN [r EXCEPT !.tpm = IF usage.tokens < lease.tokens THEN Refund(@, lease.tokens - usage.tokens)
                         ELSE ConsumeExtra(@, usage.tokens - lease.tokens),
                 !.spent = Less(@ + usage.usd, lease.usd),
                 !.inFlight = Less(@, 1)]

\* Mutant of AfterRelease: the slot is not freed.
AfterReleaseKeepsSlot(l, lease, now) ==
    LET r == RollDay(l, now)
    IN [r EXCEPT !.tpm = Refund(@, lease.tokens), !.rpm = Refund(@, 1), !.rpd = Refund(@, 1),
                 !.spent = Less(@, lease.usd)]

\* Everything the lease took is given back.
AfterRelease(l, lease, now) ==
    LET r == RollDay(l, now)
    IN [r EXCEPT !.tpm = Refund(@, lease.tokens), !.rpm = Refund(@, 1), !.rpd = Refund(@, 1),
                 !.spent = Less(@, lease.usd), !.inFlight = Less(@, 1)]

=============================================================================

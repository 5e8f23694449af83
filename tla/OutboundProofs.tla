--------------------------- MODULE OutboundProofs ---------------------------
(***************************************************************************)
(* What goes out.  Calls to a model stay within the limiter's slots and    *)
(* its minute ceiling, and the day's bill is what they cost and reserve,   *)
(* for any calls, limits and clocks; over a routing table of any size the  *)
(* reservations balance and a refused call costs nothing.  And the tools   *)
(* that reach outside: no deletion destroys a file, no fetch returns a     *)
(* page its origin did not send or confirm, the cache of pages keeps to    *)
(* its cap, and whoever was asked to answer a challenge is heard and told  *)
(* it is over, for every number of calls, paths, names, pages and          *)
(* operators.                                                              *)
(***************************************************************************)
EXTENDS MCOutbound, FiniteSetTheorems, SequenceTheorems, WellFoundedInduction, TLAPS

-----------------------------------------------------------------------------
(* Buckets                                                                 *)

\* A refilled bucket is a bucket with the same ceiling and rate.
LEMMA RefillBucket ==
    ASSUME NEW b \in Bucket, NEW t \in Nat
    PROVE  /\ Refill(b, t) \in Bucket
           /\ Refill(b, t).cap = b.cap /\ Refill(b, t).rate = b.rate
  <1>1. CASE t > b.last
    <2>1. (t - b.last) * b.rate \in Nat
      BY <1>1 DEF Bucket
    <2>2. Least(b.cap, b.tokens + (t - b.last) * b.rate) \in Nat
      BY <2>1 DEF Bucket, Least
    <2> QED
      BY <1>1, <2>2 DEF Bucket, Refill
  <1>2. CASE ~(t > b.last)
    BY <1>2 DEF Bucket, Refill
  <1> QED
    BY <1>1, <1>2

\* Whatever is done to an optional bucket leaves an optional bucket.
LEMMA BucketTypes ==
    ASSUME NEW b \in Bucket \cup {None}, NEW n \in Nat, NEW t \in Nat
    PROVE  /\ Refilled(b, t) \in Bucket \cup {None}
           /\ Peek(b, n, t) => TryTake(b, n, t) \in Bucket \cup {None}
           /\ Refund(b, n) \in Bucket \cup {None}
           /\ ConsumeExtra(b, n) \in Bucket \cup {None}
  <1>1. CASE b = None
    BY <1>1 DEF Refilled, TryTake, Refund, ConsumeExtra
  <1>2. CASE b # None
    <2>1. b \in Bucket /\ Refill(b, t) \in Bucket /\ Refill(b, t).cap = b.cap
      BY <1>2, RefillBucket
    <2>2. Wants(b, n) \in Nat
      BY <2>1 DEF Wants, Least, Bucket
    <2>3. Peek(b, n, t) => Refill(b, t).tokens - Wants(b, n) \in Nat
      BY <1>2, <2>1, <2>2 DEF Peek, Bucket
    <2>4. Peek(b, n, t) => TryTake(b, n, t) \in Bucket
      <3> DEFINE r == Refill(b, t)
      <3>1. r \in Bucket
        BY <2>1
      <3> HIDE DEF r
      <3>2. \A k \in Nat : [r EXCEPT !.tokens = k] \in Bucket
        BY <3>1 DEF Bucket
      <3> QED
        BY <1>2, <2>3, <3>2 DEF TryTake, r
    <2>5. Least(b.cap, b.tokens + n) \in Nat /\ (IF b.tokens >= n THEN b.tokens - n ELSE 0) \in Nat
      BY <2>1 DEF Bucket, Least
    <2>6. Refund(b, n) \in Bucket /\ ConsumeExtra(b, n) \in Bucket
      BY <1>2, <2>1, <2>5 DEF Refund, ConsumeExtra, Bucket
    <2> QED
      BY <1>2, <2>1, <2>4, <2>6 DEF Refilled
  <1> QED
    BY <1>1, <1>2

\* Some numbers have a least one.
LEMMA LeastOfSome ==
    ASSUME NEW S, S \subseteq Nat, S # {}
    PROVE  \E x \in S : \A y \in S : x <= y
  <1>1. ASSUME NEW x \in Nat, NEW y \in Nat, x < y PROVE <<x, y>> \in OpToRel(<, Nat)
    BY <1>1 DEF OpToRel
  <1>2. PICK x \in S : \A y \in S : ~(<<y, x>> \in OpToRel(<, Nat))
    BY NatLessThanWellFounded, WFMin
  <1>3. \A y \in S : ~(y < x)
    BY <1>1, <1>2
  <1> QED
    BY <1>3

-----------------------------------------------------------------------------
(* The limiter                                                             *)

LEMMA DayNat == \A t \in Nat : Day(t) \in Nat
  BY LimiterAssumption DEF Day

LEMMA LessNat == \A a, b \in Nat : Less(a, b) \in Nat
  BY DEF Less

\* Adding to one entry of a table of numbers leaves a table of numbers.
LEMMA AddAt ==
    ASSUME NEW D, NEW f \in [D -> Nat], NEW x, NEW k \in Nat
    PROVE  [f EXCEPT ![x] = f[x] + k] \in [D -> Nat]
  <1> SUFFICES ASSUME NEW d \in D PROVE [f EXCEPT ![x] = f[x] + k][d] \in Nat
    OBVIOUS
  <1>1. CASE d = x
    BY <1>1
  <1>2. CASE d # x
    BY <1>2
  <1> QED
    BY <1>1, <1>2

\* Rolling the day touches neither the minute buckets nor the slots.
LEMMA RollDayState ==
    ASSUME NEW l \in LimiterState, NEW t \in Nat
    PROVE  /\ RollDay(l, t) \in LimiterState
           /\ RollDay(l, t).rpm = l.rpm
           /\ RollDay(l, t).inFlight = l.inFlight
           /\ RollDay(l, t).concurrent = l.concurrent
  <1> DEFINE fresh == IF l.rpd = None THEN None ELSE NewBucket(l.rpd.cap, l.rpd.rate, t)
  <1>1. fresh \in Bucket \cup {None}
    BY DEF LimiterState, NewBucket, Bucket
  <1>2. Day(t) \in Nat
    BY DayNat
  <1> HIDE DEF fresh
  <1>3. RollDay(l, t) = IF Day(t) = l.day THEN l
                        ELSE [l EXCEPT !.day = Day(t), !.spent = 0, !.rpd = fresh]
    BY DEF RollDay, fresh
  <1>4. CASE Day(t) = l.day
    BY <1>3, <1>4
  <1>5. CASE Day(t) # l.day
    <2> DEFINE d == Day(t)
               m == [l EXCEPT !.day = d, !.spent = 0, !.rpd = fresh]
    <2>1. d \in Nat
      BY <1>2
    <2>2. RollDay(l, t) = m
      BY <1>3, <1>5
    <2> HIDE DEF d
    <2>3. m \in LimiterState /\ m.rpm = l.rpm /\ m.inFlight = l.inFlight /\ m.concurrent = l.concurrent
      BY <1>1, <2>1 DEF LimiterState
    <2> QED
      BY <2>2, <2>3
  <1> QED
    BY <1>4, <1>5

\* What acquire does to the parts the theorems are about.
LEMMA AcquireEffect ==
    ASSUME NEW l \in LimiterState, NEW e \in Lease, NEW t \in Nat
    PROVE  /\ AfterAcquire(l, e, t) \in LimiterState
           /\ AfterAcquire(l, e, t).concurrent = l.concurrent
           /\ Admits(l, e, t) =>
                  /\ AfterAcquire(l, e, t).inFlight = l.inFlight + 1
                  /\ l.concurrent # None => l.inFlight < l.concurrent
                  /\ Peek(l.rpm, 1, t)
                  /\ AfterAcquire(l, e, t).rpm = TryTake(l.rpm, 1, t)
           /\ ~Admits(l, e, t) =>
                  /\ AfterAcquire(l, e, t).inFlight = l.inFlight
                  /\ AfterAcquire(l, e, t).rpm \in {l.rpm, Refilled(l.rpm, t)}
  <1> DEFINE r == RollDay(l, t)
             why == Refusal(r, e, t)
  <1>0. /\ r \in LimiterState
        /\ r.rpm = l.rpm /\ r.inFlight = l.inFlight /\ r.concurrent = l.concurrent
    BY RollDayState
  <1>1. /\ Admits(l, e, t) <=> why = "admitted"
        /\ AfterAcquire(l, e, t) = IF why = "admitted" THEN Committed(r, e, t)
                                   ELSE Peeked(r, why, t)
    BY DEF Admits, AfterAcquire
  <1>2. why = "admitted" =>
            /\ r.concurrent # None => ~(r.inFlight >= r.concurrent)
            /\ Peek(r.rpm, 1, t) /\ Peek(r.tpm, e.tokens, t) /\ Peek(r.rpd, 1, t)
    BY DEF Refusal
  <1> HIDE DEF r, why
  <1>3. CASE why = "admitted"
    <2> DEFINE rpm == TryTake(r.rpm, 1, t)
               tpm == TryTake(r.tpm, e.tokens, t)
               rpd == TryTake(r.rpd, 1, t)
    <2>1. rpm \in Bucket \cup {None} /\ tpm \in Bucket \cup {None} /\ rpd \in Bucket \cup {None}
      BY <1>0, <1>2, <1>3, BucketTypes DEF LimiterState, Lease
    <2>2. r.spent + e.usd \in Nat /\ r.inFlight + 1 \in Nat
      BY <1>0 DEF LimiterState, Lease
    <2>3. Committed(r, e, t) = [r EXCEPT !.rpm = rpm, !.tpm = tpm, !.rpd = rpd,
                                         !.spent = r.spent + e.usd, !.inFlight = r.inFlight + 1]
      BY <1>0 DEF Committed, LimiterState
    <2> HIDE DEF rpm, tpm, rpd
    <2>4. /\ Committed(r, e, t) \in LimiterState
          /\ Committed(r, e, t).concurrent = r.concurrent
          /\ Committed(r, e, t).inFlight = r.inFlight + 1
          /\ Committed(r, e, t).rpm = rpm
      BY <1>0, <2>1, <2>2, <2>3 DEF LimiterState
    <2>5. l.concurrent # None => l.inFlight < l.concurrent
      BY <1>0, <1>2, <1>3 DEF LimiterState
    <2>6. rpm = TryTake(l.rpm, 1, t)
      BY <1>0 DEF rpm
    <2> QED
      BY <1>0, <1>1, <1>2, <1>3, <2>4, <2>5, <2>6
  <1>4. CASE why # "admitted"
    <2> DEFINE rpm == IF why = "Concurrency" THEN r.rpm ELSE Refilled(r.rpm, t)
               tpm == IF why \in {"Concurrency", "RequestsPerMinute"} THEN r.tpm
                      ELSE Refilled(r.tpm, t)
               rpd == IF why \in {"Concurrency", "RequestsPerMinute", "TokensPerMinute"} THEN r.rpd
                      ELSE Refilled(r.rpd, t)
    <2>0. r.rpm \in Bucket \cup {None} /\ r.tpm \in Bucket \cup {None} /\ r.rpd \in Bucket \cup {None}
      BY <1>0 DEF LimiterState
    <2>1. rpm \in Bucket \cup {None} /\ tpm \in Bucket \cup {None} /\ rpd \in Bucket \cup {None}
      BY <2>0, BucketTypes
    <2>2. rpm \in {r.rpm, Refilled(r.rpm, t)}
      OBVIOUS
    <2>3. Peeked(r, why, t) = [r EXCEPT !.rpm = rpm, !.tpm = tpm, !.rpd = rpd]
      BY <1>0 DEF Peeked, LimiterState
    <2> HIDE DEF rpm, tpm, rpd
    <2>4. /\ Peeked(r, why, t) \in LimiterState
          /\ Peeked(r, why, t).concurrent = r.concurrent
          /\ Peeked(r, why, t).inFlight = r.inFlight
          /\ Peeked(r, why, t).rpm = rpm
      BY <1>0, <2>1, <2>3 DEF LimiterState
    <2> QED
      BY <1>0, <1>1, <1>4, <2>2, <2>4
  <1> QED
    BY <1>3, <1>4

\* What reconcile does to them.
LEMMA ReconcileEffect ==
    ASSUME NEW l \in LimiterState, NEW e \in Lease, NEW u \in Lease, NEW t \in Nat
    PROVE  /\ AfterReconcile(l, e, u, t) \in LimiterState
           /\ AfterReconcile(l, e, u, t).concurrent = l.concurrent
           /\ AfterReconcile(l, e, u, t).inFlight = Less(l.inFlight, 1)
           /\ AfterReconcile(l, e, u, t).rpm = l.rpm
  <1> DEFINE r == RollDay(l, t)
             tpm == IF u.tokens < e.tokens THEN Refund(r.tpm, e.tokens - u.tokens)
                    ELSE ConsumeExtra(r.tpm, u.tokens - e.tokens)
  <1>0. /\ r \in LimiterState
        /\ r.rpm = l.rpm /\ r.inFlight = l.inFlight /\ r.concurrent = l.concurrent
    BY RollDayState
  <1>1. tpm \in Bucket \cup {None}
    <2>1. r.tpm \in Bucket \cup {None}
      BY <1>0 DEF LimiterState
    <2>2. CASE u.tokens < e.tokens
      <3>1. e.tokens - u.tokens \in Nat
        BY <2>2 DEF Lease
      <3> QED
        BY <2>1, <2>2, <3>1, BucketTypes
    <2>3. CASE ~(u.tokens < e.tokens)
      <3>1. u.tokens - e.tokens \in Nat
        BY <2>3 DEF Lease
      <3> QED
        BY <2>1, <2>3, <3>1, BucketTypes
    <2> QED
      BY <2>2, <2>3
  <1>2. AfterReconcile(l, e, u, t) =
            [r EXCEPT !.tpm = tpm, !.spent = Less(r.spent + u.usd, e.usd),
                      !.inFlight = Less(r.inFlight, 1)]
    BY <1>0 DEF AfterReconcile, LimiterState
  <1>3. Less(r.spent + u.usd, e.usd) \in Nat /\ Less(r.inFlight, 1) \in Nat
    BY <1>0 DEF LimiterState, Lease, Less
  <1> HIDE DEF r, tpm
  <1> QED
    BY <1>0, <1>1, <1>2, <1>3 DEF LimiterState

\* What release does to them.
LEMMA ReleaseEffect ==
    ASSUME NEW l \in LimiterState, NEW e \in Lease, NEW t \in Nat
    PROVE  /\ AfterRelease(l, e, t) \in LimiterState
           /\ AfterRelease(l, e, t).concurrent = l.concurrent
           /\ AfterRelease(l, e, t).inFlight = Less(l.inFlight, 1)
           /\ AfterRelease(l, e, t).rpm = Refund(l.rpm, 1)
  <1> DEFINE r == RollDay(l, t)
             rpm == Refund(r.rpm, 1)
             tpm == Refund(r.tpm, e.tokens)
             rpd == Refund(r.rpd, 1)
  <1>0. /\ r \in LimiterState
        /\ r.rpm = l.rpm /\ r.inFlight = l.inFlight /\ r.concurrent = l.concurrent
    BY RollDayState
  <1>1. rpm \in Bucket \cup {None} /\ tpm \in Bucket \cup {None} /\ rpd \in Bucket \cup {None}
    <2>1. r.rpm \in Bucket \cup {None} /\ r.tpm \in Bucket \cup {None} /\ r.rpd \in Bucket \cup {None}
      BY <1>0 DEF LimiterState
    <2>2. e.tokens \in Nat
      BY DEF Lease
    <2> QED
      BY <2>1, <2>2, BucketTypes
  <1>2. AfterRelease(l, e, t) =
            [r EXCEPT !.tpm = tpm, !.rpm = rpm, !.rpd = rpd, !.spent = Less(r.spent, e.usd),
                      !.inFlight = Less(r.inFlight, 1)]
    BY <1>0 DEF AfterRelease, LimiterState
  <1>3. Less(r.spent, e.usd) \in Nat /\ Less(r.inFlight, 1) \in Nat
    BY <1>0 DEF LimiterState, Lease, Less
  <1>4. rpm = Refund(l.rpm, 1)
    BY <1>0
  <1> HIDE DEF r, rpm, tpm, rpd
  <1> QED
    BY <1>0, <1>1, <1>2, <1>3, <1>4 DEF LimiterState

-----------------------------------------------------------------------------
(* The minute bucket                                                       *)

\* What a bucket holds and the `n` requests it paid for come from a full bucket
\* and what has refilled up to its last reading of the clock.
Paid(b, n, t) ==
    /\ b.cap > 0
    /\ b.last <= t
    /\ b.tokens + n <= b.cap + b.rate * b.last

\* A refill at a reading no later than the clock keeps the account.
LEMMA RefillPaid ==
    ASSUME NEW b \in Bucket, NEW n \in Nat, NEW t \in Nat, NEW now0 \in Nat,
           t <= now0, Paid(b, n, now0)
    PROVE  Paid(Refill(b, t), n, now0)
  <1>1. CASE t > b.last
    <2> DEFINE more == (t - b.last) * b.rate
    <2>1. more \in Nat /\ more = b.rate * t - b.rate * b.last
      BY <1>1 DEF Bucket
    <2>2. /\ Refill(b, t).cap = b.cap /\ Refill(b, t).rate = b.rate /\ Refill(b, t).last = t
          /\ Refill(b, t).tokens = Least(b.cap, b.tokens + more)
      BY <1>1 DEF Refill, Bucket
    <2>3. b.rate * t \in Nat /\ b.rate * b.last \in Nat
      BY DEF Bucket
    <2> HIDE DEF more
    <2> QED
      BY <2>1, <2>2, <2>3 DEF Paid, Least, Bucket
  <1>2. CASE ~(t > b.last)
    BY <1>2 DEF Refill
  <1> QED
    BY <1>1, <1>2

\* So does paying for one more request, and taking one payment back.
LEMMA TakePaid ==
    ASSUME NEW b \in Bucket, NEW n \in Nat, NEW t \in Nat, NEW now0 \in Nat,
           t <= now0, Paid(b, n, now0), b # None, Peek(b, 1, t)
    PROVE  Paid(TryTake(b, 1, t), n + 1, now0)
  <1> DEFINE r == Refill(b, t)
  <1>1. r \in Bucket /\ r.cap = b.cap
    BY RefillBucket
  <1>2. Paid(r, n, now0)
    BY RefillPaid
  <1>3. r.tokens >= Wants(b, 1)
    BY DEF Peek
  <1>4. Wants(b, 1) = 1
    BY DEF Wants, Least, Paid, Bucket
  <1>5. TryTake(b, 1, t) = [r EXCEPT !.tokens = r.tokens - 1]
    BY <1>1, <1>4 DEF TryTake, Bucket
  <1> HIDE DEF r
  <1>6. /\ TryTake(b, 1, t).cap = r.cap /\ TryTake(b, 1, t).rate = r.rate
        /\ TryTake(b, 1, t).last = r.last /\ TryTake(b, 1, t).tokens = r.tokens - 1
    BY <1>1, <1>5 DEF Bucket
  <1>7. r.rate * r.last \in Nat
    BY <1>1 DEF Bucket
  <1> QED
    BY <1>1, <1>2, <1>6, <1>7 DEF Paid, Bucket

LEMMA RefundPaid ==
    ASSUME NEW b \in Bucket, NEW n \in Nat, NEW now0 \in Nat,
           Paid(b, n + 1, now0), b # None
    PROVE  Paid(Refund(b, 1), n, now0)
  <1>1. /\ Refund(b, 1).cap = b.cap /\ Refund(b, 1).rate = b.rate
        /\ Refund(b, 1).last = b.last /\ Refund(b, 1).tokens = Least(b.cap, b.tokens + 1)
    BY DEF Refund, Bucket
  <1>2. b.rate * b.last \in Nat
    BY DEF Bucket
  <1> QED
    BY <1>1, <1>2 DEF Paid, Least, Bucket

-----------------------------------------------------------------------------
(* The invariant.  RpmHolds is not inductive: it forgets how much of the   *)
(* bucket is left and when it was last refilled, which is what the next    *)
(* acquire depends on.                                                     *)

SlotInv ==
    /\ limiter.inFlight = Cardinality(Open)
    /\ limiter.concurrent # None => limiter.inFlight <= limiter.concurrent

RpmInv == limiter.rpm # None => Paid(limiter.rpm, Cardinality(Spent), now)

ClockInv == \A c \in Calls : at[c] <= now

IInv == TypeOK /\ ClockInv /\ SlotInv /\ RpmInv

\* The sets counted are finite.
LEMMA CountsAreNat ==
    /\ IsFiniteSet(Open) /\ Cardinality(Open) \in Nat
    /\ IsFiniteSet(Spent) /\ Cardinality(Spent) \in Nat
  <1>1. Open \subseteq Calls /\ Spent \subseteq Calls
    BY DEF Open, Spent
  <1>2. IsFiniteSet(Open) /\ IsFiniteSet(Spent)
    BY <1>1, FS_Subset, CallsAssumption
  <1> QED
    BY <1>2, FS_CardinalityType

\* A call that changes stage joins or leaves the sets its stage says.
LEMMA StageChange ==
    ASSUME TypeOK, NEW c \in Calls, NEW stage \in Stages, pc' = [pc EXCEPT ![c] = stage]
    PROVE  /\ Open' = IF stage \in {"sending", "sent", "abandoned"} THEN Open \cup {c} ELSE Open \ {c}
           /\ Spent' = IF stage \in {"sending", "sent", "abandoned", "answered"}
                         THEN Spent \cup {c} ELSE Spent \ {c}
           /\ pc' \in [Calls -> Stages]
  BY DEF TypeOK, Open, Spent

\* A call that goes from one counted stage to another changes no count.
LEMMA SameCounts ==
    ASSUME TypeOK, NEW c \in Calls, NEW stage \in Stages, pc' = [pc EXCEPT ![c] = stage],
           \/ pc[c] \in {"idle", "started", "released", "refused"}
              /\ stage \in {"idle", "started", "released", "refused"}
           \/ pc[c] \in {"sending", "sent", "abandoned"}
              /\ stage \in {"sending", "sent", "abandoned"}
    PROVE  Open' = Open /\ Spent' = Spent
  BY StageChange DEF TypeOK, Open, Spent

LEMMA IInvInit == Init => IInv
  <1> SUFFICES ASSUME Init PROVE IInv
    OBVIOUS
  <1>1. TypeOK /\ ClockInv
    <2>1. limiter \in LimiterState /\ now \in Nat /\ crossed \in BOOLEAN
      BY CallsAssumption DEF Init
    <2>2. pc \in [Calls -> Stages] /\ at \in [Calls -> Nat]
      BY DEF Init, Stages
    <2>3. lease \in [Calls -> Lease]
      <3>1. [tokens |-> 0, usd |-> 0] \in Lease
        BY DEF Lease
      <3> QED
        BY <3>1 DEF Init
    <2>4. settled \in [Days -> Nat] /\ excess \in [Days -> Nat]
      BY DEF Init
    <2>5. ClockInv
      BY DEF Init, ClockInv
    <2> QED
      BY <2>1, <2>2, <2>3, <2>4, <2>5 DEF TypeOK
  <1>2. Open = {} /\ Spent = {}
    BY DEF Init, Open, Spent
  <1>3. Cardinality(Open) = 0 /\ Cardinality(Spent) = 0
    BY <1>2, FS_EmptySet
  <1>4. SlotInv
    BY <1>3, CallsAssumption DEF Init, SlotInv, LimiterState
  <1>5. RpmInv
    <2> SUFFICES ASSUME limiter.rpm # None PROVE Paid(limiter.rpm, Cardinality(Spent), now)
      BY DEF RpmInv
    <2>1. limiter.rpm \in Bucket /\ limiter.rpm.cap > 0 /\ limiter.rpm.last = 0
          /\ limiter.rpm.tokens = limiter.rpm.cap
      BY CallsAssumption DEF Init, LimiterState
    <2> QED
      BY <1>3, <2>1 DEF Init, Paid, Bucket
  <1> QED
    BY <1>1, <1>4, <1>5 DEF IInv

LEMMA StartKeeps ==
    ASSUME IInv, NEW c \in Calls, NEW estimate \in Estimates, Start(c, estimate)
    PROVE  IInv'
  <1>1. TypeOK' /\ ClockInv'
    BY CallsAssumption DEF IInv, TypeOK, ClockInv, Start, Stages
  <1>2. Open' = Open /\ Spent' = Spent
    BY SameCounts DEF IInv, Start, Stages
  <1> QED
    BY <1>1, <1>2 DEF IInv, SlotInv, RpmInv, Start

LEMMA SendKeeps ==
    ASSUME IInv, NEW c \in Calls, Send(c) \/ Abandon(c)
    PROVE  IInv'
  <1>1. TypeOK' /\ ClockInv'
    BY DEF IInv, TypeOK, ClockInv, Send, Abandon, Stages
  <1>2. Open' = Open /\ Spent' = Spent
    BY SameCounts DEF IInv, Send, Abandon, Stages
  <1> QED
    BY <1>1, <1>2 DEF IInv, SlotInv, RpmInv, Send, Abandon

LEMMA TickKeeps ==
    ASSUME IInv, Tick
    PROVE  IInv'
  <1>1. TypeOK' /\ ClockInv'
    BY DEF IInv, TypeOK, ClockInv, Tick
  <1>2. Open' = Open /\ Spent' = Spent
    BY DEF Tick, Open, Spent
  <1>3. limiter' = limiter /\ limiter \in LimiterState /\ now \in Nat /\ now' = now + 1
    BY DEF IInv, TypeOK, Tick
  <1>4. RpmInv'
    <2> SUFFICES ASSUME limiter.rpm # None PROVE Paid(limiter.rpm, Cardinality(Spent), now + 1)
      BY <1>2, <1>3 DEF RpmInv
    <2>1. limiter.rpm \in Bucket
      BY <1>3 DEF LimiterState
    <2> QED
      BY <1>3, <2>1 DEF IInv, RpmInv, Paid, Bucket
  <1> QED
    BY <1>1, <1>2, <1>3, <1>4 DEF IInv, SlotInv

LEMMA AcquireKeeps ==
    ASSUME IInv, NEW c \in Calls, Acquire(c)
    PROVE  IInv'
  <1> DEFINE e == lease[c]
             t == at[c]
             m == AfterAcquire(limiter, e, t)
  <1>0. /\ limiter \in LimiterState /\ e \in Lease /\ t \in Nat /\ now \in Nat /\ t <= now
        /\ limiter' = m /\ now' = now
    BY DEF IInv, TypeOK, ClockInv, Acquire
  <1>1. m \in LimiterState /\ m.concurrent = limiter.concurrent
    BY <1>0, AcquireEffect
  <1>2. TypeOK' /\ ClockInv'
    BY <1>0, <1>1 DEF IInv, TypeOK, ClockInv, Acquire, Stages
  <1>3. c \notin Open /\ c \notin Spent
    BY DEF Acquire, Open, Spent
  <1>4. CASE Admits(limiter, e, t)
    <2>1. pc' = [pc EXCEPT ![c] = "sending"]
      BY <1>4 DEF Acquire
    <2>2. Open' = Open \cup {c} /\ Spent' = Spent \cup {c}
      BY <2>1, StageChange DEF IInv, Stages
    <2>3. Cardinality(Open') = Cardinality(Open) + 1 /\ Cardinality(Spent') = Cardinality(Spent) + 1
      BY <1>3, <2>2, CountsAreNat, FS_AddElement
    <2>4. /\ m.inFlight = limiter.inFlight + 1
          /\ limiter.concurrent # None => limiter.inFlight < limiter.concurrent
          /\ Peek(limiter.rpm, 1, t)
          /\ m.rpm = TryTake(limiter.rpm, 1, t)
      BY <1>0, <1>4, AcquireEffect
    <2>5. SlotInv'
      <3>1. m.inFlight = Cardinality(Open')
        BY <2>3, <2>4 DEF IInv, SlotInv
      <3>2. m.concurrent # None => m.inFlight <= m.concurrent
        BY <1>0, <1>1, <2>4 DEF LimiterState
      <3> QED
        BY <1>0, <3>1, <3>2 DEF SlotInv
    <2>6. RpmInv'
      <3>1. CASE limiter.rpm = None
        BY <1>0, <2>4, <3>1 DEF RpmInv, TryTake
      <3>2. CASE limiter.rpm # None
        <4>1. limiter.rpm \in Bucket /\ Paid(limiter.rpm, Cardinality(Spent), now)
          BY <1>0, <3>2 DEF IInv, RpmInv, LimiterState
        <4>2. Paid(TryTake(limiter.rpm, 1, t), Cardinality(Spent) + 1, now)
          BY <1>0, <2>4, <3>2, <4>1, CountsAreNat, TakePaid
        <4> QED
          BY <1>0, <2>3, <2>4, <4>2 DEF RpmInv
      <3> QED
        BY <3>1, <3>2
    <2> QED
      BY <1>2, <2>5, <2>6 DEF IInv
  <1>5. CASE ~Admits(limiter, e, t)
    <2>1. pc' = [pc EXCEPT ![c] = "refused"] /\ pc[c] = "started"
      BY <1>5 DEF Acquire
    <2>2. Open' = Open /\ Spent' = Spent
      BY <2>1, SameCounts DEF IInv, Stages
    <2>3. m.inFlight = limiter.inFlight /\ m.rpm \in {limiter.rpm, Refilled(limiter.rpm, t)}
      BY <1>0, <1>5, AcquireEffect
    <2>4. SlotInv'
      BY <1>0, <1>1, <2>2, <2>3 DEF IInv, SlotInv
    <2>5. RpmInv'
      <3>1. CASE limiter.rpm = None
        BY <1>0, <2>3, <3>1 DEF RpmInv, Refilled
      <3>2. CASE limiter.rpm # None
        <4>1. limiter.rpm \in Bucket /\ Paid(limiter.rpm, Cardinality(Spent), now)
          BY <1>0, <3>2 DEF IInv, RpmInv, LimiterState
        <4>2. Paid(Refill(limiter.rpm, t), Cardinality(Spent), now)
          BY <1>0, <4>1, CountsAreNat, RefillPaid
        <4>3. Refilled(limiter.rpm, t) = Refill(limiter.rpm, t)
          BY <3>2 DEF Refilled
        <4> QED
          BY <1>0, <2>2, <2>3, <4>1, <4>2, <4>3 DEF RpmInv
      <3> QED
        BY <3>1, <3>2
    <2> QED
      BY <1>2, <2>4, <2>5 DEF IInv
  <1> QED
    BY <1>4, <1>5

\* A call that leaves Open frees the slot it counted for.
LEMMA SlotFreed ==
    ASSUME IInv, NEW c \in Open, Open' = Open \ {c}
    PROVE  /\ Cardinality(Open') = Cardinality(Open) - 1
           /\ Less(limiter.inFlight, 1) = Cardinality(Open')
           /\ Less(limiter.inFlight, 1) \in Nat /\ Less(limiter.inFlight, 1) <= limiter.inFlight
  <1>1. Cardinality(Open \ {c}) = Cardinality(Open) - 1
    BY CountsAreNat, FS_RemoveElement
  <1>2. Cardinality(Open) # 0
    BY CountsAreNat, FS_EmptySet
  <1>3. limiter.inFlight = Cardinality(Open) /\ Cardinality(Open) \in Nat
    BY CountsAreNat DEF IInv, SlotInv
  <1> QED
    BY <1>1, <1>2, <1>3 DEF Less

LEMMA ReconcileKeeps ==
    ASSUME IInv, NEW c \in Calls, NEW usage \in Usages, Reconcile(c, usage)
    PROVE  IInv'
  <1> DEFINE m == AfterReconcile(limiter, lease[c], usage, at[c])
  <1>0. /\ limiter \in LimiterState /\ lease[c] \in Lease /\ usage \in Lease /\ at[c] \in Nat
        /\ limiter' = m /\ now' = now
    BY CallsAssumption DEF IInv, TypeOK, Reconcile
  <1>1. /\ m \in LimiterState /\ m.concurrent = limiter.concurrent
        /\ m.inFlight = Less(limiter.inFlight, 1) /\ m.rpm = limiter.rpm
    BY <1>0, ReconcileEffect
  <1>2. TypeOK'
    <2>1. usage.usd \in Nat /\ Less(usage.usd, lease[c].usd) \in Nat
      BY <1>0, LessNat DEF Lease
    <2>2. /\ settled' \in [Days -> Nat] /\ excess' \in [Days -> Nat]
      <3>1. settled \in [Days -> Nat] /\ excess \in [Days -> Nat]
        BY DEF IInv, TypeOK
      <3>2. /\ settled' = [settled EXCEPT ![Day(at[c])] = settled[Day(at[c])] + usage.usd]
            /\ excess' = [excess EXCEPT ![Day(at[c])] =
                              excess[Day(at[c])] + Less(usage.usd, lease[c].usd)]
        BY DEF Reconcile
      <3> QED
        BY <2>1, <3>1, <3>2, AddAt
    <2>3. pc' \in [Calls -> Stages]
      BY DEF IInv, TypeOK, Reconcile, Stages
    <2>4. crossed' \in BOOLEAN
      BY DEF Reconcile
    <2> QED
      BY <1>0, <1>1, <2>2, <2>3, <2>4 DEF IInv, TypeOK, Reconcile
  <1>3. ClockInv'
    BY <1>0 DEF IInv, ClockInv, Reconcile
  <1>4. c \in Open /\ c \in Spent
    BY DEF Reconcile, Open, Spent
  <1>5. pc' = [pc EXCEPT ![c] = "answered"]
    BY DEF Reconcile
  <1>6. Open' = Open \ {c} /\ Spent' = Spent
    <2>1. Open' = Open \ {c} /\ Spent' = Spent \cup {c}
      BY <1>5, StageChange DEF IInv, Stages
    <2> QED
      BY <1>4, <2>1
  <1>7. SlotInv'
    BY <1>0, <1>1, <1>4, <1>6, SlotFreed DEF IInv, SlotInv, LimiterState
  <1>8. RpmInv'
    BY <1>0, <1>1, <1>6 DEF IInv, RpmInv
  <1> QED
    BY <1>2, <1>3, <1>7, <1>8 DEF IInv

LEMMA ReleaseKeeps ==
    ASSUME IInv, NEW c \in Calls, Release(c)
    PROVE  IInv'
  <1> DEFINE m == AfterRelease(limiter, lease[c], at[c])
  <1>0. /\ limiter \in LimiterState /\ lease[c] \in Lease /\ at[c] \in Nat /\ now \in Nat
        /\ limiter' = m /\ now' = now
    BY DEF IInv, TypeOK, Release
  <1>1. /\ m \in LimiterState /\ m.concurrent = limiter.concurrent
        /\ m.inFlight = Less(limiter.inFlight, 1) /\ m.rpm = Refund(limiter.rpm, 1)
    BY <1>0, ReleaseEffect
  <1>2. TypeOK' /\ ClockInv'
    BY <1>0, <1>1 DEF IInv, TypeOK, ClockInv, Release, Stages
  <1>3. c \in Open /\ c \in Spent
    BY DEF Release, Open, Spent
  <1>4. pc' = [pc EXCEPT ![c] = "released"]
    BY DEF Release
  <1>5. Open' = Open \ {c} /\ Spent' = Spent \ {c}
    BY <1>4, StageChange DEF IInv, Stages
  <1>6. SlotInv'
    BY <1>0, <1>1, <1>3, <1>5, SlotFreed DEF IInv, SlotInv, LimiterState
  <1>7. RpmInv'
    <2>1. CASE limiter.rpm = None
      BY <1>0, <1>1, <2>1 DEF RpmInv, Refund
    <2>2. CASE limiter.rpm # None
      <3>1. /\ Cardinality(Spent') = Cardinality(Spent) - 1
            /\ Cardinality(Spent) \in Nat /\ Cardinality(Spent) # 0
        BY <1>3, <1>5, CountsAreNat, FS_RemoveElement, FS_EmptySet
      <3>2. limiter.rpm \in Bucket /\ Paid(limiter.rpm, Cardinality(Spent), now)
        BY <1>0, <2>2 DEF IInv, RpmInv, LimiterState
      <3>3. Cardinality(Spent') \in Nat /\ Cardinality(Spent') + 1 = Cardinality(Spent)
        BY <3>1
      <3>4. Paid(Refund(limiter.rpm, 1), Cardinality(Spent'), now)
        BY <1>0, <2>2, <3>2, <3>3, RefundPaid
      <3> QED
        BY <1>0, <1>1, <3>4 DEF RpmInv
    <2> QED
      BY <2>1, <2>2
  <1> QED
    BY <1>2, <1>6, <1>7 DEF IInv

LEMMA IInvAlways == Safety => []IInv
  <1>1. Init => IInv
    BY IInvInit
  <1>2. IInv /\ [Next]_vars => IInv'
    <2> SUFFICES ASSUME IInv, [Next]_vars PROVE IInv'
      OBVIOUS
    <2>1. CASE Next
      BY <2>1, StartKeeps, AcquireKeeps, SendKeeps, ReconcileKeeps, ReleaseKeeps, TickKeeps DEF Next
    <2>2. CASE UNCHANGED vars
      <3>1. Open' = Open /\ Spent' = Spent
        BY <2>2 DEF vars, Open, Spent
      <3> QED
        BY <2>2, <3>1 DEF vars, IInv, TypeOK, ClockInv, SlotInv, RpmInv
    <2> QED
      BY <2>1, <2>2
  <1> QED
    BY <1>1, <1>2, PTL DEF Safety

-----------------------------------------------------------------------------
(* The theorems                                                            *)

\* Every state of the calls and the limiter has its type; in particular no
\* bucket, spend or slot count goes below zero.
THEOREM TypeCorrect == Safety => []TypeOK
  <1>1. IInv => TypeOK
    BY DEF IInv
  <1> QED
    BY <1>1, IInvAlways, PTL

\* For any number of calls and any limits, in_flight is the number of leases not
\* given back and stays within the ceiling.
THEOREM SlotsExact == Safety => []SlotsAreLeases
  <1>1. IInv => SlotsAreLeases
    BY DEF IInv, SlotInv, SlotsAreLeases
  <1> QED
    BY <1>1, IInvAlways, PTL

\* For any number of calls, any bucket and any rate, the requests let through
\* and not taken back stay within a full bucket and what has refilled.
THEOREM RpmBounded == Safety => []RpmHolds
  <1>1. IInv => RpmHolds
    <2> SUFFICES ASSUME IInv, limiter.rpm # None
                 PROVE  Cardinality(Spent) <= limiter.rpm.cap + limiter.rpm.rate * now
      BY DEF RpmHolds
    <2> DEFINE b == limiter.rpm
               n == Cardinality(Spent)
    <2>1. b \in Bucket /\ Paid(b, n, now) /\ n \in Nat /\ now \in Nat
      BY CountsAreNat DEF IInv, RpmInv, TypeOK, LimiterState
    <2> HIDE DEF b, n
    <2>2. b.cap \in Nat /\ b.rate \in Nat /\ b.last \in Nat /\ b.tokens \in Nat
      BY <2>1 DEF Bucket
    <2>3. b.last <= now /\ b.tokens + n <= b.cap + b.rate * b.last
      BY <2>1 DEF Paid
    <2>4. b.rate * b.last <= b.rate * now
      <3>1. \E k \in Nat : now = b.last + k
        <4>1. now - b.last \in Nat /\ now = b.last + (now - b.last)
          BY <2>1, <2>2, <2>3
        <4> QED
          BY <4>1
      <3>2. PICK k \in Nat : now = b.last + k
        BY <3>1
      <3>3. b.rate * now = b.rate * b.last + b.rate * k /\ b.rate * k \in Nat /\ b.rate * b.last \in Nat
        BY <2>2, <3>2
      <3> QED
        BY <3>3
    <2>5. b.rate * b.last \in Nat /\ b.rate * now \in Nat
      BY <2>1, <2>2
    <2>6. n <= b.cap + b.rate * now
      BY <2>1, <2>2, <2>3, <2>4, <2>5
    <2> QED
      BY <2>6 DEF b, n
  <1> QED
    BY <1>1, IInvAlways, PTL

-----------------------------------------------------------------------------
(* Adding up reservations.  The sum is a function over sets of calls that  *)
(* takes one call at a time: it exists, and which call is taken first does *)
(* not matter, both shown for a smallest set for which they would fail.    *)

\* The equation by which Sum defines its function: the reservations of a set of calls.
Sums(F, l, S) ==
    [s \in SUBSET S |-> IF s = {} THEN 0
                        ELSE LET x == CHOOSE x \in s : TRUE IN l[x].usd + F[s \ {x}]]

LEMMA SumIsChosen ==
    ASSUME NEW S
    PROVE  Sum(S, LeaseUsd) = (CHOOSE F : F = Sums(F, lease, S))[S]
  BY DEF Sum, MapThenSumSet, MapThenFoldSet, LeaseUsd, Sums

IsSums(F, l, S) == F = Sums(F, l, S)

\* The element the equation takes from a set.
First(s) == CHOOSE x \in s : TRUE

LEMMA SumsUnfold ==
    ASSUME NEW l, NEW S, NEW F, IsSums(F, l, S)
    PROVE  \A s \in SUBSET S : /\ s = {} => F[s] = 0
                               /\ s # {} => F[s] = l[First(s)].usd + F[s \ {First(s)}]
  BY DEF IsSums, Sums, First

\* An induction over finite sets, by their sizes.
LEMMA SmallestSet ==
    ASSUME NEW B, B # {}, \A s \in B : IsFiniteSet(s)
    PROVE  \E s \in B : \A r \in B : Cardinality(s) <= Cardinality(r)
  <1> DEFINE K == {Cardinality(s) : s \in B}
  <1>1. K \subseteq Nat /\ K # {}
    BY FS_CardinalityType
  <1>2. PICK k \in K : \A y \in K : k <= y
    BY <1>1, LeastOfSome
  <1> QED
    BY <1>2

LEMMA Without ==
    ASSUME NEW s, IsFiniteSet(s), NEW x \in s
    PROVE  /\ IsFiniteSet(s \ {x})
           /\ Cardinality(s \ {x}) = Cardinality(s) - 1
           /\ Cardinality(s) \in Nat /\ Cardinality(s) # 0 /\ Cardinality(s \ {x}) \in Nat
  <1>1. IsFiniteSet(s \ {x}) /\ Cardinality(s \ {x}) = Cardinality(s) - 1
    BY FS_RemoveElement
  <1>2. Cardinality(s) \in Nat /\ Cardinality(s \ {x}) \in Nat
    BY <1>1, FS_CardinalityType
  <1> QED
    BY <1>1, <1>2

\* The equation has a solution: from one for the sets of fewer than k elements, one
\* for those of k.
LEMMA SumsExist ==
    ASSUME NEW l, NEW S, IsFiniteSet(S)
    PROVE  \E F : IsSums(F, l, S)
  <1> DEFINE Lev(k) == {s \in SUBSET S : Cardinality(s) <= k}
             Body(F, s) == IF s = {} THEN 0 ELSE l[First(s)].usd + F[s \ {First(s)}]
             Of(F, k) == F = [s \in Lev(k) |-> Body(F, s)]
             C == {k \in Nat : ~ \E F : Of(F, k)}
  <1>1. \A s \in SUBSET S : IsFiniteSet(s) /\ Cardinality(s) \in Nat
    BY FS_Subset, FS_CardinalityType
  <1>2. \A s \in SUBSET S : s # {} => /\ s \ {First(s)} \in SUBSET S
                                      /\ Cardinality(s \ {First(s)}) = Cardinality(s) - 1
    <2> TAKE s \in SUBSET S
    <2> HAVE s # {}
    <2>1. First(s) \in s
      BY DEF First
    <2> QED
      BY <1>1, <2>1, Without
  <1>3. C = {}
    <2> SUFFICES ASSUME C # {} PROVE FALSE
      OBVIOUS
    <2>1. PICK k \in C : \A y \in C : k <= y
      <3>1. C \subseteq Nat
        OBVIOUS
      <3> HIDE DEF C
      <3> QED
        BY <3>1, LeastOfSome
    <2>2. k \in Nat /\ ~ \E F : Of(F, k)
      OBVIOUS
    <2>3. \E F : \A s \in SUBSET S : Cardinality(s) < k => F[s] = Body(F, s)
      <3>1. CASE k = 0
        <4>1. \A s \in SUBSET S : ~(Cardinality(s) < k)
          BY <1>1, <3>1
        <4> QED
          BY <4>1
      <3>2. CASE k # 0
        <4>1. k - 1 \in Nat /\ k - 1 \notin C
          <5>1. k - 1 \in Nat /\ ~(k <= k - 1)
            BY <2>2, <3>2
          <5> HIDE DEF C
          <5> QED
            BY <2>1, <5>1
        <4>2. PICK F : Of(F, k - 1)
          BY <4>1
        <4>3. ASSUME NEW s \in SUBSET S, Cardinality(s) < k PROVE F[s] = Body(F, s)
          <5>1. s \in Lev(k - 1)
            BY <1>1, <2>2, <4>3
          <5> HIDE DEF Lev, Body
          <5> QED
            BY <4>2, <5>1
        <4> QED
          BY <4>3
      <3> QED
        BY <3>1, <3>2
    <2>4. PICK F : \A s \in SUBSET S : Cardinality(s) < k => F[s] = Body(F, s)
      BY <2>3
    <2> DEFINE V == [s \in Lev(k) |-> Body(F, s)]
    <2>5. ASSUME NEW s \in Lev(k) PROVE V[s] = Body(V, s)
      <3>1. CASE s = {}
        BY <3>1
      <3>2. CASE s # {}
        <4> DEFINE r == s \ {First(s)}
        <4>1. r \in SUBSET S /\ Cardinality(r) < k /\ Cardinality(r) <= k
          BY <1>1, <1>2, <2>2, <3>2
        <4>2. r \in Lev(k)
          BY <4>1
        <4>3. V[r] = F[r]
          BY <2>4, <4>1, <4>2
        <4>4. V[s] = Body(F, s)
          OBVIOUS
        <4> QED
          BY <3>2, <4>3, <4>4
      <3> QED
        BY <3>1, <3>2
    <2>6. V = [s \in Lev(k) |-> V[s]]
      OBVIOUS
    <2> HIDE DEF V
    <2>7. Of(V, k)
      BY <2>5, <2>6
    <2> QED
      BY <2>2, <2>7
  <1> DEFINE n == Cardinality(S)
  <1>4. n \in Nat
    BY FS_CardinalityType
  <1>5. PICK F : Of(F, n)
    <2> HIDE DEF Of
    <2> QED
      BY <1>3, <1>4
  <1>6. Lev(n) = SUBSET S
    <2>1. \A s \in SUBSET S : Cardinality(s) <= n
      BY FS_Subset
    <2> QED
      BY <2>1
  <1>7. F = [s \in SUBSET S |-> Body(F, s)]
    BY <1>5, <1>6
  <1>8. IsSums(F, l, S)
    BY <1>7, Zenon DEF IsSums, Sums, First
  <1> QED
    BY <1>8

\* Over the sets they share, two solutions agree: which element is taken depends on
\* the set alone.
LEMMA SumsAgree ==
    ASSUME NEW l, NEW S, IsFiniteSet(S), NEW F, IsSums(F, l, S),
           NEW m, NEW T, NEW G, IsSums(G, m, T),
           NEW U \in SUBSET S, U \subseteq T, \A x \in U : l[x].usd = m[x].usd
    PROVE  F[U] = G[U]
  <1>f. \A r \in SUBSET S : /\ r = {} => F[r] = 0
                            /\ r # {} => F[r] = l[First(r)].usd + F[r \ {First(r)}]
    BY SumsUnfold
  <1>g. \A r \in SUBSET T : /\ r = {} => G[r] = 0
                            /\ r # {} => G[r] = m[First(r)].usd + G[r \ {First(r)}]
    BY SumsUnfold
  <1> DEFINE B == {s \in SUBSET U : F[s] # G[s]}
  <1>1. \A s \in SUBSET U : IsFiniteSet(s)
    BY FS_Subset
  <1> SUFFICES ASSUME B # {} PROVE FALSE
    OBVIOUS
  <1>2. PICK s \in B : \A r \in B : Cardinality(s) <= Cardinality(r)
    <2>1. \A s \in B : IsFiniteSet(s)
      BY <1>1
    <2> HIDE DEF B
    <2> QED
      BY <2>1, SmallestSet
  <1>3. s \in SUBSET S /\ s \in SUBSET T /\ s \subseteq U /\ IsFiniteSet(s) /\ F[s] # G[s]
    BY <1>1
  <1>b. \A r \in SUBSET U : r \notin B => F[r] = G[r]
    OBVIOUS
  <1> HIDE DEF B
  <1>4. CASE s = {}
    BY <1>3, <1>4, <1>f, <1>g, Zenon
  <1>5. CASE s # {}
    <2> DEFINE x == First(s)
               r == s \ {x}
    <2>1. x \in s
      BY <1>5 DEF First
    <2>2. /\ F[s] = l[x].usd + F[r] /\ G[s] = m[x].usd + G[r]
      BY <1>3, <1>5, <1>f, <1>g, Zenon
    <2> HIDE DEF x
    <2>3. Cardinality(r) = Cardinality(s) - 1 /\ Cardinality(s) \in Nat /\ Cardinality(r) \in Nat
      BY <1>3, <2>1, Without
    <2>4. r \notin B
      BY <1>2, <2>3
    <2>5. F[r] = G[r] /\ l[x].usd = m[x].usd
      BY <1>3, <1>b, <2>1, <2>4
    <2> QED
      BY <1>3, <2>2, <2>5
  <1> QED
    BY <1>4, <1>5

\* Sums of numbers are numbers, whichever element is taken first.
LEMMA SumsTake ==
    ASSUME NEW l, NEW S, IsFiniteSet(S), NEW F, IsSums(F, l, S), \A x \in S : l[x].usd \in Nat
    PROVE  \A s \in SUBSET S : F[s] \in Nat /\ \A x \in s : F[s] = l[x].usd + F[s \ {x}]
  <1> DEFINE Fine(s) == F[s] \in Nat /\ \A x \in s : F[s] = l[x].usd + F[s \ {x}]
             B == {s \in SUBSET S : ~Fine(s)}
  <1>1. \A s \in SUBSET S : IsFiniteSet(s)
    BY FS_Subset
  <1> SUFFICES ASSUME B # {} PROVE FALSE
    OBVIOUS
  <1>2. PICK s \in B : \A r \in B : Cardinality(s) <= Cardinality(r)
    <2>1. \A s \in B : IsFiniteSet(s)
      BY <1>1
    <2> HIDE DEF B
    <2> QED
      BY <2>1, SmallestSet
  <1>3. s \in SUBSET S /\ IsFiniteSet(s) /\ ~Fine(s)
    BY <1>1
  <1>b. \A r \in SUBSET S : r \notin B => Fine(r)
    OBVIOUS
  <1>f. \A r \in SUBSET S : /\ r = {} => F[r] = 0
                            /\ r # {} => F[r] = l[First(r)].usd + F[r \ {First(r)}]
    BY SumsUnfold
  <1> HIDE DEF B
  <1>4. \A r \in SUBSET s : Cardinality(r) < Cardinality(s) => Fine(r)
    <2> TAKE r \in SUBSET s
    <2> HAVE Cardinality(r) < Cardinality(s)
    <2> HIDE DEF Fine
    <2>1. r \in SUBSET S /\ Cardinality(r) \in Nat /\ Cardinality(s) \in Nat
      BY <1>1, <1>3, FS_CardinalityType
    <2>2. r \notin B
      BY <1>2, <2>1
    <2> QED
      BY <1>b, <2>1, <2>2
  <1>5. CASE s = {}
    <2>1. F[s] = 0
      BY <1>3, <1>5, <1>f, Zenon
    <2> QED
      BY <1>3, <1>5, <2>1
  <1>6. CASE s # {}
    <2> DEFINE y == First(s)
    <2>1. y \in s
      BY <1>6 DEF First
    <2>2. F[s] = l[y].usd + F[s \ {y}]
      BY <1>3, <1>6, <1>f, Zenon
    <2> HIDE DEF y
    <2>3. \A x \in s : /\ IsFiniteSet(s \ {x}) /\ Cardinality(s) \in Nat
                       /\ Cardinality(s \ {x}) = Cardinality(s) - 1
                       /\ s \ {x} \in SUBSET s
      BY <1>3, Without
    <2>4. \A x \in s : Fine(s \ {x})
      <3> HIDE DEF Fine
      <3> QED
        BY <1>4, <2>3
    <2>5. F[s \ {y}] \in Nat /\ l[y].usd \in Nat
      BY <1>3, <2>1, <2>4
    <2>6. ASSUME NEW x \in s PROVE F[s] = l[x].usd + F[s \ {x}]
      <3>1. CASE x = y
        BY <2>2, <3>1
      <3>2. CASE x # y
        <4> DEFINE r == (s \ {x}) \ {y}
        <4>0. y \in s \ {x} /\ x \in s \ {y} /\ (s \ {y}) \ {x} = r
          BY <2>1, <3>2
        <4>1. F[s \ {y}] = l[x].usd + F[r]
          BY <2>1, <2>4, <4>0
        <4>2. F[s \ {x}] = l[y].usd + F[r]
          BY <2>4, <4>0
        <4>3. F[r] \in Nat
          <5>1. IsFiniteSet(s \ {x}) /\ Cardinality(s) \in Nat /\ Cardinality(s \ {x}) = Cardinality(s) - 1
            BY <2>3
          <5>2. Cardinality(r) = Cardinality(s \ {x}) - 1
            BY <4>0, <5>1, Without
          <5>3. r \in SUBSET s /\ Cardinality(r) < Cardinality(s)
            BY <5>1, <5>2
          <5> HIDE DEF r
          <5> QED
            BY <1>4, <5>3
        <4> HIDE DEF r
        <4>4. l[x].usd \in Nat
          BY <1>3
        <4> QED
          BY <2>2, <2>5, <4>1, <4>2, <4>3, <4>4
      <3> QED
        BY <3>1, <3>2
    <2>7. F[s] \in Nat
      BY <2>2, <2>5
    <2> QED
      BY <1>3, <2>6, <2>7
  <1> QED
    BY <1>5, <1>6

\* What Sum says of a finite set of calls.
Total(l, S) == (CHOOSE F : F = Sums(F, l, S))[S]

LEMMA TotalChosen ==
    ASSUME NEW l, NEW S, IsFiniteSet(S)
    PROVE  \E F : IsSums(F, l, S) /\ Total(l, S) = F[S]
  <1> DEFINE F0 == CHOOSE F : F = Sums(F, l, S)
  <1>1. \E F : F = Sums(F, l, S)
    BY SumsExist DEF IsSums
  <1>2. IsSums(F0, l, S)
    BY <1>1, Zenon DEF IsSums
  <1>3. Total(l, S) = F0[S]
    BY DEF Total
  <1> QED
    BY <1>2, <1>3

\* Nothing sums to nothing; sums are numbers; a call's reservation is in the sum of
\* those it is among; and only the calls summed matter.
LEMMA TotalEmpty == \A l : Total(l, {}) = 0
  <1> TAKE l
  <1>1. IsFiniteSet({})
    BY FS_EmptySet
  <1>2. PICK F : IsSums(F, l, {}) /\ Total(l, {}) = F[{}]
    BY <1>1, TotalChosen
  <1>3. {} \in SUBSET {}
    OBVIOUS
  <1> QED
    BY <1>2, <1>3, SumsUnfold

LEMMA TotalSame ==
    ASSUME NEW l, NEW m, NEW S, IsFiniteSet(S), \A x \in S : l[x].usd = m[x].usd
    PROVE  Total(l, S) = Total(m, S)
  <1>1. PICK F : IsSums(F, l, S) /\ Total(l, S) = F[S]
    BY TotalChosen
  <1>2. PICK G : IsSums(G, m, S) /\ Total(m, S) = G[S]
    BY TotalChosen
  <1>3. F[S] = G[S]
    BY <1>1, <1>2, SumsAgree
  <1> QED
    BY <1>1, <1>2, <1>3

LEMMA TotalTakes ==
    ASSUME NEW l, NEW S, IsFiniteSet(S), \A x \in S : l[x].usd \in Nat
    PROVE  /\ Total(l, S) \in Nat
           /\ \A x \in S : Total(l, S) = l[x].usd + Total(l, S \ {x})
  <1>1. PICK F : IsSums(F, l, S) /\ Total(l, S) = F[S]
    BY TotalChosen
  <1>2. F[S] \in Nat /\ \A x \in S : F[S] = l[x].usd + F[S \ {x}]
    <2>1. \A s \in SUBSET S : F[s] \in Nat /\ \A x \in s : F[s] = l[x].usd + F[s \ {x}]
      BY <1>1, SumsTake
    <2>2. S \in SUBSET S
      OBVIOUS
    <2> QED
      BY <2>1, <2>2, Zenon
  <1>3. ASSUME NEW x \in S PROVE F[S \ {x}] = Total(l, S \ {x})
    <2> DEFINE T == S \ {x}
    <2>1. IsFiniteSet(T) /\ T \in SUBSET S /\ T \subseteq T
      BY FS_Subset
    <2> HIDE DEF T
    <2>2. PICK G : IsSums(G, l, T) /\ Total(l, T) = G[T]
      BY <2>1, TotalChosen
    <2>3. F[T] = G[T]
      BY <1>1, <2>1, <2>2, SumsAgree
    <2> QED
      BY <2>2, <2>3 DEF T
  <1> QED
    BY <1>1, <1>2, <1>3

-----------------------------------------------------------------------------
(* The day's bill                                                          *)

LEMMA DayMonotone ==
    ASSUME NEW s \in Nat, NEW t \in Nat, s <= t
    PROVE  Day(s) \in Nat /\ Day(t) \in Nat /\ Day(s) <= Day(t)
  <1>1. Day(s) \in Nat /\ Day(t) \in Nat
    BY DayNat
  <1>2. DayLength \in Nat /\ DayLength > 0
    BY LimiterAssumption
  <1>3. Day(s) <= Day(t)
    BY <1>2 DEF Day
  <1> QED
    BY <1>1, <1>3

\* The clock a limiter is used at decides its day; a new day starts with no bill.
LEMMA RollDayBill ==
    ASSUME NEW l \in LimiterState, NEW t \in Nat
    PROVE  /\ RollDay(l, t).day = Day(t) /\ RollDay(l, t).dailyUsd = l.dailyUsd
           /\ RollDay(l, t).spent = IF Day(t) = l.day THEN l.spent ELSE 0
  <1>1. CASE Day(t) = l.day
    BY <1>1 DEF RollDay
  <1>2. CASE Day(t) # l.day
    <2> DEFINE d == Day(t)
               fresh == IF l.rpd = None THEN None ELSE NewBucket(l.rpd.cap, l.rpd.rate, t)
               m == [l EXCEPT !.day = d, !.spent = 0, !.rpd = fresh]
    <2>1. RollDay(l, t) = m
      BY <1>2 DEF RollDay
    <2> HIDE DEF d, fresh
    <2>2. m.day = d /\ m.spent = 0 /\ m.dailyUsd = l.dailyUsd
      BY DEF LimiterState
    <2> QED
      BY <1>2, <2>1, <2>2 DEF d
  <1> QED
    BY <1>1, <1>2

\* What acquire, reconcile and release do to the bill, after the day is rolled.
LEMMA AcquireBill ==
    ASSUME NEW l \in LimiterState, NEW e \in Lease, NEW t \in Nat, NEW r, r = RollDay(l, t)
    PROVE  LET m == AfterAcquire(l, e, t)
           IN /\ m.day = r.day /\ m.dailyUsd = r.dailyUsd
              /\ Admits(l, e, t) => /\ m.spent = r.spent + e.usd
                                    /\ r.dailyUsd # None => r.spent + e.usd <= r.dailyUsd
              /\ ~Admits(l, e, t) => m.spent = r.spent
  <1> DEFINE why == Refusal(r, e, t)
             m == AfterAcquire(l, e, t)
  <1>0. r \in LimiterState
    BY RollDayState
  <1>1. /\ Admits(l, e, t) <=> why = "admitted"
        /\ m = IF why = "admitted" THEN Committed(r, e, t) ELSE Peeked(r, why, t)
    BY DEF Admits, AfterAcquire
  <1>2. why = "admitted" /\ r.dailyUsd # None => ~(r.spent + e.usd > r.dailyUsd)
    BY DEF Refusal
  <1>3. r.dailyUsd # None => r.dailyUsd \in Nat
    BY <1>0 DEF LimiterState
  <1>4. r.spent \in Nat /\ e.usd \in Nat
    BY <1>0 DEF LimiterState, Lease
  <1> HIDE DEF why
  <1>5. /\ Committed(r, e, t).day = r.day /\ Committed(r, e, t).dailyUsd = r.dailyUsd
        /\ Committed(r, e, t).spent = r.spent + e.usd
    <2> DEFINE rpm == TryTake(r.rpm, 1, t)
               tpm == TryTake(r.tpm, e.tokens, t)
               rpd == TryTake(r.rpd, 1, t)
    <2>1. Committed(r, e, t) = [r EXCEPT !.rpm = rpm, !.tpm = tpm, !.rpd = rpd,
                                         !.spent = r.spent + e.usd, !.inFlight = r.inFlight + 1]
      BY <1>0 DEF Committed, LimiterState
    <2> HIDE DEF rpm, tpm, rpd
    <2> QED
      BY <1>0, <2>1 DEF LimiterState
  <1>6. /\ Peeked(r, why, t).day = r.day /\ Peeked(r, why, t).dailyUsd = r.dailyUsd
        /\ Peeked(r, why, t).spent = r.spent
    <2> DEFINE rpm == IF why = "Concurrency" THEN r.rpm ELSE Refilled(r.rpm, t)
               tpm == IF why \in {"Concurrency", "RequestsPerMinute"} THEN r.tpm
                      ELSE Refilled(r.tpm, t)
               rpd == IF why \in {"Concurrency", "RequestsPerMinute", "TokensPerMinute"} THEN r.rpd
                      ELSE Refilled(r.rpd, t)
    <2>1. Peeked(r, why, t) = [r EXCEPT !.rpm = rpm, !.tpm = tpm, !.rpd = rpd]
      BY <1>0 DEF Peeked, LimiterState
    <2> HIDE DEF rpm, tpm, rpd
    <2> QED
      BY <1>0, <2>1 DEF LimiterState
  <1> HIDE DEF m
  <1>7. CASE why = "admitted"
    <2>1. m = Committed(r, e, t) /\ Admits(l, e, t)
      BY <1>1, <1>7
    <2>2. r.dailyUsd # None => r.spent + e.usd <= r.dailyUsd
      BY <1>2, <1>3, <1>4, <1>7
    <2> QED
      BY <1>5, <2>1, <2>2 DEF m
  <1>8. CASE why # "admitted"
    BY <1>1, <1>6, <1>8 DEF m
  <1> QED
    BY <1>7, <1>8

LEMMA ReconcileBill ==
    ASSUME NEW l \in LimiterState, NEW e \in Lease, NEW u \in Lease, NEW t \in Nat,
           NEW r, r = RollDay(l, t)
    PROVE  LET m == AfterReconcile(l, e, u, t)
           IN /\ m.day = r.day /\ m.dailyUsd = r.dailyUsd
              /\ m.spent = Less(r.spent + u.usd, e.usd)
  <1> DEFINE tpm == IF u.tokens < e.tokens THEN Refund(r.tpm, e.tokens - u.tokens)
                    ELSE ConsumeExtra(r.tpm, u.tokens - e.tokens)
  <1>0. r \in LimiterState
    BY RollDayState
  <1>1. AfterReconcile(l, e, u, t) =
            [r EXCEPT !.tpm = tpm, !.spent = Less(r.spent + u.usd, e.usd),
                      !.inFlight = Less(r.inFlight, 1)]
    BY <1>0 DEF AfterReconcile, LimiterState
  <1> HIDE DEF tpm
  <1> QED
    BY <1>0, <1>1 DEF LimiterState

LEMMA ReleaseBill ==
    ASSUME NEW l \in LimiterState, NEW e \in Lease, NEW t \in Nat, NEW r, r = RollDay(l, t)
    PROVE  LET m == AfterRelease(l, e, t)
           IN /\ m.day = r.day /\ m.dailyUsd = r.dailyUsd /\ m.spent = Less(r.spent, e.usd)
  <1> DEFINE rpm == Refund(r.rpm, 1)
             tpm == Refund(r.tpm, e.tokens)
             rpd == Refund(r.rpd, 1)
  <1>0. r \in LimiterState
    BY RollDayState
  <1>1. AfterRelease(l, e, t) =
            [r EXCEPT !.tpm = tpm, !.rpm = rpm, !.rpd = rpd, !.spent = Less(r.spent, e.usd),
                      !.inFlight = Less(r.inFlight, 1)]
    BY <1>0 DEF AfterRelease, LimiterState
  <1> HIDE DEF rpm, tpm, rpd
  <1> QED
    BY <1>0, <1>1 DEF LimiterState

\* The account the limiter keeps, which BillIsExact does not say in full: no call is
\* open from a day to come, such a day has cost nothing, and what is reserved is
\* within the ceiling too.
Account(l) ==
    /\ \A x \in Open : Day(at[x]) <= l.day
    /\ \A d \in Days : d > l.day => settled[d] = 0
    /\ l.spent = settled[l.day] + Total(lease, OpenOn(l.day))
    /\ l.dailyUsd # None => /\ l.spent <= l.dailyUsd + excess[l.day]
                            /\ \A d \in Days : settled[d] <= l.dailyUsd + excess[d]

LEMMA SameAccount ==
    ASSUME NEW l, NEW m, Account(l),
           m.day = l.day, m.spent = l.spent, m.dailyUsd = l.dailyUsd
    PROVE  Account(m)
  <1>1. OpenOn(m.day) = OpenOn(l.day) /\ settled[m.day] = settled[l.day] /\ excess[m.day] = excess[l.day]
    OBVIOUS
  <1> QED
    BY <1>1 DEF Account

BillInv ==
    /\ now <= MaxNow /\ limiter.day \in Days
    /\ ~crossed => Account(limiter)

LEMMA DaysNat == Days \subseteq Nat
  <1>1. Day(MaxNow) \in Nat
    BY DayNat, CallsAssumption
  <1> QED
    BY <1>1 DEF Days

\* A reading of the clock is of a day counted.
LEMMA ReadingInDays ==
    ASSUME IInv, BillInv, NEW c \in Calls
    PROVE  Day(at[c]) \in Days
  <1>1. at[c] \in Nat /\ MaxNow \in Nat /\ at[c] <= MaxNow
    BY CallsAssumption DEF IInv, TypeOK, ClockInv, BillInv
  <1>2. Day(at[c]) \in Nat /\ Day(MaxNow) \in Nat /\ Day(at[c]) <= Day(MaxNow)
    BY <1>1, DayMonotone
  <1> QED
    BY <1>2 DEF Days

\* Reservations of the open calls of a day add up.
LEMMA OpenAdds ==
    ASSUME IInv, NEW d
    PROVE  /\ IsFiniteSet(OpenOn(d)) /\ OpenOn(d) \subseteq Open /\ Open \subseteq Calls
           /\ \A x \in Calls : lease[x].usd \in Nat
           /\ Total(lease, OpenOn(d)) \in Nat
           /\ \A x \in OpenOn(d) :
                 Total(lease, OpenOn(d)) = lease[x].usd + Total(lease, OpenOn(d) \ {x})
  <1>1. OpenOn(d) \subseteq Open /\ Open \subseteq Calls
    BY DEF OpenOn, Open
  <1>2. IsFiniteSet(OpenOn(d))
    BY <1>1, CountsAreNat, FS_Subset
  <1>3. \A x \in Calls : lease[x].usd \in Nat
    BY DEF IInv, TypeOK, Lease
  <1>4. \A x \in OpenOn(d) : lease[x].usd \in Nat
    BY <1>1, <1>3
  <1> QED
    BY <1>1, <1>2, <1>3, <1>4, TotalTakes

\* Rolling the day forward keeps the account: the day begun has no open call and has
\* cost nothing.
LEMMA AccountRolls ==
    ASSUME IInv, BillInv, Account(limiter), NEW c \in Calls, ~Stale(c),
           NEW r, r = RollDay(limiter, at[c])
    PROVE  Account(r) /\ r \in LimiterState /\ r.day = Day(at[c]) /\ r.day \in Days
  <1> DEFINE d == Day(at[c])
  <1>0. limiter \in LimiterState /\ at[c] \in Nat /\ d \in Days /\ limiter.day \in Nat
    BY ReadingInDays DEF IInv, TypeOK, LimiterState
  <1>1. r \in LimiterState
    BY <1>0, RollDayState
  <1>2. r.day = d /\ r.dailyUsd = limiter.dailyUsd
        /\ r.spent = IF d = limiter.day THEN limiter.spent ELSE 0
    BY <1>0, RollDayBill
  <1>3. d \in Nat /\ d >= limiter.day
    <2>1. d \in Nat /\ ~(d < limiter.day)
      BY <1>0, DayNat DEF Stale
    <2> HIDE DEF d
    <2> QED
      BY <1>0, <2>1
  <1> HIDE DEF d
  <1>4. CASE d = limiter.day
    <2>1. r.day = limiter.day /\ r.dailyUsd = limiter.dailyUsd /\ r.spent = limiter.spent
      BY <1>2, <1>4
    <2>2. Account(r)
      BY <2>1, SameAccount
    <2> QED
      BY <1>0, <1>1, <1>2, <2>2 DEF d
  <1>5. CASE d # limiter.day
    <2>1. d > limiter.day
      BY <1>0, <1>3, <1>5
    <2>2. \A x \in Open : Day(at[x]) \in Nat /\ Day(at[x]) <= limiter.day
      BY DayNat DEF Account, IInv, TypeOK, Open
    <2>3. OpenOn(d) = {}
      BY <1>0, <2>1, <2>2 DEF OpenOn
    <2>4. Total(lease, OpenOn(d)) = 0
      BY <2>3, TotalEmpty
    <2>5. \A x \in Days : x > limiter.day => settled[x] = 0
      BY DEF Account
    <2>6. settled[d] = 0 /\ excess[d] \in Nat
      BY <1>0, <2>1, <2>5 DEF IInv, TypeOK
    <2>7. \A x \in Open : Day(at[x]) <= d
      BY <1>0, <1>3, <2>1, <2>2
    <2>8. \A x \in Days : x > d => settled[x] = 0
      BY <1>0, <1>3, <2>1, <2>5, DaysNat
    <2>9. limiter.dailyUsd # None =>
              /\ limiter.dailyUsd \in Nat
              /\ \A x \in Days : settled[x] <= limiter.dailyUsd + excess[x]
      BY <1>0 DEF Account, LimiterState
    <2>a. r.spent = settled[r.day] + Total(lease, OpenOn(r.day))
      BY <1>2, <1>5, <2>4, <2>6
    <2>b. ASSUME r.dailyUsd # None
          PROVE  /\ r.spent <= r.dailyUsd + excess[r.day]
                 /\ \A x \in Days : settled[x] <= r.dailyUsd + excess[x]
      <3>1. /\ r.dailyUsd \in Nat
            /\ \A x \in Days : settled[x] <= r.dailyUsd + excess[x]
        BY <1>2, <2>9, <2>b
      <3>2. r.spent = 0 /\ excess[r.day] \in Nat
        BY <1>2, <1>5, <2>6
      <3> QED
        BY <3>1, <3>2
    <2>c. /\ \A x \in Open : Day(at[x]) <= r.day
          /\ \A x \in Days : x > r.day => settled[x] = 0
      BY <1>2, <2>7, <2>8
    <2>d. Account(r)
      BY <2>a, <2>b, <2>c DEF Account
    <2> QED
      BY <1>0, <1>1, <1>2, <2>d DEF d
  <1> QED
    BY <1>0, <1>1, <1>2, <1>4, <1>5

\* A call that is settled leaves its reservation and puts what it cost on the bill of
\* its own day, which is the limiter's.
LEMMA CallCloses ==
    ASSUME IInv, BillInv, ~crossed, NEW c \in Open, ~Stale(c), NEW r, r = RollDay(limiter, at[c]),
           NEW paid \in Nat,
           Open' = Open \ {c}, at' = at, lease' = lease,
           limiter'.day = r.day, limiter'.dailyUsd = r.dailyUsd,
           limiter'.spent = Less(r.spent + paid, lease[c].usd),
           settled' = [settled EXCEPT ![Day(at[c])] = settled[Day(at[c])] + paid],
           excess' = [excess EXCEPT ![Day(at[c])] =
                          excess[Day(at[c])] + Less(paid, lease[c].usd)]
    PROVE  limiter'.day \in Days /\ Account(limiter)'
  <1> DEFINE d == Day(at[c])
             e == lease[c].usd
             S == OpenOn(d)
             k == Total(lease, S \ {c})
             over == Less(paid, e)
  <1>0. c \in Calls
    BY DEF Open
  <1>1. Account(r) /\ r \in LimiterState /\ r.day = d /\ d \in Days
    BY <1>0, AccountRolls DEF BillInv
  <1>2. c \in S
    BY DEF OpenOn
  <1>3. e \in Nat /\ Total(lease, S) = e + k
    BY <1>0, <1>2, OpenAdds
  <1>4. k \in Nat
    <2>1. IsFiniteSet(S \ {c})
      BY OpenAdds, FS_Subset
    <2>2. \A x \in S \ {c} : lease[x].usd \in Nat
      BY OpenAdds
    <2> QED
      BY <2>1, <2>2, TotalTakes
  <1>5. over \in Nat /\ paid <= e + over
    BY <1>3 DEF Less
  <1>6. /\ settled \in [Days -> Nat] /\ excess \in [Days -> Nat]
        /\ settled' = [settled EXCEPT ![d] = settled[d] + paid]
        /\ excess' = [excess EXCEPT ![d] = excess[d] + over]
    BY DEF IInv, TypeOK
  <1>7. r.spent = settled[d] + e + k /\ limiter'.spent = Less(r.spent + paid, e)
    <2>1. r.spent = settled[d] + Total(lease, S)
      BY <1>1 DEF Account
    <2>2. settled[d] \in Nat
      BY <1>1, <1>6
    <2> QED
      BY <1>3, <1>4, <2>1, <2>2
  <1>8. OpenOn(limiter.day)' = S \ {c}
    <2>1. limiter'.day = d
      BY <1>1
    <2> QED
      BY <2>1 DEF OpenOn
  <1>9. Total(lease, OpenOn(limiter.day))' = k
    BY <1>8
  <1>10. \A x \in Open' : Day(at'[x]) <= limiter'.day
    BY <1>1 DEF Account
  <1>11. \A x \in Days : x > r.day => settled[x] = 0
    BY <1>1 DEF Account
  <1>12. r.dailyUsd # None => /\ r.dailyUsd \in Nat
                              /\ r.spent <= r.dailyUsd + excess[d]
                              /\ \A x \in Days : settled[x] <= r.dailyUsd + excess[x]
    BY <1>1 DEF Account, LimiterState
  <1>13. limiter'.day = d /\ limiter'.dailyUsd = r.dailyUsd /\ r.day = d /\ d \in Days
    BY <1>1
  <1> HIDE DEF d, e, k, over
  <1>14. /\ settled'[d] = settled[d] + paid /\ settled[d] \in Nat
         /\ excess'[d] = excess[d] + over /\ excess[d] \in Nat
         /\ \A x \in Days \ {d} : settled'[x] = settled[x] /\ excess'[x] = excess[x]
    BY <1>6, <1>13
  <1>15. limiter'.spent = settled'[d] + k
    BY <1>3, <1>4, <1>7, <1>14 DEF Less
  <1>16. \A x \in Days : x > d => settled'[x] = 0
    BY <1>11, <1>13, <1>14, DaysNat
  <1>17. ASSUME r.dailyUsd # None
         PROVE  /\ limiter'.spent <= r.dailyUsd + excess'[d]
                /\ \A x \in Days : settled'[x] <= r.dailyUsd + excess'[x]
    <2>1. limiter'.spent <= r.dailyUsd + excess'[d]
      BY <1>3, <1>4, <1>5, <1>7, <1>12, <1>14, <1>15, <1>17
    <2>2. settled'[d] <= r.dailyUsd + excess'[d]
      BY <1>4, <1>5, <1>12, <1>14, <1>15, <1>17, <2>1
    <2>3. \A x \in Days \ {d} : settled'[x] <= r.dailyUsd + excess'[x]
      BY <1>12, <1>14, <1>17
    <2> QED
      BY <2>1, <2>2, <2>3
  <1>18. limiter'.spent = settled'[limiter'.day] + Total(lease, OpenOn(limiter.day))'
    BY <1>9, <1>13, <1>15
  <1> QED
    BY <1>10, <1>13, <1>16, <1>17, <1>18 DEF Account

\* So does a call that is admitted or refused: within the ceiling or not at all.
LEMMA CallOpens ==
    ASSUME IInv, BillInv, ~crossed, NEW c \in Calls, ~Stale(c), Acquire(c)
    PROVE  limiter'.day \in Days /\ Account(limiter)'
  <1> DEFINE d == Day(at[c])
             e == lease[c].usd
             r == RollDay(limiter, at[c])
             S == OpenOn(d)
             S1 == OpenOn(limiter.day)'
  <1>1. Account(r) /\ r \in LimiterState /\ r.day = d /\ d \in Days
    BY AccountRolls DEF BillInv
  <1>2. /\ limiter \in LimiterState /\ lease[c] \in Lease /\ at[c] \in Nat
        /\ settled \in [Days -> Nat] /\ excess \in [Days -> Nat]
        /\ limiter' = AfterAcquire(limiter, lease[c], at[c])
        /\ at' = at /\ lease' = lease /\ settled' = settled /\ excess' = excess
    BY DEF IInv, TypeOK, Acquire
  <1>3. /\ limiter'.day = d /\ limiter'.dailyUsd = r.dailyUsd
        /\ Admits(limiter, lease[c], at[c]) =>
               /\ limiter'.spent = r.spent + e
               /\ r.dailyUsd # None => r.spent + e <= r.dailyUsd
        /\ ~Admits(limiter, lease[c], at[c]) => limiter'.spent = r.spent
    BY <1>1, <1>2, AcquireBill
  <1>4. /\ r.spent = settled[d] + Total(lease, S)
        /\ \A x \in Open : Day(at[x]) <= d
        /\ \A x \in Days : x > d => settled[x] = 0
        /\ r.dailyUsd # None => /\ r.dailyUsd \in Nat
                                /\ r.spent <= r.dailyUsd + excess[d]
                                /\ \A x \in Days : settled[x] <= r.dailyUsd + excess[x]
    BY <1>1 DEF Account, LimiterState
  <1>5. /\ settled[d] \in Nat /\ excess[d] \in Nat /\ e \in Nat /\ Total(lease, S) \in Nat
        /\ d \in Nat /\ Day(at[c]) <= d
    <2>1. e \in Nat /\ d \in Nat
      BY <1>2, DayNat DEF Lease
    <2> QED
      BY <1>1, <1>2, <2>1, OpenAdds
  <1>6. c \notin Open /\ c \notin S
    BY DEF Acquire, Open, OpenOn
  <1>7. CASE Admits(limiter, lease[c], at[c])
    <2>1. pc' = [pc EXCEPT ![c] = "sending"]
      BY <1>7 DEF Acquire
    <2>2. Open' = Open \cup {c}
      BY <2>1, StageChange DEF IInv, Stages
    <2>3. S1 = S \cup {c}
      BY <1>2, <1>3, <2>2 DEF OpenOn
    <2>4. Total(lease', S1) = e + Total(lease, S)
      <3>1. IsFiniteSet(S \cup {c})
        BY OpenAdds, FS_AddElement
      <3>2. \A x \in S \cup {c} : lease[x].usd \in Nat
        BY OpenAdds
      <3>3. Total(lease, S \cup {c}) = e + Total(lease, (S \cup {c}) \ {c})
        BY <3>1, <3>2, TotalTakes
      <3>4. (S \cup {c}) \ {c} = S
        BY <1>6
      <3> QED
        BY <1>2, <2>3, <3>3, <3>4
    <2>5. \A x \in Open' : Day(at'[x]) <= d
      BY <1>2, <1>4, <1>5, <2>2
    <2>6. limiter'.spent = settled[d] + Total(lease', S1)
      BY <1>3, <1>4, <1>5, <1>7, <2>4
    <2>7. r.dailyUsd # None => limiter'.spent <= r.dailyUsd + excess[d]
      BY <1>3, <1>4, <1>5, <1>7
    <2> HIDE DEF d, r, S
    <2> QED
      BY <1>1, <1>2, <1>3, <1>4, <2>5, <2>6, <2>7 DEF Account
  <1>8. CASE ~Admits(limiter, lease[c], at[c])
    <2>1. pc' = [pc EXCEPT ![c] = "refused"] /\ pc[c] = "started"
      BY <1>8 DEF Acquire
    <2>2. Open' = Open
      BY <2>1, SameCounts DEF IInv, Stages
    <2>3. S1 = S
      BY <1>2, <1>3, <2>2 DEF OpenOn
    <2>4. \A x \in Open' : Day(at'[x]) <= d
      BY <1>2, <1>4, <2>2
    <2>5. limiter'.spent = settled[d] + Total(lease', S1)
      BY <1>2, <1>3, <1>4, <1>8, <2>3
    <2>6. r.dailyUsd # None => limiter'.spent <= r.dailyUsd + excess[d]
      BY <1>3, <1>4, <1>8
    <2> HIDE DEF d, r, S
    <2> QED
      BY <1>1, <1>2, <1>3, <1>4, <2>4, <2>5, <2>6 DEF Account
  <1> QED
    BY <1>7, <1>8

LEMMA BillInit == Init => BillInv
  <1> SUFFICES ASSUME Init PROVE BillInv
    OBVIOUS
  <1>1. Day(0) = 0 /\ Day(MaxNow) \in Nat /\ MaxNow \in Nat
    <2>1. DayLength \in Nat /\ DayLength > 0
      BY LimiterAssumption
    <2>2. Day(0) = 0
      BY <2>1 DEF Day
    <2> QED
      BY <2>2, DayNat, CallsAssumption
  <1>2. /\ limiter.day = 0 /\ limiter.spent = 0 /\ limiter \in LimiterState /\ now = 0
        /\ settled = [d \in Days |-> 0] /\ excess = [d \in Days |-> 0]
    BY CallsAssumption DEF Init
  <1>3. 0 \in Days
    BY <1>1 DEF Days
  <1>4. Open = {} /\ OpenOn(limiter.day) = {}
    BY DEF Init, Open, OpenOn
  <1>5. Total(lease, OpenOn(limiter.day)) = 0
    BY <1>4, TotalEmpty
  <1>6. limiter.dailyUsd # None => limiter.dailyUsd \in Nat
    BY <1>2 DEF LimiterState
  <1>7. Account(limiter)
    BY <1>2, <1>3, <1>4, <1>5, <1>6 DEF Account
  <1> QED
    BY <1>1, <1>2, <1>3, <1>7 DEF BillInv

\* A step that leaves the limiter, the bills and the open calls as they are.
LEMMA BillStays ==
    ASSUME IInv, BillInv, limiter' = limiter, settled' = settled, excess' = excess,
           crossed' = crossed, now' <= MaxNow, Open' = Open,
           \A x \in Open : at'[x] = at[x] /\ lease'[x] = lease[x]
    PROVE  BillInv'
  <1> DEFINE S == OpenOn(limiter.day)
             S1 == OpenOn(limiter.day)'
  <1>1. S1 = S
    BY DEF OpenOn
  <1>2. IsFiniteSet(S) /\ \A x \in S : lease[x].usd = lease'[x].usd
    BY OpenAdds
  <1>3. Total(lease, S) = Total(lease', S)
    BY <1>2, TotalSame
  <1>4. Total(lease', S1) = Total(lease, S)
    BY <1>1, <1>3
  <1>5. \A x \in Open' : Day(at'[x]) = Day(at[x])
    OBVIOUS
  <1>6. Account(limiter) => Account(limiter)'
    <2> HIDE DEF S
    <2> SUFFICES ASSUME Account(limiter) PROVE Account(limiter)'
      OBVIOUS
    <2>1. limiter.spent = settled[limiter.day] + Total(lease, S)
      BY DEF Account, S
    <2>2. limiter'.spent = settled'[limiter'.day] + Total(lease', S1)
      BY <1>4, <2>1
    <2>3. \A x \in Open' : Day(at'[x]) <= limiter'.day
      BY <1>5 DEF Account
    <2> QED
      BY <2>2, <2>3 DEF Account
  <1> QED
    BY <1>6 DEF BillInv, Days

LEMMA BillNext == IInv /\ BillInv /\ [Next]_vars => BillInv'
  <1> SUFFICES ASSUME IInv, BillInv, [Next]_vars PROVE BillInv'
    OBVIOUS
  <1>n. now \in Nat /\ now <= MaxNow /\ MaxNow \in Nat
    BY CallsAssumption DEF IInv, TypeOK, BillInv
  <1>1. ASSUME NEW c \in Calls, NEW estimate \in Estimates, Start(c, estimate) PROVE BillInv'
    <2>1. Open' = Open /\ c \notin Open
      BY <1>1, SameCounts DEF IInv, Start, Stages, Open
    <2>2. \A x \in Open : at'[x] = at[x] /\ lease'[x] = lease[x]
      BY <1>1, <2>1 DEF Start, IInv, TypeOK, Open
    <2> QED
      BY <1>1, <1>n, <2>1, <2>2, BillStays DEF Start
  <1>2. ASSUME NEW c \in Calls, Acquire(c) PROVE BillInv'
    <2>1. now' = now /\ (~crossed' => ~crossed /\ ~Stale(c))
      BY <1>2 DEF Acquire
    <2>2. limiter'.day \in Days
      <3>1. limiter'.day = Day(at[c])
        BY <1>2, AcquireBill, RollDayBill DEF Acquire, IInv, TypeOK
      <3> QED
        BY <3>1, ReadingInDays
    <2>3. ~crossed' => Account(limiter)'
      BY <1>2, <2>1, CallOpens
    <2> QED
      BY <1>n, <2>1, <2>2, <2>3 DEF BillInv, Days
  <1>3. ASSUME NEW c \in Calls, Send(c) \/ Abandon(c) PROVE BillInv'
    <2>1. Open' = Open
      BY <1>3, SameCounts DEF IInv, Send, Abandon, Stages
    <2> QED
      BY <1>3, <1>n, <2>1, BillStays DEF Send, Abandon
  <1>4. ASSUME NEW c \in Calls, NEW usage \in Usages, Reconcile(c, usage) PROVE BillInv'
    <2> DEFINE r == RollDay(limiter, at[c])
    <2>0. /\ limiter \in LimiterState /\ lease[c] \in Lease /\ usage \in Lease /\ at[c] \in Nat
          /\ usage.usd \in Nat
      BY CallsAssumption DEF IInv, TypeOK, Lease
    <2>1. /\ now' = now /\ at' = at /\ lease' = lease /\ (~crossed' => ~crossed /\ ~Stale(c))
          /\ c \in Open
          /\ settled' = [settled EXCEPT ![Day(at[c])] = settled[Day(at[c])] + usage.usd]
          /\ excess' = [excess EXCEPT ![Day(at[c])] =
                            excess[Day(at[c])] + Less(usage.usd, lease[c].usd)]
          /\ limiter' = AfterReconcile(limiter, lease[c], usage, at[c])
      BY <1>4 DEF Reconcile, Open
    <2>2. limiter'.day = r.day /\ limiter'.dailyUsd = r.dailyUsd
          /\ limiter'.spent = Less(r.spent + usage.usd, lease[c].usd)
      BY <2>0, <2>1, ReconcileBill
    <2>3. limiter'.day \in Days
      BY <2>0, <2>2, RollDayBill, ReadingInDays
    <2>4. Open' = Open \ {c}
      BY <1>4, StageChange DEF IInv, Reconcile, Stages
    <2> HIDE DEF r
    <2>5. ~crossed' => Account(limiter)'
      BY <2>0, <2>1, <2>2, <2>4, CallCloses DEF r
    <2> QED
      BY <1>n, <2>1, <2>3, <2>5 DEF BillInv, Days
  <1>5. ASSUME NEW c \in Calls, Release(c) PROVE BillInv'
    <2> DEFINE r == RollDay(limiter, at[c])
               d == Day(at[c])
    <2>0. /\ limiter \in LimiterState /\ lease[c] \in Lease /\ at[c] \in Nat /\ r \in LimiterState
          /\ settled \in [Days -> Nat] /\ excess \in [Days -> Nat] /\ d \in Days
      BY RollDayState, ReadingInDays DEF IInv, TypeOK
    <2>1. /\ now' = now /\ at' = at /\ lease' = lease /\ (~crossed' => ~crossed /\ ~Stale(c))
          /\ c \in Open /\ settled' = settled /\ excess' = excess
          /\ limiter' = AfterRelease(limiter, lease[c], at[c])
      BY <1>5 DEF Release, Open
    <2>2. limiter'.day = r.day /\ limiter'.dailyUsd = r.dailyUsd
          /\ limiter'.spent = Less(r.spent, lease[c].usd)
      BY <2>0, <2>1, ReleaseBill
    <2>3. limiter'.day \in Days
      BY <2>0, <2>2, RollDayBill
    <2>4. Open' = Open \ {c}
      BY <1>5, StageChange DEF IInv, Release, Stages
    <2>5. /\ Less(0, lease[c].usd) = 0 /\ r.spent + 0 = r.spent
      BY <2>0 DEF Less, Lease, LimiterState
    <2> HIDE DEF r, d
    <2>6. /\ settled' = [settled EXCEPT ![d] = settled[d] + 0]
          /\ excess' = [excess EXCEPT ![d] = excess[d] + Less(0, lease[c].usd)]
      <3>1. settled[d] + 0 = settled[d] /\ excess[d] + 0 = excess[d]
        BY <2>0
      <3> QED
        BY <2>0, <2>1, <2>5, <3>1
    <2>7. limiter'.spent = Less(r.spent + 0, lease[c].usd)
      BY <2>2, <2>5
    <2>8. ~crossed' => Account(limiter)'
      BY <2>0, <2>1, <2>2, <2>4, <2>6, <2>7, CallCloses DEF r, d
    <2> QED
      BY <1>n, <2>1, <2>3, <2>8 DEF BillInv, Days
  <1>6. CASE Tick
    <2>1. Open' = Open /\ now' <= MaxNow
      BY <1>6, <1>n DEF Tick, Open
    <2> QED
      BY <1>6, <2>1, BillStays DEF Tick
  <1>7. CASE UNCHANGED vars
    <2>1. Open' = Open
      BY <1>7 DEF vars, Open
    <2> QED
      BY <1>7, <1>n, <2>1, BillStays DEF vars
  <1> QED
    BY <1>1, <1>2, <1>3, <1>4, <1>5, <1>6, <1>7 DEF Next

\* For any number of calls, limits and prices: while no call outlives its day the
\* limiter's spent_today_usd is what the day's responses reported and its open leases
\* reserved, and passes daily_budget_usd only by what responses cost beyond them.
THEOREM BillExact == Safety => []BillIsExact
  <1>1. IInv /\ BillInv => BillIsExact
    <2> SUFFICES ASSUME IInv, BillInv, ~crossed
                 PROVE  /\ limiter.spent = settled[limiter.day] + Sum(OpenOn(limiter.day), LeaseUsd)
                        /\ limiter.dailyUsd # None =>
                               \A d \in Days : settled[d] <= limiter.dailyUsd + excess[d]
      BY DEF BillIsExact
    <2>1. Sum(OpenOn(limiter.day), LeaseUsd) = Total(lease, OpenOn(limiter.day))
      BY SumIsChosen DEF Total
    <2> QED
      BY <2>1 DEF BillInv, Account
  <1>2. Safety => []BillInv
    BY BillInit, BillNext, IInvAlways, PTL DEF Safety
  <1> QED
    BY <1>1, <1>2, IInvAlways, PTL

\* "Reaching the ceiling denies everything until the day rolls over" (limits.rs, acquire):
\* once a day's responses have cost daily_budget_usd no call of that day is admitted, for
\* any number of calls, as long as none was worked with a reading from before the
\* limiter's day.  CeilingDeniesForTheDay leaves that condition out, and fails.
THEOREM CeilingDenies ==
    Safety => [][\A c \in Calls :
                    /\ pc[c] = "started" /\ pc'[c] = "sending"
                    /\ limiter.dailyUsd # None
                    /\ ~crossed'
                    => settled[Day(at[c])] < limiter.dailyUsd]_vars
  <1>1. ASSUME IInv, BillInv, [Next]_vars, NEW c \in Calls, pc[c] = "started", pc'[c] = "sending",
               limiter.dailyUsd # None, ~crossed'
        PROVE  settled[Day(at[c])] < limiter.dailyUsd
    <2> DEFINE r == RollDay(limiter, at[c])
    <2>1. Acquire(c)
      <3>1. pc \in [Calls -> Stages] /\ pc' # pc
        BY <1>1 DEF IInv, TypeOK
      <3>2. Next /\ ~Tick
        BY <1>1, <3>1 DEF Tick, vars
      <3>3. PICK d \in Calls : \/ \E estimate \in Estimates : Start(d, estimate)
                               \/ Acquire(d) \/ Send(d)
                               \/ \E usage \in Usages : Reconcile(d, usage)
                               \/ Release(d) \/ Abandon(d)
        BY <3>2 DEF Next
      <3>4. d = c
        BY <1>1, <3>1, <3>3 DEF Start, Acquire, Send, Reconcile, Release, Abandon
      <3> QED
        BY <1>1, <3>1, <3>3, <3>4 DEF Start, Send, Reconcile, Release, Abandon
    <2>2. ~crossed /\ ~Stale(c)
      BY <1>1, <2>1 DEF Acquire
    <2>3. /\ Account(r) /\ r \in LimiterState /\ r.day = Day(at[c])
      BY <1>1, <2>2, AccountRolls DEF BillInv
    <2>4. Admits(limiter, lease[c], at[c])
      <3>1. pc \in [Calls -> Stages]
        BY <1>1 DEF IInv, TypeOK
      <3> QED
        BY <1>1, <2>1, <3>1 DEF Acquire
    <2>5. limiter \in LimiterState /\ at[c] \in Nat
      BY <1>1 DEF IInv, TypeOK
    <2>6. r.dailyUsd = limiter.dailyUsd
      BY <2>5, RollDayBill
    <2>7. ~(r.spent >= r.dailyUsd)
      BY <1>1, <2>4, <2>6 DEF Admits, Refusal
    <2>8. r.spent \in Nat /\ r.dailyUsd \in Nat
      BY <1>1, <2>3, <2>6 DEF LimiterState
    <2>9. r.spent = settled[Day(at[c])] + Total(lease, OpenOn(Day(at[c])))
      BY <2>3 DEF Account
    <2>10. settled[Day(at[c])] \in Nat /\ Total(lease, OpenOn(Day(at[c]))) \in Nat
      BY <1>1, ReadingInDays, OpenAdds DEF IInv, TypeOK
    <2> HIDE DEF r
    <2> QED
      BY <2>6, <2>7, <2>8, <2>9, <2>10
  <1>2. Safety => []BillInv
    BY BillInit, BillNext, IInvAlways, PTL DEF Safety
  <1>3. IInv /\ BillInv /\ [Next]_vars =>
            [\A c \in Calls :
                /\ pc[c] = "started" /\ pc'[c] = "sending"
                /\ limiter.dailyUsd # None
                /\ ~crossed'
                => settled[Day(at[c])] < limiter.dailyUsd]_vars
    BY <1>1
  <1> QED
    BY <1>2, <1>3, IInvAlways, PTL DEF Safety

-----------------------------------------------------------------------------
(* Trash: the inductive invariant, in parts                                *)

\* A deletion that looks for a name, one that has chosen it, one whose record is
\* written, one that holds the file, and one that has moved it.
Looked == {"files", "info", "record", "link", "open", "create", "copy", "unlink", "ok"}
Named == {"record", "link", "open", "create", "copy", "unlink", "ok"}
Recorded == {"link", "open", "create", "copy", "unlink", "ok"}
Holding == {"create", "copy", "unlink", "ok"}
Moved == {"unlink", "ok"}

File == Nat \ {0}

BinTyped ==
    /\ born \in Nat
    /\ home \in [Paths -> File \cup {None}]
    /\ files \in [Bin!Names -> Nat \cup {None}]
    /\ info \in [Bin!Names -> Paths \cup {None}]
    /\ deletePc \in [Deletes -> {"idle", "failed", "dead"} \cup Looked]
    /\ path \in [Deletes -> Paths \cup {None}]
    /\ dest \in [Deletes -> Bin!Names \cup {None}]
    /\ holds \in [Deletes -> File \cup {None}]

\* What a deletion has found out and done, by where it is.
Progress ==
    \A d \in Deletes :
        /\ deletePc[d] \in Looked => path[d] \in Paths
        /\ deletePc[d] \in Named => dest[d] \in Bin!Names
        /\ deletePc[d] \in Recorded => info[dest[d]] # None
        /\ deletePc[d] \in Holding => holds[d] \in File
        /\ deletePc[d] = "copy" => files[dest[d]] = 0
        /\ deletePc[d] \in Moved => files[dest[d]] = holds[d]

\* An unfinished copy is one deletion's.
CopiesApart ==
    \A d, e \in Deletes : deletePc[d] = "copy" /\ deletePc[e] = "copy" /\ dest[d] = dest[e] => d = e

Kept ==
    \A c \in (1..born) \ swept :
        \/ \E p \in Paths : home[p] = c
        \/ \E n \in Bin!Names : files[n] = c /\ info[n] # None

BinInv == BinTyped /\ Progress /\ CopiesApart /\ Kept

LEMMA BinEnough == BinInv => NothingDestroyed
  BY DEF BinInv, Kept, Progress, Moved, NothingDestroyed, Bin!NothingDestroyed

\* The files there are at the start are one to a path.
LEMMA FirstFiles ==
    LET n == Bin!Cardinality(Paths)
        h == CHOOSE h \in [Paths -> 1..n] : \A p, q \in Paths : h[p] = h[q] => p = q
    IN /\ n \in Nat
       /\ h \in [Paths -> 1..n]
       /\ \A c \in 1..n : \E p \in Paths : h[p] = c
  <1> DEFINE n == Bin!Cardinality(Paths)
             h == CHOOSE h \in [Paths -> 1..n] : \A p, q \in Paths : h[p] = h[q] => p = q
  <1>1. n = Cardinality(Paths)
    BY Zenon DEF Bin!Cardinality, Cardinality
  <1>2. n \in Nat /\ IsFiniteSet(Paths)
    BY <1>1, FS_CardinalityType, OutboundAssumption
  <1>3. IsFiniteSet(1..n) /\ Cardinality(1..n) = n
    BY <1>2, FS_Interval
  <1> HIDE DEF n
  <1>4. ExistsBijection(Paths, 1..n)
    BY <1>1, <1>2, <1>3, FS_SameCardinalityBij
  <1>5. \E f \in [Paths -> 1..n] : \A p, q \in Paths : f[p] = f[q] => p = q
    BY <1>4 DEF ExistsBijection, Bijection, Injection, IsInjective
  <1>6. h \in [Paths -> 1..n] /\ \A p, q \in Paths : h[p] = h[q] => p = q
    BY <1>5
  <1> HIDE DEF h
  <1>7. h \in Injection(Paths, 1..n)
    BY <1>6 DEF Injection, IsInjective
  <1>8. h \in Surjection(Paths, 1..n)
    BY <1>1, <1>3, <1>7, FS_Injection
  <1>9. \A c \in 1..n : \E p \in Paths : h[p] = c
    BY <1>8 DEF Surjection
  <1> QED
    BY <1>2, <1>6, <1>9 DEF n, h

LEMMA BinInit == Bin!Init => BinInv
  <1> SUFFICES ASSUME Bin!Init PROVE BinInv
    OBVIOUS
  <1> DEFINE n == Bin!Cardinality(Paths)
  <1>1. /\ n \in Nat
        /\ home \in [Paths -> 1..n]
        /\ \A c \in 1..n : \E p \in Paths : home[p] = c
    BY FirstFiles DEF Bin!Init
  <1>2. /\ born \in {n, n + 1}
        /\ born = n + 1 => files[1] = born /\ info[1] # None
        /\ files \in [Bin!Names -> Nat \cup {None}]
        /\ info \in [Bin!Names -> Paths \cup {None}]
    BY <1>1, OutboundAssumption DEF Bin!Init, Bin!Names
  <1> HIDE DEF n
  <1>3. BinTyped
    BY <1>1, <1>2 DEF Bin!Init, BinTyped, File
  <1>4. Progress /\ CopiesApart
    BY DEF Bin!Init, Progress, CopiesApart, Looked, Named, Recorded, Holding, Moved
  <1>5. Kept
    <2> SUFFICES ASSUME NEW c \in 1..born
                 PROVE  \/ \E p \in Paths : home[p] = c
                        \/ \E m \in Bin!Names : files[m] = c /\ info[m] # None
      BY DEF Kept
    <2>1. CASE c \in 1..n
      BY <1>1, <2>1
    <2>2. CASE c \notin 1..n
      <3>1. c = n + 1 /\ born = n + 1
        BY <1>1, <1>2, <2>2
      <3>2. 1 \in Bin!Names
        BY OutboundAssumption DEF Bin!Names
      <3> QED
        BY <1>2, <3>1, <3>2
    <2> QED
      BY <2>1, <2>2
  <1> QED
    BY <1>3, <1>4, <1>5 DEF BinInv

-----------------------------------------------------------------------------
(* Trash: the steps                                                        *)

\* The first of some names is one of them.
LEMMA FirstFree ==
    ASSUME NEW S \in SUBSET Nat, S # {}
    PROVE  Bin!Min(S) \in S
  BY LeastOfSome DEF Bin!Min

\* Steps that move no file: where the deletion is, and what it knows, changes.
LEMMA SearchStep ==
    ASSUME BinInv, NEW d \in Deletes,
           \/ \E p \in Paths : Bin!Look(d, p)
           \/ Bin!ListFiles(d)
           \/ Bin!ListInfo(d)
           \/ Bin!OpenSource(d)
    PROVE  BinInv'
  <1>0. UNCHANGED <<home, files, info, born, swept>>
    BY DEF Bin!Look, Bin!ListFiles, Bin!ListInfo, Bin!OpenSource, Bin!disk
  <1>1. CASE \E p \in Paths : Bin!Look(d, p)
    <2>1. PICK p \in Paths : Bin!Look(d, p)
      BY <1>1
    <2>2. BinTyped'
      BY <1>0, <2>1 DEF BinInv, BinTyped, Bin!Look, Bin!Goto, Looked, Bin!Names
    <2>3. Progress' /\ CopiesApart'
      BY <1>0, <2>1 DEF BinInv, BinTyped, Progress, CopiesApart, Bin!Look, Bin!Goto,
                        Looked, Named, Recorded, Holding, Moved, Bin!Names
    <2>4. Kept'
      BY <1>0 DEF BinInv, Kept, Bin!Names
    <2> QED
      BY <2>2, <2>3, <2>4 DEF BinInv
  <1>2. CASE Bin!ListFiles(d)
    <2>1. /\ deletePc[d] = "files" /\ deletePc' = [deletePc EXCEPT ![d] = "info"]
          /\ UNCHANGED <<path, dest, holds>>
      BY <1>2 DEF Bin!ListFiles, Bin!Goto
    <2>2. BinTyped' /\ Progress' /\ CopiesApart' /\ Kept'
      BY <1>0, <2>1 DEF BinInv, BinTyped, Progress, CopiesApart, Kept,
                        Looked, Named, Recorded, Holding, Moved, Bin!Names
    <2> QED
      BY <2>2 DEF BinInv
  <1>3. CASE Bin!ListInfo(d)
    <2>1. PICK seen : LET free == Bin!Names \ (taken[d] \cup seen)
                      IN IF free = {} THEN Bin!Goto(d, "failed") /\ UNCHANGED dest
                         ELSE Bin!Goto(d, "record") /\ dest' = [dest EXCEPT ![d] = Bin!Min(free)]
      BY <1>3 DEF Bin!ListInfo
    <2> DEFINE free == Bin!Names \ (taken[d] \cup seen)
    <2>2. deletePc[d] = "info" /\ UNCHANGED <<path, holds>>
      BY <1>3 DEF Bin!ListInfo
    <2>3. \/ deletePc' = [deletePc EXCEPT ![d] = "failed"] /\ UNCHANGED dest
          \/ /\ deletePc' = [deletePc EXCEPT ![d] = "record"]
             /\ \E n \in Bin!Names : dest' = [dest EXCEPT ![d] = n]
      <3>1. CASE free = {}
        BY <2>1, <3>1 DEF Bin!Goto
      <3>2. CASE free # {}
        <4>1. Bin!Min(free) \in free
          BY <3>2, FirstFree, OutboundAssumption DEF Bin!Names
        <4> QED
          BY <2>1, <3>2, <4>1 DEF Bin!Goto
      <3> QED
        BY <3>1, <3>2
    <2>4. BinTyped' /\ Progress' /\ CopiesApart' /\ Kept'
      BY <1>0, <2>2, <2>3 DEF BinInv, BinTyped, Progress, CopiesApart, Kept,
                              Looked, Named, Recorded, Holding, Moved, Bin!Names
    <2> QED
      BY <2>4 DEF BinInv
  <1>4. CASE Bin!OpenSource(d)
    <2>1. /\ deletePc[d] = "open" /\ UNCHANGED <<path, dest>>
          /\ \/ /\ home[path[d]] # None /\ deletePc' = [deletePc EXCEPT ![d] = "create"]
                /\ holds' = [holds EXCEPT ![d] = home[path[d]]]
             \/ deletePc' = [deletePc EXCEPT ![d] = "failed"] /\ UNCHANGED holds
      BY <1>4 DEF Bin!OpenSource, Bin!Goto
    <2>2. home[path[d]] # None => home[path[d]] \in File
      BY <2>1 DEF BinInv, BinTyped, Progress, Looked
    <2>3. BinTyped' /\ Progress' /\ CopiesApart' /\ Kept'
      BY <1>0, <2>1, <2>2 DEF BinInv, BinTyped, Progress, CopiesApart, Kept,
                              Looked, Named, Recorded, Holding, Moved, Bin!Names
    <2> QED
      BY <2>3 DEF BinInv
  <1> QED
    BY <1>1, <1>2, <1>3, <1>4

\* The record is written over whatever is there: no name loses its record.
LEMMA WriteRecordStep ==
    ASSUME BinInv, NEW d \in Deletes, Bin!WriteRecord(d)
    PROVE  BinInv'
  <1>1. /\ deletePc[d] = "record" /\ UNCHANGED <<home, files, path, dest, holds, born, swept>>
        /\ \/ /\ deletePc' = [deletePc EXCEPT ![d] = "link"]
              /\ info' = [info EXCEPT ![dest[d]] = path[d]]
           \/ deletePc' = [deletePc EXCEPT ![d] = "failed"] /\ UNCHANGED info
    BY DEF Bin!WriteRecord, Bin!Goto
  <1>2. path[d] \in Paths /\ path[d] # None /\ dest[d] \in Bin!Names
    BY <1>1, OutboundAssumption DEF BinInv, Progress, Looked, Named
  <1>3. /\ info' \in [Bin!Names -> Paths \cup {None}]
        /\ \A n \in Bin!Names : info[n] # None => info'[n] # None
        /\ deletePc'[d] = "link" => info'[dest[d]] # None
    BY <1>1, <1>2 DEF BinInv, BinTyped
  <1>4. BinTyped' /\ CopiesApart' /\ Kept'
    BY <1>1, <1>3 DEF BinInv, BinTyped, CopiesApart, Kept, Looked, Bin!Names
  <1>5. Progress'
    BY <1>1, <1>2, <1>3 DEF BinInv, BinTyped, Progress, Looked, Named, Recorded, Holding, Moved, Bin!Names
  <1> QED
    BY <1>4, <1>5 DEF BinInv

\* A file appears under a name that had none: nobody else's file is there.
LEMMA PlaceStep ==
    ASSUME BinInv, NEW d \in Deletes, Bin!Link(d) \/ Bin!CreateNew(d)
    PROVE  BinInv'
  <1>0. /\ UNCHANGED <<home, info, path, dest, born, swept>>
        /\ deletePc[d] \in {"link", "create"}
    BY DEF Bin!Link, Bin!CreateNew
  <1>1. path[d] \in Paths /\ dest[d] \in Bin!Names /\ info[dest[d]] # None
    BY <1>0 DEF BinInv, Progress, Looked, Named, Recorded
  <1>2. CASE UNCHANGED <<files, holds>> /\ \E l \in {"failed", "open"} : deletePc' = [deletePc EXCEPT ![d] = l]
    BY <1>0, <1>1, <1>2 DEF BinInv, BinTyped, Progress, CopiesApart, Kept,
                            Looked, Named, Recorded, Holding, Moved, Bin!Names
  <1>3. CASE /\ files[dest[d]] = None
             /\ \/ /\ home[path[d]] # None
                   /\ files' = [files EXCEPT ![dest[d]] = home[path[d]]]
                   /\ holds' = [holds EXCEPT ![d] = home[path[d]]]
                   /\ deletePc' = [deletePc EXCEPT ![d] = "unlink"]
                \/ /\ deletePc[d] = "create"
                   /\ files' = [files EXCEPT ![dest[d]] = 0] /\ UNCHANGED holds
                   /\ deletePc' = [deletePc EXCEPT ![d] = "copy"]
    <2>1. home[path[d]] # None => home[path[d]] \in File
      BY <1>1 DEF BinInv, BinTyped
    <2>2. BinTyped'
      <3>1. files' \in [Bin!Names -> Nat \cup {None}]
        BY <1>1, <1>3, <2>1 DEF BinInv, BinTyped, File
      <3>2. holds' \in [Deletes -> File \cup {None}]
        BY <1>3, <2>1 DEF BinInv, BinTyped
      <3>3. deletePc' \in [Deletes -> {"idle", "failed", "dead"} \cup Looked]
        BY <1>3 DEF BinInv, BinTyped, Looked
      <3> QED
        BY <1>0, <3>1, <3>2, <3>3 DEF BinInv, BinTyped, Bin!Names
    <2>3. \A e \in Deletes : e # d /\ deletePc[e] \in {"copy", "unlink", "ok"} => dest[e] # dest[d]
      BY <1>3, OutboundAssumption DEF BinInv, Progress, Moved, Holding, File
    <2>4. CopiesApart'
      BY <1>0, <1>1, <1>3, <2>3 DEF BinInv, BinTyped, CopiesApart
    <2>5. Progress'
      <3> SUFFICES ASSUME NEW e \in Deletes
                   PROVE  /\ deletePc'[e] \in Looked => path'[e] \in Paths
                          /\ deletePc'[e] \in Named => dest'[e] \in Bin!Names
                          /\ deletePc'[e] \in Recorded => info'[dest'[e]] # None
                          /\ deletePc'[e] \in Holding => holds'[e] \in File
                          /\ deletePc'[e] = "copy" => files'[dest'[e]] = 0
                          /\ deletePc'[e] \in Moved => files'[dest'[e]] = holds'[e]
        BY DEF Progress, Bin!Names
      <3>1. CASE e = d
        BY <1>0, <1>1, <1>3, <2>1, <3>1
           DEF BinInv, BinTyped, Progress, Looked, Named, Recorded, Holding, Moved
      <3>2. CASE e # d
        <4>1. deletePc'[e] = deletePc[e] /\ holds'[e] = holds[e]
          BY <1>3, <3>2 DEF BinInv, BinTyped
        <4>2. deletePc[e] \in {"copy", "unlink", "ok"} => files'[dest[e]] = files[dest[e]]
          BY <1>1, <1>3, <2>3, <3>2 DEF BinInv, BinTyped, Progress, Named
        <4> QED
          BY <1>0, <4>1, <4>2 DEF BinInv, Progress, Moved
      <3> QED
        BY <3>1, <3>2
    <2>6. Kept'
      <3>1. \A n \in Bin!Names : files[n] \in Nat => files'[n] = files[n]
        BY <1>1, <1>3, OutboundAssumption DEF BinInv, BinTyped
      <3>2. 1..born \in SUBSET Nat
        BY DEF BinInv, BinTyped
      <3>3. \A n \in Bin!Names, c \in (1..born) \ swept : files[n] = c => files'[n] = c
        BY <3>1, <3>2
      <3> QED
        BY <1>0, <3>3 DEF BinInv, Kept, Bin!Names
    <2> QED
      BY <2>2, <2>4, <2>5, <2>6 DEF BinInv
  <1> QED
    BY <1>2, <1>3 DEF Bin!Link, Bin!CreateNew, Bin!Goto, Bin!Partial

\* A copy is finished or given up, where only this deletion's unfinished one was.
LEMMA CopyStep ==
    ASSUME BinInv, NEW d \in Deletes, Bin!Copy(d)
    PROVE  BinInv'
  <1>0. deletePc[d] = "copy" /\ UNCHANGED <<home, info, path, dest, holds, born, swept>>
    BY DEF Bin!Copy
  <1>1. /\ path[d] \in Paths /\ dest[d] \in Bin!Names /\ info[dest[d]] # None
        /\ holds[d] \in File /\ files[dest[d]] = 0
    BY <1>0 DEF BinInv, Progress, Looked, Named, Recorded, Holding
  <1>2. PICK l \in {"unlink", "failed"}, c \in Nat \cup {None} :
          /\ deletePc' = [deletePc EXCEPT ![d] = l]
          /\ files' = [files EXCEPT ![dest[d]] = c]
          /\ l = "unlink" => c = holds[d]
    BY <1>1 DEF Bin!Copy, Bin!Goto, Bin!Partial, File
  <1>3. BinTyped'
    BY <1>0, <1>1, <1>2 DEF BinInv, BinTyped, Looked, Bin!Names
  <1>4. CopiesApart'
    BY <1>0, <1>2 DEF BinInv, BinTyped, CopiesApart
  <1>5. \A e \in Deletes : e # d /\ deletePc[e] \in {"copy", "unlink", "ok"} => dest[e] # dest[d]
    BY <1>0, <1>1 DEF BinInv, CopiesApart, Progress, Moved, Holding, File
  <1>6. Progress'
    <2> SUFFICES ASSUME NEW e \in Deletes
                 PROVE  /\ deletePc'[e] \in Looked => path'[e] \in Paths
                        /\ deletePc'[e] \in Named => dest'[e] \in Bin!Names
                        /\ deletePc'[e] \in Recorded => info'[dest'[e]] # None
                        /\ deletePc'[e] \in Holding => holds'[e] \in File
                        /\ deletePc'[e] = "copy" => files'[dest'[e]] = 0
                        /\ deletePc'[e] \in Moved => files'[dest'[e]] = holds'[e]
      BY DEF Progress, Bin!Names
    <2>1. CASE e = d
      BY <1>0, <1>1, <1>2, <2>1
         DEF BinInv, BinTyped, Looked, Named, Recorded, Holding, Moved
    <2>2. CASE e # d
      <3>1. deletePc'[e] = deletePc[e]
        BY <1>2, <2>2 DEF BinInv, BinTyped
      <3>2. deletePc[e] \in {"copy", "unlink", "ok"} => files'[dest[e]] = files[dest[e]]
        BY <1>2, <1>5, <2>2 DEF BinInv, BinTyped, Progress, Named
      <3> QED
        BY <1>0, <3>1, <3>2 DEF BinInv, Progress, Moved
    <2> QED
      BY <2>1, <2>2
  <1>7. Kept'
    <2>1. \A n \in Bin!Names : n # dest[d] => files'[n] = files[n]
      BY <1>1, <1>2 DEF BinInv, BinTyped
    <2>2. \A b \in (1..born) \ swept : b # 0
      BY DEF BinInv, BinTyped
    <2>3. \A n \in Bin!Names, b \in (1..born) \ swept : files[n] = b => files'[n] = b
      BY <1>1, <2>1, <2>2
    <2> QED
      BY <1>0, <2>3 DEF BinInv, Kept, Bin!Names
  <1> QED
    BY <1>3, <1>4, <1>6, <1>7 DEF BinInv

\* The original is unlinked: it is the file that was moved, or it is counted swept.
LEMMA UnlinkStep ==
    ASSUME BinInv, NEW d \in Deletes, Bin!Unlink(d)
    PROVE  BinInv'
  <1>0. deletePc[d] = "unlink" /\ UNCHANGED <<files, info, path, dest, holds, born>>
    BY DEF Bin!Unlink
  <1>1. /\ path[d] \in Paths /\ dest[d] \in Bin!Names /\ info[dest[d]] # None
        /\ holds[d] \in File /\ files[dest[d]] = holds[d]
    BY <1>0 DEF BinInv, Progress, Looked, Named, Recorded, Holding, Moved
  <1>2. PICK l \in {"ok", "failed"} : deletePc' = [deletePc EXCEPT ![d] = l]
    BY DEF Bin!Unlink, Bin!Goto
  <1>3. Progress' /\ CopiesApart'
    BY <1>0, <1>1, <1>2 DEF BinInv, BinTyped, Progress, CopiesApart,
                            Looked, Named, Recorded, Holding, Moved, Bin!Names
  <1>4. CASE UNCHANGED <<home, swept>>
    BY <1>0, <1>2, <1>3, <1>4 DEF BinInv, BinTyped, Kept, Looked, Bin!Names
  <1>5. CASE /\ home' = [home EXCEPT ![path[d]] = None]
             /\ swept' = IF home[path[d]] = holds[d] THEN swept ELSE swept \cup {home[path[d]]}
    <2>1. BinTyped'
      BY <1>0, <1>1, <1>2, <1>5 DEF BinInv, BinTyped, Looked, Bin!Names
    <2>2. Kept'
      <3> SUFFICES ASSUME NEW c \in (1..born) \ swept'
                   PROVE  \/ \E p \in Paths : home'[p] = c
                          \/ \E n \in Bin!Names : files[n] = c /\ info[n] # None
        BY <1>0 DEF Kept, Bin!Names
      <3>1. c \in (1..born) \ swept
        BY <1>5
      <3>2. CASE \E p \in Paths : home[p] = c
        <4>1. PICK p \in Paths : home[p] = c
          BY <3>2
        <4>2. CASE p = path[d]
          BY <1>1, <1>5, <4>1, <4>2
        <4>3. CASE p # path[d]
          BY <1>1, <1>5, <4>1, <4>3 DEF BinInv, BinTyped
        <4> QED
          BY <4>2, <4>3
      <3> QED
        BY <3>1, <3>2 DEF BinInv, Kept
    <2> QED
      BY <1>3, <2>1, <2>2 DEF BinInv
  <1> QED
    BY <1>4, <1>5 DEF Bin!Unlink

\* A new file is where it was written, on a path that had none.
LEMMA CreateStep ==
    ASSUME BinInv, NEW p \in Paths, Bin!Create(p)
    PROVE  BinInv'
  <1>1. /\ home[p] = None /\ born' = born + 1 /\ home' = [home EXCEPT ![p] = born + 1]
        /\ UNCHANGED <<files, info, deletePc, path, dest, holds, swept>>
    BY DEF Bin!Create
  <1>2. born \in Nat /\ home \in [Paths -> File \cup {None}]
    BY DEF BinInv, BinTyped
  <1>3. BinTyped'
    BY <1>1, <1>2 DEF BinInv, BinTyped, Looked, Bin!Names, File
  <1>4. Progress' /\ CopiesApart'
    BY <1>1 DEF BinInv, Progress, CopiesApart, Looked, Named, Recorded, Holding, Moved, Bin!Names
  <1>5. Kept'
    <2> SUFFICES ASSUME NEW c \in (1..(born + 1)) \ swept
                 PROVE  \/ \E q \in Paths : home'[q] = c
                        \/ \E n \in Bin!Names : files[n] = c /\ info[n] # None
      BY <1>1 DEF Kept, Bin!Names
    <2>1. CASE c = born + 1
      BY <1>1, <1>2, <2>1
    <2>2. CASE c # born + 1
      <3>1. c \in (1..born) \ swept /\ c # None
        BY <1>2, <2>2, OutboundAssumption
      <3>2. \A q \in Paths : home[q] = c => home'[q] = c
        BY <1>1, <1>2, <3>1
      <3> QED
        BY <3>1, <3>2 DEF BinInv, Kept
    <2> QED
      BY <2>1, <2>2
  <1> QED
    BY <1>3, <1>4, <1>5 DEF BinInv

\* The daemon's deletions die where they are.
LEMMA CrashStep ==
    ASSUME BinInv, Bin!Crash
    PROVE  BinInv'
  <1>1. /\ deletePc' = [d \in Deletes |-> IF deletePc[d] \in {"idle", "ok", "failed"}
                                          THEN deletePc[d] ELSE "dead"]
        /\ UNCHANGED <<home, files, info, path, dest, holds, born, swept>>
    BY DEF Bin!Crash, Bin!disk
  <1>2. BinTyped' /\ Progress' /\ CopiesApart' /\ Kept'
    BY <1>1 DEF BinInv, BinTyped, Progress, CopiesApart, Kept,
                Looked, Named, Recorded, Holding, Moved, Bin!Names
  <1> QED
    BY <1>2 DEF BinInv

\* Whatever calls delete, copy or die in whatever order, every file that ever existed
\* is where it was or whole in the trash with its record, but one written to a path
\* while a deletion of it was about to unlink the one before (trash.rs, local.rs).
THEOREM NothingIsDestroyed == Bin!Spec => []NothingDestroyed
  <1>1. BinInv /\ [Bin!Next]_(Bin!vars) => BinInv'
    <2> SUFFICES ASSUME BinInv, [Bin!Next]_(Bin!vars) PROVE BinInv'
      OBVIOUS
    <2>1. ASSUME NEW d \in Deletes, NEW p \in Paths, Bin!Look(d, p) PROVE BinInv'
      BY <2>1, SearchStep
    <2>2. ASSUME NEW d \in Deletes, Bin!ListFiles(d) \/ Bin!ListInfo(d) \/ Bin!OpenSource(d)
          PROVE  BinInv'
      BY <2>2, SearchStep
    <2>3. ASSUME NEW d \in Deletes, Bin!WriteRecord(d) PROVE BinInv'
      BY <2>3, WriteRecordStep
    <2>4. ASSUME NEW d \in Deletes, Bin!Link(d) \/ Bin!CreateNew(d) PROVE BinInv'
      BY <2>4, PlaceStep
    <2>5. ASSUME NEW d \in Deletes, Bin!Copy(d) PROVE BinInv'
      BY <2>5, CopyStep
    <2>6. ASSUME NEW d \in Deletes, Bin!Unlink(d) PROVE BinInv'
      BY <2>6, UnlinkStep
    <2>7. ASSUME NEW p \in Paths, Bin!Create(p) PROVE BinInv'
      BY <2>7, CreateStep
    <2>8. CASE Bin!Crash
      BY <2>8, CrashStep
    <2>9. CASE UNCHANGED Bin!vars
      BY <2>9 DEF Bin!vars, Bin!disk, BinInv, BinTyped, Progress, CopiesApart, Kept, Bin!Names
    <2> QED
      BY <2>1, <2>2, <2>3, <2>4, <2>5, <2>6, <2>7, <2>8, <2>9 DEF Bin!Next
  <1> QED
    BY <1>1, BinInit, BinEnough, PTL DEF Bin!Spec

-----------------------------------------------------------------------------
(* UrlCache: the inductive invariant is one of each fetch by itself, and   *)
(* of the documents no more than their type                                *)

Entry == [body : Nat, at : Nat]
Answer == [status : {"304", "body"}, of : Nat \cup {None}]

Fetch == [pc : {"idle", "asking", "answered", "reading", "sweeping", "evicting", "done"},
          key : Keys \cup {None}, stored : Entry \cup {None}, hops : Nat,
          reply : Answer \cup {None}, at : Nat, look : SUBSET Keys,
          seen : SUBSET [key : Keys, at : Nat], victims : SUBSET Keys,
          began : Nat \cup {None}, told : Nat \cup {None}, body : Nat \cup {None}]

\* What a fetch returns is the answer's, or the untagged copy it began from.
Honest(r) ==
    \/ r.told # None /\ r.body = r.told
    \/ r.told = None /\ r.body = r.began /\ r.began \in Untagged

\* A fetch that waits knows its page, and the copy it holds is the one it began from;
\* one that has an answer remembers it; a copy the origin confirmed is the one it was
\* asked about, and has no validator if it was asked about none.
GoodFetch ==
    {r \in Fetch :
        /\ r.pc \in {"asking", "answered", "reading"} => r.key \in Keys
        /\ r.pc \in {"asking", "answered"} /\ r.stored # None => r.began = r.stored.body
        /\ r.pc \in {"answered", "reading", "sweeping", "evicting"} => r.reply \in Answer
        /\ r.pc \in {"reading", "sweeping", "evicting"} => r.reply.of # None
        /\ r.pc = "answered" /\ r.reply.status = "body" => r.reply.of # None
        /\ (r.pc = "answered" /\ r.reply.status = "304" /\ r.hops = 0 /\ r.stored # None) =>
               IF r.reply.of = None THEN r.stored.body \in Untagged ELSE r.stored.body = r.reply.of
        /\ r.pc = "done" => Honest(r)}

CacheInv ==
    /\ disk \in [Keys -> Entry \cup {None}]
    /\ origin \in [Keys -> Nat]
    /\ cacheNow \in Nat
    /\ fetch \in [Fetchers -> GoodFetch]

LEMMA CacheEnough == CacheInv => BodiesAreTheOrigins
  BY DEF CacheInv, GoodFetch, Honest, BodiesAreTheOrigins, Cache!BodiesAreTheOrigins

LEMMA UnstartedGood == Cache!Unstarted \in GoodFetch
  <1>1. Cache!Unstarted \in Fetch
    BY DEF Cache!Unstarted, Fetch
  <1> QED
    BY <1>1 DEF Cache!Unstarted, GoodFetch

LEMMA CacheInit == Cache!Init => CacheInv
  BY UnstartedGood DEF Cache!Init, CacheInv

\* What a fetch returns with is the answer it had, or the copy it began from.
LEMMA ReturnedGood ==
    ASSUME CacheInv, NEW f \in Fetchers, fetch[f].reply \in Answer,
           NEW body \in Nat, Cache!Returned(f, body),
           IF fetch[f].reply.of = None THEN body = fetch[f].began /\ body \in Untagged
           ELSE body = fetch[f].reply.of
    PROVE  fetch' \in [Fetchers -> GoodFetch]
  <1> DEFINE r == [Cache!Unstarted EXCEPT !.pc = "done", !.began = fetch[f].began,
                                          !.told = fetch[f].reply.of, !.body = body]
  <1>1. fetch[f].reply.of \in Nat \cup {None} /\ fetch[f].began \in Nat \cup {None}
    BY DEF Answer, CacheInv, GoodFetch, Fetch
  <1>2. r \in Fetch
    BY <1>1 DEF Cache!Unstarted, Fetch
  <1>3. /\ r.pc = "done" /\ r.told = fetch[f].reply.of /\ r.body = body
        /\ r.began = fetch[f].began
    BY DEF Cache!Unstarted
  <1>4. Honest(r)
    BY <1>3 DEF Honest
  <1>5. r \in GoodFetch
    BY <1>2, <1>3, <1>4 DEF GoodFetch
  <1>6. fetch' = [fetch EXCEPT ![f] = r]
    BY DEF Cache!Returned
  <1> QED
    BY <1>5, <1>6 DEF CacheInv

LEMMA EndedGood ==
    ASSUME CacheInv, NEW f \in Fetchers, Cache!Ended(f)
    PROVE  fetch' \in [Fetchers -> GoodFetch]
  BY UnstartedGood DEF CacheInv, Cache!Ended

LEMMA AnsweredTyped ==
    ASSUME NEW q \in Fetch, NEW reply \in Answer
    PROVE  [q EXCEPT !.pc = "answered", !.reply = reply] \in Fetch
  BY DEF Fetch

\* A fetch as far as the answer.
LEMMA AskStep ==
    ASSUME CacheInv, NEW f \in Fetchers,
           \/ \E k \in Keys : Cache!Begin(f, k)
           \/ Cache!Reply(f) \/ Cache!ReplyUnasked(f) \/ Cache!Redirect(f)
           \/ Cache!NotModified(f) \/ Cache!Headers(f)
    PROVE  CacheInv'
  <1>0. fetch[f] \in GoodFetch /\ fetch[f] \in Fetch
    BY DEF CacheInv, GoodFetch
  <1>1. UNCHANGED <<disk, origin, cacheNow>>
    <2>1. CASE \E k \in Keys : Cache!Begin(f, k)
      BY <2>1, Zenon DEF Cache!Begin
    <2>2. CASE Cache!Reply(f) \/ Cache!ReplyUnasked(f) \/ Cache!Redirect(f)
      BY <2>2 DEF Cache!Reply, Cache!ReplyUnasked, Cache!Redirect
    <2>3. CASE Cache!NotModified(f) \/ Cache!Headers(f)
      BY <2>3 DEF Cache!NotModified, Cache!Headers
    <2> QED
      BY <2>1, <2>2, <2>3
  <1>2. SUFFICES fetch' \in [Fetchers -> GoodFetch]
    BY <1>1 DEF CacheInv
  <1>3. ASSUME NEW k \in Keys, Cache!Begin(f, k) PROVE fetch' \in [Fetchers -> GoodFetch]
    <2> DEFINE began == IF disk[k] = None THEN None ELSE disk[k].body
               r == [Cache!Unstarted EXCEPT !.pc = "asking", !.key = k, !.stored = disk[k],
                                            !.began = began]
    <2>1. began \in Nat \cup {None} /\ disk[k] \in Entry \cup {None}
      BY DEF CacheInv, Entry
    <2>2. r \in Fetch
      BY <2>1 DEF Cache!Unstarted, Fetch
    <2>3. r.pc = "asking" /\ r.key = k /\ (r.stored # None => r.began = r.stored.body)
      BY DEF Cache!Unstarted
    <2>4. r \in GoodFetch
      BY <2>2, <2>3 DEF GoodFetch
    <2>5. fetch' = [fetch EXCEPT ![f] = Cache!Unstarted] \/ fetch' = [fetch EXCEPT ![f] = r]
      BY <1>3, Zenon DEF Cache!Begin
    <2> QED
      BY <2>4, <2>5, UnstartedGood DEF CacheInv
  <1>4. CASE Cache!Reply(f)
    <2> DEFINE held == origin[fetch[f].key]
               stands == Cache!Conditional(f) /\ fetch[f].stored.body = held
               reply == [status |-> IF stands THEN "304" ELSE "body", of |-> held]
               r == [fetch[f] EXCEPT !.pc = "answered", !.reply = reply]
    <2>1. fetch[f].pc = "asking" /\ fetch[f].key \in Keys
      BY <1>0, <1>4 DEF Cache!Reply, GoodFetch
    <2>2. held \in Nat /\ held # None
      BY <2>1, OutboundAssumption DEF CacheInv
    <2>3. /\ reply \in Answer /\ reply.of = held
          /\ reply.status = "304" => fetch[f].stored.body = reply.of
      BY <2>2 DEF Answer
    <2>4. fetch' = [fetch EXCEPT ![f] = r]
      BY <1>4 DEF Cache!Reply
    <2> HIDE DEF reply
    <2>5. r \in Fetch
      BY <1>0, <2>3, AnsweredTyped, Zenon
    <2>6. /\ r.pc = "answered" /\ r.key = fetch[f].key /\ r.reply = reply
          /\ r.stored = fetch[f].stored /\ r.began = fetch[f].began
      BY <1>0 DEF Fetch
    <2> HIDE DEF r, held
    <2>7. r \in GoodFetch
      BY <1>0, <2>1, <2>2, <2>3, <2>5, <2>6 DEF GoodFetch
    <2> QED
      BY <2>4, <2>7 DEF CacheInv
  <1>5. CASE Cache!ReplyUnasked(f)
    <2> DEFINE reply == [status |-> "304", of |-> None]
               r == [fetch[f] EXCEPT !.pc = "answered", !.reply = reply]
    <2>1. fetch[f].pc = "asking" /\ fetch[f].key \in Keys
      BY <1>0, <1>5 DEF Cache!ReplyUnasked, GoodFetch
    <2>2. fetch[f].hops = 0 /\ fetch[f].stored # None => fetch[f].stored.body \in Untagged
      BY <1>5 DEF Cache!ReplyUnasked, Cache!Conditional
    <2>3. reply \in Answer /\ reply.of = None /\ reply.status = "304"
      BY DEF Answer
    <2>4. fetch' = [fetch EXCEPT ![f] = r]
      BY <1>5 DEF Cache!ReplyUnasked
    <2> HIDE DEF reply
    <2>5. r \in Fetch
      BY <1>0, <2>3, AnsweredTyped, Zenon
    <2>6. /\ r.pc = "answered" /\ r.key = fetch[f].key /\ r.reply = reply
          /\ r.hops = fetch[f].hops /\ r.stored = fetch[f].stored /\ r.began = fetch[f].began
      BY <1>0 DEF Fetch
    <2> HIDE DEF r
    <2>7. r \in GoodFetch
      BY <1>0, <2>1, <2>2, <2>3, <2>5, <2>6 DEF GoodFetch
    <2> QED
      BY <2>4, <2>7 DEF CacheInv
  <1>6. CASE Cache!Redirect(f)
    <2> DEFINE r == [fetch[f] EXCEPT !.hops = @ + 1, !.stored = None]
    <2>1. fetch[f].pc = "asking" /\ fetch[f].hops + 1 \in Nat
      BY <1>0, <1>6 DEF Cache!Redirect, Fetch
    <2>2. r \in Fetch
      BY <1>0, <2>1 DEF Fetch
    <2>3. r \in GoodFetch
      BY <1>0, <2>1, <2>2 DEF Fetch, GoodFetch
    <2>4. fetch' = [fetch EXCEPT ![f] = r]
      BY <1>6 DEF Cache!Redirect
    <2> QED
      BY <2>3, <2>4 DEF CacheInv
  <1>7. CASE Cache!NotModified(f)
    <2>1. CASE Cache!Ended(f)
      BY <2>1, EndedGood
    <2>2. CASE fetch[f].hops = 0 /\ fetch[f].stored # None /\ Cache!Returned(f, fetch[f].stored.body)
      <3>1. /\ fetch[f].reply \in Answer /\ fetch[f].began = fetch[f].stored.body
            /\ IF fetch[f].reply.of = None THEN fetch[f].stored.body \in Untagged
               ELSE fetch[f].stored.body = fetch[f].reply.of
        BY <1>0, <1>7, <2>2 DEF Cache!NotModified, GoodFetch
      <3>2. fetch[f].stored.body \in Nat
        BY <1>0, <2>2 DEF Fetch, Entry
      <3> QED
        BY <2>2, <3>1, <3>2, ReturnedGood
    <2>3. fetch[f].hops \in Nat
      BY <1>0 DEF Fetch
    <2> QED
      BY <1>7, <2>1, <2>2, <2>3 DEF Cache!NotModified
  <1>8. CASE Cache!Headers(f)
    <2> DEFINE r == [fetch[f] EXCEPT !.pc = "reading", !.at = cacheNow, !.hops = 0, !.stored = None]
    <2>1. fetch[f].pc = "answered" /\ fetch[f].reply.status = "body"
      BY <1>8 DEF Cache!Headers
    <2>2. /\ r \in Fetch /\ r.pc = "reading" /\ r.key = fetch[f].key
          /\ r.reply = fetch[f].reply
      BY <1>0 DEF Fetch, CacheInv
    <2>3. r \in GoodFetch
      BY <1>0, <2>1, <2>2 DEF GoodFetch
    <2>4. fetch' = [fetch EXCEPT ![f] = r]
      BY <1>8 DEF Cache!Headers
    <2> QED
      BY <2>3, <2>4 DEF CacheInv
  <1> QED
    BY <1>3, <1>4, <1>5, <1>6, <1>7, <1>8

\* A fetch that stores what it read, or drops what was filed.
LEMMA StoreStep ==
    ASSUME CacheInv, NEW f \in Fetchers,
           \/ Cache!Fail(f) \/ Cache!TooLarge(f) \/ Cache!Rename(f) \/ Cache!Unstored(f)
    PROVE  CacheInv'
  <1>0. fetch[f] \in GoodFetch /\ fetch[f] \in Fetch
    BY DEF CacheInv, GoodFetch
  <1>1. UNCHANGED <<origin, cacheNow>>
    BY DEF Cache!Fail, Cache!TooLarge, Cache!Rename, Cache!Unstored
  <1>2. CASE Cache!Fail(f) \/ Cache!TooLarge(f)
    <2>1. fetch' \in [Fetchers -> GoodFetch]
      BY <1>2, EndedGood DEF Cache!Fail, Cache!TooLarge
    <2>2. disk' \in [Keys -> Entry \cup {None}]
      BY <1>2 DEF CacheInv, Cache!Fail, Cache!TooLarge
    <2> QED
      BY <1>1, <2>1, <2>2 DEF CacheInv
  <1>3. CASE Cache!Unstored(f)
    <2>1. fetch[f].reply \in Answer /\ fetch[f].reply.of \in Nat /\ fetch[f].reply.of # None
      BY <1>0, <1>3 DEF Cache!Unstored, Cache!Read, GoodFetch, Answer
    <2>2. fetch' \in [Fetchers -> GoodFetch]
      BY <1>3, <2>1, ReturnedGood DEF Cache!Unstored
    <2>3. disk' \in [Keys -> Entry \cup {None}]
      BY <1>3 DEF CacheInv, Cache!Unstored
    <2> QED
      BY <1>1, <2>2, <2>3 DEF CacheInv
  <1>4. CASE Cache!Rename(f)
    <2> DEFINE r == [fetch[f] EXCEPT !.pc = "sweeping", !.look = Keys, !.key = None, !.at = 0]
               entry == [body |-> fetch[f].reply.of, at |-> fetch[f].at]
    <2>1. /\ fetch[f].reply \in Answer /\ fetch[f].key \in Keys
          /\ fetch[f].reply.of \in Nat /\ fetch[f].reply.of # None
      BY <1>0, <1>4 DEF Cache!Rename, Cache!Read, GoodFetch, Answer
    <2>2. entry \in Entry
      BY <1>0, <2>1 DEF Fetch, Entry
    <2>3. disk' = [disk EXCEPT ![fetch[f].key] = entry] /\ fetch' = [fetch EXCEPT ![f] = r]
      BY <1>4 DEF Cache!Rename
    <2>4. r \in Fetch
      BY <1>0 DEF Fetch
    <2>5. r.pc = "sweeping" /\ r.reply = fetch[f].reply
      BY <1>0 DEF Fetch
    <2>6. r \in GoodFetch
      BY <2>1, <2>4, <2>5 DEF GoodFetch
    <2> HIDE DEF r, entry
    <2> QED
      BY <1>1, <2>1, <2>2, <2>3, <2>6 DEF CacheInv
  <1> QED
    BY <1>2, <1>3, <1>4

\* What is left to evict.
LEMMA EvictingGood ==
    ASSUME CacheInv, NEW f \in Fetchers, fetch[f].pc \in {"sweeping", "evicting"},
           NEW victims \in SUBSET Keys, Cache!Evicting(f, victims)
    PROVE  fetch' \in [Fetchers -> GoodFetch]
  <1>0. /\ fetch[f] \in GoodFetch /\ fetch[f] \in Fetch /\ fetch[f].reply \in Answer
        /\ fetch[f].reply.of \in Nat /\ fetch[f].reply.of # None
    BY DEF CacheInv, GoodFetch, Answer
  <1>1. CASE victims = {}
    BY <1>0, <1>1, ReturnedGood DEF Cache!Evicting
  <1>2. CASE victims # {}
    <2> DEFINE r == [fetch[f] EXCEPT !.pc = "evicting", !.seen = {}, !.victims = victims]
    <2>1. fetch' = [fetch EXCEPT ![f] = r]
      BY <1>2 DEF Cache!Evicting
    <2>2. r \in Fetch /\ r.pc = "evicting" /\ r.reply = fetch[f].reply
      BY <1>0 DEF Fetch
    <2>3. r \in GoodFetch
      BY <1>0, <2>2 DEF GoodFetch
    <2> QED
      BY <2>1, <2>3 DEF CacheInv
  <1> QED
    BY <1>1, <1>2

\* A fetch that sweeps the directory.
LEMMA SweepStep ==
    ASSUME CacheInv, NEW f \in Fetchers,
           (\E k \in Keys : Cache!Look(f, k) \/ Cache!Evict(f, k)) \/ Cache!Choose(f)
    PROVE  CacheInv'
  <1>0. fetch[f] \in GoodFetch /\ fetch[f] \in Fetch
    BY DEF CacheInv, GoodFetch
  <1>1. UNCHANGED <<origin, cacheNow>>
    BY DEF Cache!Look, Cache!Evict, Cache!Choose
  <1>2. ASSUME NEW k \in Keys, Cache!Look(f, k) PROVE CacheInv'
    <2> DEFINE seen == IF disk[k] = None THEN fetch[f].seen
                       ELSE fetch[f].seen \cup {[key |-> k, at |-> disk[k].at]}
               r == [fetch[f] EXCEPT !.look = @ \ {k}, !.seen = seen]
    <2>1. fetch[f].pc = "sweeping" /\ UNCHANGED disk
      BY <1>2 DEF Cache!Look
    <2>2. fetch' = [fetch EXCEPT ![f] = r]
      BY <1>2 DEF Cache!Look
    <2>3. seen \in SUBSET [key : Keys, at : Nat]
      BY <1>0 DEF CacheInv, Entry, Fetch
    <2> HIDE DEF seen
    <2>4. r \in Fetch /\ r.pc = "sweeping" /\ r.reply = fetch[f].reply
      BY <1>0, <2>1, <2>3 DEF Fetch
    <2>5. r \in GoodFetch
      BY <1>0, <2>1, <2>4 DEF GoodFetch
    <2> QED
      BY <1>1, <2>1, <2>2, <2>5 DEF CacheInv
  <1>3. ASSUME NEW k \in Keys, Cache!Evict(f, k) PROVE CacheInv'
    <2>1. fetch[f].victims \ {k} \in SUBSET Keys
      BY <1>0 DEF Fetch
    <2>2. fetch' \in [Fetchers -> GoodFetch]
      BY <1>3, <2>1, EvictingGood DEF Cache!Evict
    <2>3. disk' \in [Keys -> Entry \cup {None}]
      BY <1>3 DEF CacheInv, Cache!Evict
    <2> QED
      BY <1>1, <2>2, <2>3 DEF CacheInv
  <1>4. CASE Cache!Choose(f)
    <2>1. PICK gone \in Cache!Oldest(fetch[f].seen, Cache!Excess(fetch[f].seen)) :
            Cache!Evicting(f, {g.key : g \in gone})
      BY <1>4 DEF Cache!Choose
    <2>2. gone \in SUBSET [key : Keys, at : Nat]
      BY <1>0, <2>1 DEF Cache!Oldest, Fetch
    <2>3. {g.key : g \in gone} \in SUBSET Keys
      BY <2>2
    <2>4. fetch' \in [Fetchers -> GoodFetch]
      BY <1>4, <2>1, <2>3, EvictingGood DEF Cache!Choose
    <2> QED
      BY <1>1, <1>4, <2>4 DEF CacheInv, Cache!Choose
  <1> QED
    BY <1>2, <1>3, <1>4

\* Every step of the cache keeps its fetches good.
LEMMA CacheStep == CacheInv /\ [Cache!Next]_(Cache!vars) => CacheInv'
  <1> SUFFICES ASSUME CacheInv, [Cache!Next]_(Cache!vars) PROVE CacheInv'
    OBVIOUS
  <1>1. ASSUME NEW f \in Fetchers, NEW k \in Keys,
               Cache!Begin(f, k) \/ Cache!Look(f, k) \/ Cache!Evict(f, k)
        PROVE  CacheInv'
    BY <1>1, AskStep, SweepStep
  <1>2. ASSUME NEW f \in Fetchers,
               \/ Cache!Reply(f) \/ Cache!ReplyUnasked(f) \/ Cache!Redirect(f)
               \/ Cache!NotModified(f) \/ Cache!Headers(f)
        PROVE  CacheInv'
    BY <1>2, AskStep
  <1>3. ASSUME NEW f \in Fetchers,
               Cache!Fail(f) \/ Cache!TooLarge(f) \/ Cache!Rename(f) \/ Cache!Unstored(f)
        PROVE  CacheInv'
    BY <1>3, StoreStep
  <1>4. ASSUME NEW f \in Fetchers, Cache!Choose(f) PROVE CacheInv'
    BY <1>4, SweepStep
  <1>5. ASSUME NEW k \in Keys, Cache!Update(k) PROVE CacheInv'
    BY <1>5 DEF CacheInv, Cache!Update
  <1>6. CASE Cache!Tick
    BY <1>6 DEF CacheInv, Cache!Tick
  <1>7. CASE Cache!Die
    BY <1>7, UnstartedGood DEF CacheInv, Cache!Die
  <1>8. CASE UNCHANGED Cache!vars
    BY <1>8 DEF CacheInv, Cache!vars
  <1> QED
    BY <1>1, <1>2, <1>3, <1>4, <1>5, <1>6, <1>7, <1>8 DEF Cache!Next

\* Whatever other fetches file, drop or evict meanwhile, and wherever the daemon dies, a
\* page a fetch returns is the origin's answer to it, or, where the origin said unasked
\* that it is unchanged, the copy without a validator that it began from (cache.rs).
THEOREM BodiesHold == Cache!Spec => []BodiesAreTheOrigins
  BY CacheInit, CacheStep, CacheEnough, PTL DEF Cache!Spec

-----------------------------------------------------------------------------
(* The cache's cap.  A store that still sweeps will take the directory back *)
(* to the cap, but for documents filed where it has already looked; each of *)
(* those is another store's, which sweeps in turn.  Which of two stores saw *)
(* the other's document depends on which filed last, so the invariant is of *)
(* every set of stores: one of the set was there last, and what it will     *)
(* miss belongs to stores outside the set.                                  *)

Filed == {k \in Keys : disk[k] # None}

\* What the store in hand of f will leave filed is the cap and n more, at most.
Spares(f, n) ==
    IF fetch[f].pc = "sweeping"
      THEN Cardinality(Filed \ (fetch[f].look \cup {s.key : s \in fetch[f].seen})) <= n
      ELSE Cardinality(Filed \ fetch[f].victims) <= MaxEntries + n

\* The stores of `these`, left to themselves, bring the directory to the cap and n more.
Enough(these, n) ==
    Cardinality(Filed) <= MaxEntries + n \/ \E f \in these : Spares(f, n)

CapInv ==
    /\ CacheInv
    /\ unswept \in Nat
    /\ \A f \in Fetchers : IsFiniteSet(fetch[f].seen)
    /\ Cardinality(Filed) <= MaxEntries + Cardinality(Cache!Sweeping) + unswept
    /\ \A these \in SUBSET Cache!Sweeping :
           these # {} => Enough(these, Cardinality(Cache!Sweeping \ these))

\* The cache counts as everybody does.
LEMMA CacheCounts == \A S : Cache!Cardinality(S) = Cardinality(S)
  BY Zenon DEF Cache!Cardinality, Cardinality

LEMMA CapEnough == CapInv => CacheWithinCap
  BY CacheCounts DEF CapInv, CacheWithinCap, Cache!CacheWithinCap, Filed

\* The sets that are counted are finite.
LEMMA CapFinite ==
    /\ IsFiniteSet(Filed) /\ Cardinality(Filed) \in Nat /\ IsFiniteSet(Filed')
    /\ Cardinality(Filed') \in Nat
    /\ IsFiniteSet(Cache!Sweeping) /\ IsFiniteSet(Cache!Sweeping')
    /\ \A T : IsFiniteSet(Filed \ T) /\ Cardinality(Filed \ T) \in Nat
    /\ \A T : IsFiniteSet(Filed' \ T) /\ Cardinality(Filed' \ T) \in Nat
    /\ \A T : IsFiniteSet(Cache!Sweeping \ T) /\ Cardinality(Cache!Sweeping \ T) \in Nat
    /\ \A T : IsFiniteSet(Cache!Sweeping' \ T) /\ Cardinality(Cache!Sweeping' \ T) \in Nat
    /\ MaxEntries \in Nat
  <1>1. /\ Filed \in SUBSET Keys /\ Filed' \in SUBSET Keys
        /\ Cache!Sweeping \in SUBSET Fetchers /\ Cache!Sweeping' \in SUBSET Fetchers
    BY DEF Filed, Cache!Sweeping
  <1>2. /\ IsFiniteSet(Filed) /\ IsFiniteSet(Filed')
        /\ IsFiniteSet(Cache!Sweeping) /\ IsFiniteSet(Cache!Sweeping')
    BY <1>1, FS_Subset, OutboundAssumption
  <1>3. ASSUME NEW S, IsFiniteSet(S), NEW T PROVE IsFiniteSet(S \ T) /\ Cardinality(S \ T) \in Nat
    BY <1>3, FS_Difference, FS_CardinalityType
  <1> QED
    BY <1>2, <1>3, FS_CardinalityType, OutboundAssumption

\* A part of a finite set has no more elements.
LEMMA Fewer ==
    ASSUME NEW S, IsFiniteSet(S), NEW T, T \subseteq S
    PROVE  Cardinality(T) <= Cardinality(S) /\ Cardinality(T) \in Nat /\ Cardinality(S) \in Nat
  BY FS_Subset, FS_CardinalityType

\* Stores that go on: nothing is filed, and each will leave no more than before.
LEMMA StoresGoOn ==
    ASSUME CapInv, CacheInv', UNCHANGED unswept, Filed' \subseteq Filed,
           \A f \in Fetchers : IsFiniteSet(fetch[f].seen)',
           Cache!Sweeping' = Cache!Sweeping,
           \A f \in Cache!Sweeping, n \in Nat : Spares(f, n) => Spares(f, n)'
    PROVE  CapInv'
  <1>1. Cardinality(Filed') <= Cardinality(Filed)
    BY CapFinite, Fewer
  <1>2. Cardinality(Filed') <= MaxEntries + Cardinality(Cache!Sweeping') + unswept'
    <2>1. Cardinality(Cache!Sweeping) \in Nat /\ unswept \in Nat
      BY CapFinite, FS_CardinalityType DEF CapInv
    <2> QED
      BY <1>1, <2>1, CapFinite DEF CapInv
  <1>3. ASSUME NEW these \in SUBSET Cache!Sweeping, these # {}
        PROVE  Enough(these, Cardinality(Cache!Sweeping \ these))'
    <2> DEFINE n == Cardinality(Cache!Sweeping \ these)
    <2>1. n \in Nat
      BY CapFinite
    <2>2. Enough(these, n)
      BY <1>3 DEF CapInv
    <2>3. CASE Cardinality(Filed) <= MaxEntries + n
      <3>1. Cardinality(Filed') <= MaxEntries + n
        BY <1>1, <2>1, <2>3, CapFinite
      <3> QED
        BY <3>1 DEF Enough
    <2>4. ASSUME NEW f \in these, Spares(f, n) PROVE Enough(these, Cardinality(Cache!Sweeping \ these))'
      <3>1. Spares(f, n)'
        BY <2>1, <2>4
      <3> QED
        BY <3>1 DEF Enough
    <2> QED
      BY <2>2, <2>3, <2>4 DEF Enough
  <1> QED
    BY <1>2, <1>3 DEF CapInv

\* A store that has nothing left to evict returns: what is filed is what it spared.
LEMMA StoreReturns ==
    ASSUME CapInv, CacheInv', unswept' = 0, Filed' \subseteq Filed,
           \A f \in Fetchers : IsFiniteSet(fetch[f].seen)',
           NEW e \in Cache!Sweeping, Cache!Sweeping' = Cache!Sweeping \ {e},
           \A f \in Cache!Sweeping \ {e}, n \in Nat : Spares(f, n) => Spares(f, n)',
           \A n \in Nat : Spares(e, n) => Cardinality(Filed') <= MaxEntries + n
    PROVE  CapInv'
  <1>1. Cardinality(Filed') <= Cardinality(Filed)
    BY CapFinite, Fewer
  <1>2. ASSUME NEW these \in SUBSET Cache!Sweeping'
        PROVE  Enough(these, Cardinality(Cache!Sweeping \ these))'
    <2> DEFINE all == these \cup {e}
    <2>1. PICK n \in Nat : n = Cardinality(Cache!Sweeping \ all)
      BY CapFinite
    <2>2. Cardinality(Cache!Sweeping' \ these) = n
      <3>1. Cache!Sweeping' \ these = Cache!Sweeping \ all
        OBVIOUS
      <3> QED
        BY <2>1, <3>1
    <2>3. Enough(all, n)
      <3>1. all \in SUBSET Cache!Sweeping /\ all # {}
        OBVIOUS
      <3> QED
        BY <2>1, <3>1 DEF CapInv
    <2>4. CASE Cardinality(Filed) <= MaxEntries + n
      <3>1. Cardinality(Filed') <= MaxEntries + n
        BY <1>1, <2>1, <2>4, CapFinite
      <3> QED
        BY <2>2, <3>1 DEF Enough
    <2>5. CASE Spares(e, n)
      <3>1. Cardinality(Filed') <= MaxEntries + n
        BY <2>1, <2>5
      <3> QED
        BY <2>2, <3>1 DEF Enough
    <2>6. ASSUME NEW f \in these, Spares(f, n)
          PROVE  Enough(these, Cardinality(Cache!Sweeping \ these))'
      <3>1. Spares(f, n)'
        BY <2>1, <2>6
      <3> QED
        BY <2>2, <3>1 DEF Enough
    <2> QED
      BY <2>3, <2>4, <2>5, <2>6 DEF Enough
  <1>3. Cardinality(Filed') <= MaxEntries + Cardinality(Cache!Sweeping') + unswept'
    <2>1. Enough({}, Cardinality(Cache!Sweeping \ {}))'
      BY <1>2
    <2>2. Cache!Sweeping' \ {} = Cache!Sweeping'
      OBVIOUS
    <2>3. Cardinality(Filed') <= MaxEntries + Cardinality(Cache!Sweeping')
      BY <2>1, <2>2 DEF Enough
    <2>4. Cardinality(Cache!Sweeping') \in Nat
      BY CapFinite, FS_CardinalityType
    <2> QED
      BY <2>3, <2>4, CapFinite
  <1> QED
    BY <1>2, <1>3 DEF CapInv

LEMMA CapInit == Cache!Init => CapInv
  <1> SUFFICES ASSUME Cache!Init PROVE CapInv
    OBVIOUS
  <1>1. Filed = {} /\ Cache!Sweeping = {} /\ unswept = 0
    BY DEF Cache!Init, Filed, Cache!Sweeping, Cache!Unstarted
  <1>2. \A f \in Fetchers : fetch[f].seen = {}
    BY DEF Cache!Init, Cache!Unstarted
  <1> QED
    BY <1>1, <1>2, CacheInit, FS_EmptySet, CapFinite DEF CapInv

\* What concerns a sweep is in four fields of a fetch.
LEMMA SparesAsBefore ==
    ASSUME NEW f \in Fetchers, Filed' \subseteq Filed, fetch'[f].pc = fetch[f].pc,
           fetch'[f].look = fetch[f].look, fetch'[f].seen = fetch[f].seen,
           fetch'[f].victims = fetch[f].victims, NEW n \in Nat, Spares(f, n)
    PROVE  Spares(f, n)'
  <1> DEFINE known == fetch[f].look \cup {s.key : s \in fetch[f].seen}
  <1>1. /\ Cardinality(Filed' \ known) <= Cardinality(Filed \ known)
        /\ Cardinality(Filed' \ fetch[f].victims) <= Cardinality(Filed \ fetch[f].victims)
        /\ Cardinality(Filed' \ known) \in Nat /\ Cardinality(Filed \ known) \in Nat
        /\ Cardinality(Filed' \ fetch[f].victims) \in Nat
        /\ Cardinality(Filed \ fetch[f].victims) \in Nat
    <2>1. /\ Filed' \ known \subseteq Filed \ known
          /\ Filed' \ fetch[f].victims \subseteq Filed \ fetch[f].victims
      OBVIOUS
    <2> QED
      BY <2>1, CapFinite, Fewer
  <1>2. CASE fetch[f].pc = "sweeping"
    <2>1. Cardinality(Filed \ known) <= n
      BY <1>2 DEF Spares
    <2>2. Cardinality(Filed' \ known) <= n
      BY <1>1, <2>1, CapFinite
    <2> QED
      BY <1>2, <2>2 DEF Spares
  <1>3. CASE fetch[f].pc # "sweeping"
    <2>1. Cardinality(Filed \ fetch[f].victims) <= MaxEntries + n
      BY <1>3 DEF Spares
    <2>2. Cardinality(Filed' \ fetch[f].victims) <= MaxEntries + n
      BY <1>1, <2>1, CapFinite
    <2> QED
      BY <1>3, <2>2 DEF Spares
  <1> QED
    BY <1>2, <1>3

\* A step of a fetch that is not sweeping, before it or after it: nothing is filed.
LEMMA CapBeside ==
    ASSUME CapInv, CacheInv', UNCHANGED unswept, Filed' \subseteq Filed,
           NEW e \in Fetchers, NEW r, fetch' = [fetch EXCEPT ![e] = r], IsFiniteSet(r.seen),
           fetch[e].pc \notin {"sweeping", "evicting"}, r.pc \notin {"sweeping", "evicting"}
    PROVE  CapInv'
  <1>1. fetch'[e] = r /\ \A f \in Fetchers \ {e} : fetch'[f] = fetch[f]
    BY DEF CapInv, CacheInv
  <1>2. Cache!Sweeping' = Cache!Sweeping
    BY <1>1 DEF Cache!Sweeping
  <1>3. \A f \in Fetchers : IsFiniteSet(fetch[f].seen)'
    BY <1>1 DEF CapInv
  <1>4. \A f \in Cache!Sweeping, n \in Nat : Spares(f, n) => Spares(f, n)'
    <2> SUFFICES ASSUME NEW f \in Cache!Sweeping, NEW n \in Nat, Spares(f, n) PROVE Spares(f, n)'
      OBVIOUS
    <2>1. f \in Fetchers /\ fetch'[f] = fetch[f]
      BY <1>1 DEF Cache!Sweeping
    <2> QED
      BY <2>1, SparesAsBefore
  <1> QED
    BY <1>2, <1>3, <1>4, StoresGoOn

\* A document is filed, and its store begins to sweep.
LEMMA CapRename ==
    ASSUME CapInv, CacheInv', NEW e \in Fetchers, Cache!Rename(e)
    PROVE  CapInv'
  <1> DEFINE r == [fetch[e] EXCEPT !.pc = "sweeping", !.look = Keys, !.key = None, !.at = 0]
             k == fetch[e].key
             entry == [body |-> fetch[e].reply.of, at |-> fetch[e].at]
  <1>0. fetch[e] \in Fetch /\ fetch[e].pc = "reading" /\ k \in Keys
    BY DEF CapInv, CacheInv, GoodFetch, Cache!Rename, Cache!Read
  <1>1. /\ fetch' = [fetch EXCEPT ![e] = r] /\ UNCHANGED unswept
        /\ disk' = [disk EXCEPT ![k] = entry]
    BY DEF Cache!Rename
  <1>2. fetch'[e] = r /\ \A f \in Fetchers \ {e} : fetch'[f] = fetch[f]
    BY <1>1 DEF CapInv, CacheInv
  <1>3. r.pc = "sweeping" /\ r.look = Keys /\ r.seen = fetch[e].seen
    BY <1>0 DEF Fetch
  <1>4. e \notin Cache!Sweeping /\ Cache!Sweeping' = Cache!Sweeping \cup {e}
    BY <1>0, <1>2, <1>3 DEF Cache!Sweeping
  <1>5. Filed' \subseteq Filed \cup {k}
    BY <1>0, <1>1 DEF CapInv, CacheInv, Filed
  <1>6. \A T : Cardinality(Filed' \ T) <= Cardinality(Filed \ T) + 1
    <2> TAKE T
    <2>1. Filed' \ T \subseteq (Filed \ T) \cup {k}
      BY <1>5
    <2>2. IsFiniteSet((Filed \ T) \cup {k}) /\ Cardinality((Filed \ T) \cup {k}) <= Cardinality(Filed \ T) + 1
      <3>1. IsFiniteSet(Filed \ T) /\ Cardinality(Filed \ T) \in Nat
        BY CapFinite
      <3>2. /\ IsFiniteSet((Filed \ T) \cup {k})
            /\ Cardinality((Filed \ T) \cup {k}) =
                   IF k \in Filed \ T THEN Cardinality(Filed \ T) ELSE Cardinality(Filed \ T) + 1
        BY <3>1, FS_AddElement
      <3> QED
        BY <3>1, <3>2
    <2>3. /\ Cardinality(Filed' \ T) <= Cardinality((Filed \ T) \cup {k})
          /\ Cardinality((Filed \ T) \cup {k}) \in Nat
      BY <2>1, <2>2, Fewer
    <2> QED
      BY <2>2, <2>3, CapFinite
  <1>7. Cardinality(Filed') <= Cardinality(Filed) + 1
    <2>1. Filed' \ {} = Filed' /\ Filed \ {} = Filed
      OBVIOUS
    <2> QED
      BY <1>6, <2>1
  <1>8. Cardinality(Filed') <= MaxEntries + Cardinality(Cache!Sweeping') + unswept'
    <2>1. Cardinality(Cache!Sweeping') = Cardinality(Cache!Sweeping) + 1
      BY <1>4, CapFinite, FS_AddElement
    <2>2. Cardinality(Cache!Sweeping) \in Nat /\ unswept \in Nat
      BY CapFinite, FS_CardinalityType DEF CapInv
    <2> QED
      BY <1>1, <1>7, <2>1, <2>2, CapFinite DEF CapInv
  <1>9. ASSUME NEW these \in SUBSET Cache!Sweeping', these # {}
        PROVE  Enough(these, Cardinality(Cache!Sweeping \ these))'
    <2>1. CASE e \in these
      <3>1. PICK n \in Nat : n = Cardinality(Cache!Sweeping' \ these)
        BY CapFinite
      <3>2. Filed' \ (r.look \cup {s.key : s \in r.seen}) = {}
        BY <1>3 DEF Filed
      <3>3. Cardinality(Filed' \ (fetch'[e].look \cup {s.key : s \in fetch'[e].seen})) <= n
        BY <1>2, <3>2, FS_EmptySet
      <3>4. Spares(e, n)'
        BY <1>2, <1>3, <3>3 DEF Spares
      <3> QED
        BY <2>1, <3>1, <3>4 DEF Enough
    <2>2. CASE e \notin these
      <3>1. PICK n \in Nat : n = Cardinality(Cache!Sweeping \ these)
        BY CapFinite
      <3>2. Cardinality(Cache!Sweeping' \ these) = n + 1
        <4>1. /\ Cache!Sweeping' \ these = (Cache!Sweeping \ these) \cup {e}
              /\ e \notin Cache!Sweeping \ these
          BY <1>4, <2>2
        <4> QED
          BY <3>1, <4>1, CapFinite, FS_AddElement
      <3>3. these \in SUBSET Cache!Sweeping
        BY <1>4, <2>2
      <3>4. Enough(these, n)
        BY <1>9, <3>1, <3>3 DEF CapInv
      <3>5. CASE Cardinality(Filed) <= MaxEntries + n
        <4>1. Cardinality(Filed') <= MaxEntries + (n + 1)
          BY <1>7, <3>5, CapFinite
        <4> QED
          BY <3>2, <4>1 DEF Enough
      <3>6. ASSUME NEW f \in these, Spares(f, n)
            PROVE  Enough(these, Cardinality(Cache!Sweeping \ these))'
        <4>1. f \in Fetchers /\ fetch'[f] = fetch[f]
          BY <1>2, <2>2, <3>3 DEF Cache!Sweeping
        <4>2. PICK known : known = fetch[f].look \cup {s.key : s \in fetch[f].seen}
          OBVIOUS
        <4>3. PICK victims : victims = fetch[f].victims
          OBVIOUS
        <4>4. CASE fetch[f].pc = "sweeping"
          <5>1. Cardinality(Filed \ known) <= n
            BY <3>6, <4>2, <4>4 DEF Spares
          <5>2. /\ Cardinality(Filed \ known) \in Nat /\ Cardinality(Filed' \ known) \in Nat
                /\ MaxEntries \in Nat
            BY CapFinite
          <5> Cardinality(Filed' \ known) <= Cardinality(Filed \ known) + 1
            BY <1>6
          <5>3. Cardinality(Filed' \ known) <= n + 1
            BY <5>1, <5>2
          <5> QED
            BY <3>2, <4>1, <4>2, <4>4, <5>3 DEF Spares, Enough
        <4>5. CASE fetch[f].pc # "sweeping"
          <5>1. Cardinality(Filed \ victims) <= MaxEntries + n
            BY <3>6, <4>3, <4>5 DEF Spares
          <5>2. /\ Cardinality(Filed \ victims) \in Nat /\ Cardinality(Filed' \ victims) \in Nat
                /\ MaxEntries \in Nat
            BY CapFinite
          <5> Cardinality(Filed' \ victims) <= Cardinality(Filed \ victims) + 1
            BY <1>6
          <5>3. Cardinality(Filed' \ victims) <= MaxEntries + (n + 1)
            BY <5>1, <5>2
          <5> QED
            BY <3>2, <4>1, <4>3, <4>5, <5>3 DEF Spares, Enough
        <4> QED
          BY <4>4, <4>5
      <3> QED
        BY <3>4, <3>5, <3>6 DEF Enough
    <2> QED
      BY <2>1, <2>2
  <1>10. \A f \in Fetchers : IsFiniteSet(fetch'[f].seen)
    BY <1>2, <1>3 DEF CapInv
  <1> QED
    BY <1>1, <1>8, <1>9, <1>10 DEF CapInv

\* A sweep notes a document, or finds none: it knows of no fewer of those filed.
LEMMA CapLook ==
    ASSUME CapInv, CacheInv', NEW e \in Fetchers, NEW k \in Keys, Cache!Look(e, k)
    PROVE  CapInv'
  <1> DEFINE seen == IF disk[k] = None THEN fetch[e].seen
                     ELSE fetch[e].seen \cup {[key |-> k, at |-> disk[k].at]}
             r == [fetch[e] EXCEPT !.look = @ \ {k}, !.seen = seen]
  <1>0. fetch[e] \in Fetch /\ fetch[e].pc = "sweeping"
    BY DEF CapInv, CacheInv, GoodFetch, Cache!Look
  <1>1. fetch' = [fetch EXCEPT ![e] = r] /\ UNCHANGED <<unswept, disk>>
    BY DEF Cache!Look
  <1>2. fetch'[e] = r /\ \A f \in Fetchers \ {e} : fetch'[f] = fetch[f]
    BY <1>1 DEF CapInv, CacheInv
  <1>3. r.pc = "sweeping" /\ r.look = fetch[e].look \ {k} /\ r.seen = seen
    BY <1>0 DEF Fetch
  <1>4. Filed' = Filed
    BY <1>1 DEF Filed
  <1>5. IsFiniteSet(seen)
    BY FS_AddElement DEF CapInv
  <1>6. Filed \ (r.look \cup {s.key : s \in r.seen})
          \subseteq Filed \ (fetch[e].look \cup {s.key : s \in fetch[e].seen})
    <2> SUFFICES ASSUME NEW x \in Filed, x \notin r.look, x \notin {s.key : s \in r.seen}
                 PROVE  x \notin fetch[e].look /\ x \notin {s.key : s \in fetch[e].seen}
      OBVIOUS
    <2>1. fetch[e].seen \subseteq seen
      OBVIOUS
    <2>2. x # k
      <3>1. SUFFICES ASSUME x = k PROVE FALSE
        OBVIOUS
      <3>2. [key |-> k, at |-> disk[k].at] \in seen
        BY <3>1 DEF Filed
      <3> QED
        BY <1>3, <3>1, <3>2
    <2> QED
      BY <1>3, <2>1, <2>2
  <1> HIDE DEF r, seen
  <1>7. Cache!Sweeping' = Cache!Sweeping
    BY <1>0, <1>2, <1>3 DEF Cache!Sweeping
  <1>8. \A f \in Fetchers : IsFiniteSet(fetch[f].seen)'
    BY <1>2, <1>3, <1>5 DEF CapInv
  <1>9. ASSUME NEW f \in Cache!Sweeping, NEW n \in Nat, Spares(f, n) PROVE Spares(f, n)'
    <2>1. f \in Fetchers
      BY DEF Cache!Sweeping
    <2>2. CASE f # e
      BY <1>2, <1>4, <1>9, <2>1, <2>2, SparesAsBefore
    <2>3. CASE f = e
      <3> DEFINE before == fetch[e].look \cup {s.key : s \in fetch[e].seen}
                 after == r.look \cup {s.key : s \in r.seen}
      <3>1. Cardinality(Filed \ before) <= n
        BY <1>0, <1>9, <2>3 DEF Spares
      <3>2. /\ Cardinality(Filed \ after) <= Cardinality(Filed \ before)
            /\ Cardinality(Filed \ after) \in Nat /\ Cardinality(Filed \ before) \in Nat
        BY <1>6, CapFinite, Fewer
      <3>3. Cardinality(Filed \ after) <= n
        BY <3>1, <3>2
      <3> QED
        BY <1>2, <1>3, <1>4, <2>3, <3>3 DEF Spares
    <2> QED
      BY <2>2, <2>3
  <1> QED
    BY <1>1, <1>4, <1>7, <1>8, <1>9, StoresGoOn

\* The store in hand of e goes on to evict, or has nothing to evict and returns; either
\* way it leaves what is filed and not a victim.
LEMMA CapEvicting ==
    ASSUME CapInv, CacheInv', NEW e \in Cache!Sweeping, NEW victims \in SUBSET Keys,
           Cache!Evicting(e, victims), Filed' \subseteq Filed,
           \A n \in Nat : Spares(e, n) => Cardinality(Filed' \ victims) <= MaxEntries + n
    PROVE  CapInv'
  <1>0. e \in Fetchers /\ fetch[e] \in Fetch
    BY DEF CapInv, CacheInv, GoodFetch, Cache!Sweeping
  <1>1. CASE victims # {}
    <2> DEFINE r == [fetch[e] EXCEPT !.pc = "evicting", !.seen = {}, !.victims = victims]
    <2>1. fetch' = [fetch EXCEPT ![e] = r] /\ UNCHANGED unswept
      BY <1>1 DEF Cache!Evicting
    <2>2. fetch'[e] = r /\ \A f \in Fetchers \ {e} : fetch'[f] = fetch[f]
      BY <1>0, <2>1 DEF CapInv, CacheInv
    <2>3. r.pc = "evicting" /\ r.seen = {} /\ r.victims = victims
      BY <1>0 DEF Fetch
    <2> HIDE DEF r
    <2>4. Cache!Sweeping' = Cache!Sweeping
      BY <1>0, <2>2, <2>3 DEF Cache!Sweeping
    <2>5. \A f \in Fetchers : IsFiniteSet(fetch[f].seen)'
      BY <2>2, <2>3, FS_EmptySet DEF CapInv
    <2>6. ASSUME NEW f \in Cache!Sweeping, NEW n \in Nat, Spares(f, n) PROVE Spares(f, n)'
      <3>1. f \in Fetchers
        BY DEF Cache!Sweeping
      <3>2. CASE f # e
        BY <2>2, <2>6, <3>1, <3>2, SparesAsBefore
      <3>3. CASE f = e
        BY <2>2, <2>3, <2>6, <3>3 DEF Spares
      <3> QED
        BY <3>2, <3>3
    <2> QED
      BY <2>1, <2>4, <2>5, <2>6, StoresGoOn
  <1>2. CASE victims = {}
    <2> DEFINE r == [Cache!Unstarted EXCEPT !.pc = "done", !.began = fetch[e].began,
                                            !.told = fetch[e].reply.of, !.body = fetch[e].reply.of]
    <2>1. fetch' = [fetch EXCEPT ![e] = r] /\ unswept' = 0
      BY <1>2 DEF Cache!Evicting, Cache!Returned
    <2>2. fetch'[e] = r /\ \A f \in Fetchers \ {e} : fetch'[f] = fetch[f]
      BY <1>0, <2>1 DEF CapInv, CacheInv
    <2>3. r.pc = "done" /\ r.seen = {}
      BY DEF Cache!Unstarted
    <2> HIDE DEF r
    <2>4. Cache!Sweeping' = Cache!Sweeping \ {e}
      BY <1>0, <2>2, <2>3 DEF Cache!Sweeping
    <2>5. \A f \in Fetchers : IsFiniteSet(fetch[f].seen)'
      BY <2>2, <2>3, FS_EmptySet DEF CapInv
    <2>6. ASSUME NEW f \in Cache!Sweeping \ {e}, NEW n \in Nat, Spares(f, n) PROVE Spares(f, n)'
      <3>1. f \in Fetchers
        BY DEF Cache!Sweeping
      <3> QED
        BY <2>2, <2>6, <3>1, SparesAsBefore
    <2>7. \A n \in Nat : Spares(e, n) => Cardinality(Filed') <= MaxEntries + n
      <3>1. Filed' \ victims = Filed'
        BY <1>2
      <3> QED
        BY <3>1
    <2> QED
      BY <2>1, <2>4, <2>5, <2>6, <2>7, StoreReturns
  <1> QED
    BY <1>1, <1>2

\* Notes name no more keys than there are notes.
LEMMA NotedKeys ==
    ASSUME NEW S, IsFiniteSet(S)
    PROVE  IsFiniteSet({g.key : g \in S}) /\ Cardinality({g.key : g \in S}) <= Cardinality(S)
  <1> DEFINE T == {g.key : g \in S}
             m == [g \in S |-> g.key]
  <1>1. m \in Surjection(S, T)
    BY DEF Surjection
  <1> QED
    BY <1>1, FS_Surjection

\* The oldest of what was seen are too many by no more than the cap.
LEMMA CapChoose ==
    ASSUME CapInv, CacheInv', NEW e \in Fetchers, Cache!Choose(e)
    PROVE  CapInv'
  <1> DEFINE seen == fetch[e].seen
  <1>1. PICK gone \in Cache!Oldest(seen, Cache!Excess(seen)) : Cache!Evicting(e, {g.key : g \in gone})
    BY DEF Cache!Choose
  <1> DEFINE victims == {g.key : g \in gone}
             rest == {g.key : g \in seen \ gone}
             noted == {s.key : s \in seen}
  <1>2. /\ fetch[e] \in Fetch /\ fetch[e].pc = "sweeping" /\ fetch[e].look = {}
        /\ e \in Cache!Sweeping /\ IsFiniteSet(seen) /\ Filed' = Filed
    BY DEF CapInv, CacheInv, GoodFetch, Cache!Choose, Cache!Sweeping, Filed
  <1>3. gone \in SUBSET seen /\ Cardinality(gone) = Cache!Excess(seen)
    BY <1>1, CacheCounts DEF Cache!Oldest
  <1>4. victims \in SUBSET Keys
    BY <1>2, <1>3 DEF Fetch
  <1>5. IsFiniteSet(seen \ gone) /\ Cardinality(seen \ gone) <= MaxEntries
    <2>1. IsFiniteSet(seen \ gone) /\ Cardinality(seen \ gone) = Cardinality(seen) - Cardinality(gone)
      <3>1. seen \cap gone = gone
        BY <1>3
      <3> QED
        BY <1>2, <3>1, FS_Difference
    <2>2. Cardinality(seen) \in Nat /\ MaxEntries \in Nat
      BY <1>2, FS_CardinalityType, OutboundAssumption
    <2>3. Cardinality(gone) = IF Cardinality(seen) <= MaxEntries THEN 0 ELSE Cardinality(seen) - MaxEntries
      BY <1>3, CacheCounts DEF Cache!Excess
    <2> QED
      BY <2>1, <2>2, <2>3
  <1>6. IsFiniteSet(rest) /\ Cardinality(rest) <= MaxEntries /\ Cardinality(rest) \in Nat
    <2>1. IsFiniteSet(rest) /\ Cardinality(rest) <= Cardinality(seen \ gone)
      BY <1>5, NotedKeys
    <2>2. Cardinality(rest) \in Nat /\ Cardinality(seen \ gone) \in Nat /\ MaxEntries \in Nat
      BY <1>5, <2>1, FS_CardinalityType, OutboundAssumption
    <2> QED
      BY <1>5, <2>1, <2>2
  <1>7. Filed \ victims \subseteq (Filed \ noted) \cup rest
    OBVIOUS
  <1> HIDE DEF victims, rest
  <1>8. ASSUME NEW n \in Nat, Spares(e, n) PROVE Cardinality(Filed' \ victims) <= MaxEntries + n
    <2>1. Cardinality(Filed \ noted) <= n
      <3>1. fetch[e].look \cup noted = noted
        BY <1>2
      <3> QED
        BY <1>2, <1>8, <3>1 DEF Spares
    <2>2. IsFiniteSet(Filed \ noted) /\ Cardinality(Filed \ noted) \in Nat /\ MaxEntries \in Nat
      BY CapFinite
    <2> HIDE DEF noted
    <2>3. /\ IsFiniteSet((Filed \ noted) \cup rest)
          /\ Cardinality((Filed \ noted) \cup rest) <= Cardinality(Filed \ noted) + Cardinality(rest)
      <3>1. /\ IsFiniteSet((Filed \ noted) \cup rest)
            /\ Cardinality((Filed \ noted) \cup rest) =
                   Cardinality(Filed \ noted) + Cardinality(rest) - Cardinality((Filed \ noted) \cap rest)
        BY <1>6, <2>2, FS_Union
      <3>2. Cardinality((Filed \ noted) \cap rest) \in Nat
        BY <2>2, FS_Intersection, FS_CardinalityType
      <3> QED
        BY <1>6, <2>2, <3>1, <3>2
    <2>4. /\ Cardinality(Filed \ victims) <= Cardinality((Filed \ noted) \cup rest)
          /\ Cardinality(Filed \ victims) \in Nat /\ Cardinality((Filed \ noted) \cup rest) \in Nat
      BY <1>7, <2>3, Fewer
    <2>5. Cardinality(Filed \ victims) <= MaxEntries + n
      BY <1>6, <2>1, <2>2, <2>3, <2>4
    <2> QED
      BY <1>2, <2>5
  <1>9. Cache!Evicting(e, victims)
    BY <1>1 DEF victims
  <1> QED
    BY <1>2, <1>4, <1>8, <1>9, CapEvicting

\* A victim goes: it is neither filed nor left to evict.
LEMMA CapEvict ==
    ASSUME CapInv, CacheInv', NEW e \in Fetchers, NEW k \in Keys, Cache!Evict(e, k)
    PROVE  CapInv'
  <1>1. fetch[e] \in Fetch /\ fetch[e].pc = "evicting" /\ e \in Cache!Sweeping
    BY DEF CapInv, CacheInv, GoodFetch, Cache!Evict, Cache!Sweeping
  <1>2. Filed' = Filed \ {k}
    BY DEF Cache!Evict, CapInv, CacheInv, Filed
  <1>3. fetch[e].victims \ {k} \in SUBSET Keys /\ Cache!Evicting(e, fetch[e].victims \ {k})
    BY <1>1 DEF Fetch, Cache!Evict
  <1>4. ASSUME NEW n \in Nat, Spares(e, n)
        PROVE  Cardinality(Filed' \ (fetch[e].victims \ {k})) <= MaxEntries + n
    <2>1. Cardinality(Filed \ fetch[e].victims) <= MaxEntries + n
      BY <1>1, <1>4 DEF Spares
    <2>2. Filed' \ (fetch[e].victims \ {k}) \subseteq Filed \ fetch[e].victims
      BY <1>2
    <2>3. /\ Cardinality(Filed' \ (fetch[e].victims \ {k})) <= Cardinality(Filed \ fetch[e].victims)
          /\ Cardinality(Filed' \ (fetch[e].victims \ {k})) \in Nat
          /\ Cardinality(Filed \ fetch[e].victims) \in Nat
      BY <2>2, CapFinite, Fewer
    <2> QED
      BY <2>1, <2>3, OutboundAssumption
  <1> QED
    BY <1>1, <1>2, <1>3, <1>4, CapEvicting

\* What the dead leave unswept is counted.
LEMMA CapDie ==
    ASSUME CapInv, CacheInv', Cache!Die
    PROVE  CapInv'
  <1>1. Filed' = Filed /\ unswept' = unswept + Cardinality(Cache!Sweeping)
    BY CacheCounts DEF Cache!Die, Filed
  <1>2. Cache!Sweeping' = {}
    BY DEF Cache!Die, Cache!Sweeping, Cache!Unstarted
  <1>3. \A f \in Fetchers : IsFiniteSet(fetch'[f].seen)
    BY FS_EmptySet DEF Cache!Die, Cache!Unstarted, CapInv
  <1>4. Cardinality(Cache!Sweeping) \in Nat /\ unswept \in Nat /\ Cardinality({}) = 0
    BY CapFinite, FS_CardinalityType, FS_EmptySet DEF CapInv
  <1>5. Cardinality(Filed') <= MaxEntries + Cardinality(Cache!Sweeping') + unswept'
    BY <1>1, <1>2, <1>4, CapFinite DEF CapInv
  <1>6. \A these \in SUBSET Cache!Sweeping' : these = {}
    BY <1>2
  <1> QED
    BY <1>1, <1>3, <1>4, <1>5, <1>6 DEF CapInv

\* Whatever is under way, and wherever the daemon dies, the documents above the cap are
\* no more than the stores still sweeping or cut off and not yet swept up after
\* (cache.rs, evict_to_cap), although nothing locks the directory.
THEOREM CapHolds == Cache!Spec => []CacheWithinCap
  <1>1. CapInv /\ [Cache!Next]_(Cache!vars) => CapInv'
    <2> SUFFICES ASSUME CapInv, [Cache!Next]_(Cache!vars) PROVE CapInv'
      OBVIOUS
    <2>0. CacheInv'
      BY CacheStep DEF CapInv
    <2>1. ASSUME NEW e \in Fetchers,
                 \/ \E k \in Keys : Cache!Begin(e, k)
                 \/ Cache!Reply(e) \/ Cache!ReplyUnasked(e) \/ Cache!Redirect(e)
                 \/ Cache!NotModified(e) \/ Cache!Headers(e) \/ Cache!Fail(e)
                 \/ Cache!TooLarge(e) \/ Cache!Unstored(e)
          PROVE  CapInv'
      <3>1. PICK r : r = fetch'[e]
        OBVIOUS
      <3>2. fetch[e] \in Fetch /\ IsFiniteSet(fetch[e].seen) /\ fetch \in [Fetchers -> GoodFetch]
        BY DEF CapInv, CacheInv, GoodFetch
      <3>3. /\ fetch' = [fetch EXCEPT ![e] = r] /\ UNCHANGED unswept
            /\ fetch[e].pc \notin {"sweeping", "evicting"} /\ r.pc \notin {"sweeping", "evicting"}
            /\ r.seen = {} \/ r.seen = fetch[e].seen
        <4>1. CASE \E k \in Keys : Cache!Begin(e, k)
          BY <3>1, <3>2, <4>1 DEF Cache!Begin, Cache!Unstarted
        <4>2. CASE Cache!Reply(e) \/ Cache!ReplyUnasked(e)
          BY <3>1, <3>2, <4>2 DEF Cache!Reply, Cache!ReplyUnasked, Fetch
        <4>3. CASE Cache!Redirect(e) \/ Cache!Headers(e)
          BY <3>1, <3>2, <4>3 DEF Cache!Redirect, Cache!Headers, Fetch
        <4>4. CASE Cache!NotModified(e)
          <5>1. fetch[e].pc = "answered" /\ UNCHANGED unswept
            BY <4>4 DEF Cache!NotModified
          <5>2. CASE Cache!Ended(e)
            BY <3>1, <3>2, <5>1, <5>2 DEF Cache!Ended, Cache!Unstarted
          <5>3. CASE Cache!Returned(e, fetch[e].stored.body)
            BY <3>1, <3>2, <5>1, <5>3 DEF Cache!Returned, Cache!Unstarted
          <5>4. fetch[e].hops > 0 \/ ~(fetch[e].hops > 0)
            OBVIOUS
          <5> QED
            BY <4>4, <5>2, <5>3, <5>4 DEF Cache!NotModified
        <4>5. CASE Cache!Fail(e) \/ Cache!TooLarge(e)
          BY <3>1, <3>2, <4>5 DEF Cache!Fail, Cache!TooLarge, Cache!Ended, Cache!Unstarted
        <4>6. CASE Cache!Unstored(e)
          BY <3>1, <3>2, <4>6 DEF Cache!Unstored, Cache!Read, Cache!Returned, Cache!Unstarted
        <4> QED
          BY <2>1, <4>1, <4>2, <4>3, <4>4, <4>5, <4>6
      <3>4. \A k \in Keys : disk'[k] = disk[k] \/ disk'[k] = None
        <4>1. CASE UNCHANGED disk
          BY <4>1
        <4>2. CASE disk' = [disk EXCEPT ![fetch[e].key] = None]
          BY <4>2 DEF CapInv, CacheInv
        <4> QED
          BY <2>1, <4>1, <4>2, Zenon
             DEF Cache!Begin, Cache!Reply, Cache!ReplyUnasked, Cache!Redirect, Cache!NotModified,
                 Cache!Headers, Cache!Fail, Cache!TooLarge, Cache!Unstored
      <3>5. Filed' \subseteq Filed
        BY <3>4 DEF Filed
      <3> QED
        BY <2>0, <3>2, <3>3, <3>5, FS_EmptySet, CapBeside
    <2>2. ASSUME NEW e \in Fetchers, NEW k \in Keys, Cache!Look(e, k) \/ Cache!Evict(e, k)
          PROVE  CapInv'
      BY <2>0, <2>2, CapLook, CapEvict
    <2>3. ASSUME NEW e \in Fetchers, Cache!Rename(e) \/ Cache!Choose(e) PROVE CapInv'
      BY <2>0, <2>3, CapRename, CapChoose
    <2>4. CASE Cache!Die
      BY <2>0, <2>4, CapDie
    <2>5. ASSUME UNCHANGED <<disk, fetch, unswept>> PROVE CapInv'
      BY <2>0, <2>5 DEF CapInv, Filed, Cache!Sweeping, Enough, Spares
    <2>6. ASSUME (\E k \in Keys : Cache!Update(k)) \/ Cache!Tick \/ UNCHANGED Cache!vars
          PROVE  CapInv'
      BY <2>5, <2>6 DEF Cache!Update, Cache!Tick, Cache!vars
    <2> QED
      BY <2>1, <2>2, <2>3, <2>4, <2>6 DEF Cache!Next
  <1> QED
    BY <1>1, CapInit, CapEnough, PTL DEF Cache!Spec

-----------------------------------------------------------------------------
(* HumanPane: the inductive invariant, in parts                            *)

FetchPc == {"climbing", "launching", "opening", "announcing", "waiting", "expired", "dropped",
            "removed", "closing", "refusing", "over"}
Outcome == {"page", "stopped", "failed", "expired", "Solved", "Abandoned"}
Request == [to : Fetches \cup {None}, token : Fetches \cup {None},
            at : {"idle", "take", "send", "done"},
            told : {"WrongToken", "NobodyWaiting", "Unknown", "Delivered", None}]

PaneTyped ==
    /\ panePc \in [Fetches -> FetchPc]
    /\ minted \in SUBSET Fetches
    /\ asked = [f \in Fetches |-> asked[f]]
    /\ paneChan \in [Fetches -> {"Solved", "Abandoned", "closed", None}]
    /\ paneResult \in [Fetches -> Outcome \cup {None}]
    /\ resolved = [f \in Fetches |-> resolved[f]]
    /\ req \in [Requests -> Request]

\* A question is minted when it is registered, is registered once, and waits unanswered.
QuestionsOnce ==
    /\ pending \subseteq minted
    /\ \A f \in Fetches \ minted : paneChan[f] = None
    /\ \A f \in minted : panePc[f] \notin {"climbing", "launching", "opening", "refusing"}
    /\ \A f \in pending : /\ panePc[f] \in {"announcing", "waiting", "expired", "dropped"}
                          /\ paneChan[f] = None

\* A request that took its question out, or was told that its answer was delivered.
Claims(a) == req[a].at = "send" \/ req[a].told = "Delivered"

\* A question is taken by one request, under its own token if under any.
ClaimsApart ==
    /\ \A a \in Requests : Claims(a) =>
           /\ req[a].to \in minted \ pending
           /\ req[a].token \in {None, req[a].to}
    /\ \A a \in Requests : req[a].at = "take" =>
           /\ req[a].to \in minted
           /\ req[a].to \in pending => req[a].token \in {None, req[a].to}
    /\ \A a, b \in Requests : (Claims(a) /\ Claims(b) /\ req[a].to = req[b].to) => a = b

\* What is in the channel is the answer told "delivered", and a fetch ends with what
\* was in its channel.
Heard ==
    /\ \A a \in Requests : req[a].at = "send" => paneChan[req[a].to] = None
    /\ \A a \in Requests : req[a].told = "Delivered" => /\ req[a].at = "done"
                                                        /\ paneChan[req[a].to] = Says[a]
    /\ \A f \in Fetches : paneChan[f] \in Pane!Answers =>
           \E a \in Requests : /\ req[a].to = f /\ req[a].told = "Delivered"
                               /\ Says[a] = paneChan[f] /\ req[a].token \in {None, f}
    /\ \A f \in Fetches : panePc[f] = "over" =>
           /\ paneResult[f] \in Pane!Answers => paneResult[f] = paneChan[f]
           /\ paneChan[f] \in Pane!Answers => paneResult[f] \in {paneChan[f], "expired"}
    /\ \A f \in Fetches : panePc[f] # "over" => paneResult[f] = None

\* Where a fetch may still have a screen or a browser.
LeavesNothing ==
    \A f \in Fetches :
        /\ f \in screens => panePc[f] \in {"opening", "announcing", "waiting", "expired", "dropped",
                                           "removed"}
        /\ panePc[f] \in {"climbing", "launching"} => f \notin browsers
        /\ panePc[f] = "over" => (f \in browsers => f \in killing)

\* Who was told of a question, and of how it ended.
ToldOnce ==
    \A f \in Fetches :
        /\ panePc[f] \in {"climbing", "launching", "opening", "announcing", "refusing"} =>
               f \notin announced
        /\ panePc[f] \in {"waiting", "expired", "dropped", "removed", "closing"} =>
               (f \in announced <=> asked[f] \in Reached)
        /\ panePc[f] # "over" => resolved[f] = <<>> /\ f \notin cut
        /\ (panePc[f] = "over" /\ (f \in cut \/ f \notin announced)) => resolved[f] = <<>>
        /\ (panePc[f] = "over" /\ f \in announced /\ f \notin cut) =>
               resolved[f] = <<IF paneResult[f] \in Pane!Answers THEN paneResult[f] ELSE "withdrawn">>

PaneInv == PaneTyped /\ QuestionsOnce /\ ClaimsApart /\ Heard /\ LeavesNothing /\ ToldOnce

LEMMA PaneEnough == PaneInv => AnswerHeard /\ ToldItIsOver
  <1> SUFFICES ASSUME PaneInv PROVE AnswerHeard /\ ToldItIsOver
    OBVIOUS
  <1>1. \A a, b \in Requests :
          (req[a].told = "Delivered" /\ req[b].told = "Delivered" /\ req[a].to = req[b].to) => a = b
    BY DEF PaneInv, ClaimsApart, Claims
  <1>2. \A a \in Requests :
          (req[a].told = "Delivered" /\ panePc[req[a].to] = "over") =>
              paneResult[req[a].to] \in {Says[a], "expired"}
    <2> SUFFICES ASSUME NEW a \in Requests, req[a].told = "Delivered", panePc[req[a].to] = "over"
                 PROVE  paneResult[req[a].to] \in {Says[a], "expired"}
      OBVIOUS
    <2>1. req[a].to \in Fetches
      BY DEF PaneInv, PaneTyped, ClaimsApart, Claims
    <2>2. Says[a] \in Pane!Answers /\ paneChan[req[a].to] = Says[a]
      BY OutboundAssumption DEF PaneInv, Heard, Pane!Answers
    <2> QED
      BY <2>1, <2>2 DEF PaneInv, Heard
  <1>3. \A f \in Fetches : paneResult[f] \in Pane!Answers =>
          \E a \in Requests : /\ req[a].to = f /\ req[a].told = "Delivered"
                              /\ Says[a] = paneResult[f] /\ req[a].token \in {None, f}
    <2> SUFFICES ASSUME NEW f \in Fetches, paneResult[f] \in Pane!Answers
                 PROVE  \E a \in Requests : /\ req[a].to = f /\ req[a].told = "Delivered"
                                            /\ Says[a] = paneResult[f] /\ req[a].token \in {None, f}
      OBVIOUS
    <2>1. panePc[f] = "over"
      BY OutboundAssumption DEF PaneInv, Heard, Pane!Answers
    <2>2. paneChan[f] = paneResult[f]
      BY <2>1 DEF PaneInv, Heard
    <2> QED
      BY <2>2 DEF PaneInv, Heard
  <1>4. AnswerHeard
    BY <1>1, <1>2, <1>3 DEF AnswerHeard, Pane!AnswerHeard
  <1>5. ASSUME NEW f \in Fetches
        PROVE  /\ panePc[f] = "over" =>
                      /\ f \notin pending \cup screens
                      /\ f \in browsers => f \in killing
                      /\ f \in announced => Len(resolved[f]) = IF f \in cut THEN 0 ELSE 1
               /\ resolved[f] # <<>> =>
                      /\ f \in announced
                      /\ Head(resolved[f]) = IF paneResult[f] \in Pane!Answers THEN paneResult[f]
                                             ELSE "withdrawn"
    <2>1. panePc[f] = "over" => f \notin pending \cup screens /\ (f \in browsers => f \in killing)
      BY DEF PaneInv, QuestionsOnce, LeavesNothing
    <2>2. (panePc[f] = "over" /\ f \in announced) => Len(resolved[f]) = IF f \in cut THEN 0 ELSE 1
      <3>1. f \in cut /\ panePc[f] = "over" => resolved[f] = <<>>
        BY DEF PaneInv, ToldOnce
      <3>2. (panePc[f] = "over" /\ f \in announced /\ f \notin cut) => \E x : resolved[f] = <<x>>
        BY DEF PaneInv, ToldOnce
      <3>3. Len(<<>>) = 0 /\ \A x : Len(<<x>>) = 1
        OBVIOUS
      <3> QED
        BY <3>1, <3>2, <3>3
    <2>3. resolved[f] # <<>> =>
            /\ f \in announced
            /\ resolved[f] = <<IF paneResult[f] \in Pane!Answers THEN paneResult[f] ELSE "withdrawn">>
      BY DEF PaneInv, ToldOnce
    <2> QED
      BY <2>1, <2>2, <2>3
  <1>6. ToldItIsOver
    BY <1>5 DEF ToldItIsOver, Pane!ToldItIsOver
  <1> QED
    BY <1>4, <1>6

LEMMA PaneInit == Pane!Init => PaneInv
  <1> SUFFICES ASSUME Pane!Init PROVE PaneInv
    OBVIOUS
  <1>1. PaneTyped
    BY DEF Pane!Init, PaneTyped, FetchPc, Request, Pane!NoRequest
  <1>2. QuestionsOnce /\ ClaimsApart /\ Heard
    BY OutboundAssumption DEF Pane!Init, Pane!NoRequest, QuestionsOnce, ClaimsApart, Claims, Heard,
                              Pane!Answers
  <1>3. LeavesNothing /\ ToldOnce
    BY DEF Pane!Init, LeavesNothing, ToldOnce
  <1> QED
    BY <1>1, <1>2, <1>3 DEF PaneInv

-----------------------------------------------------------------------------
(* HumanPane: the steps                                                    *)

\* The climb ends before the person, or at the person.
LEMMA PaneTryRung ==
    ASSUME PaneInv, NEW f \in Fetches, Pane!TryRung(f)
    PROVE  PaneInv'
  <1>0. /\ panePc[f] = "climbing"
        /\ UNCHANGED <<asked, announced, resolved, cut, pending, minted, screens, browsers, killing, paneChan, req>>
        /\ \/ /\ panePc' = [panePc EXCEPT ![f] = "over"]
              /\ \E how \in {"page", "stopped"} : paneResult' = [paneResult EXCEPT ![f] = how]
           \/ panePc' = [panePc EXCEPT ![f] = "launching"] /\ UNCHANGED paneResult
           \/ UNCHANGED <<panePc, paneResult>>
    BY DEF Pane!TryRung, Pane!End, Pane!Goto, Pane!registry, Pane!host
  <1>1. PaneTyped'
    BY <1>0 DEF PaneInv, PaneTyped, FetchPc, Outcome
  <1>2. QuestionsOnce'
    BY <1>0 DEF PaneInv, QuestionsOnce, PaneTyped
  <1>3. ClaimsApart'
    BY <1>0 DEF PaneInv, ClaimsApart, Claims
  <1>4. Heard'
    BY <1>0 DEF PaneInv, Heard, ClaimsApart, Claims, QuestionsOnce, PaneTyped, Pane!Answers
  <1>5. LeavesNothing' /\ ToldOnce'
    BY <1>0 DEF PaneInv, LeavesNothing, ToldOnce, PaneTyped
  <1> QED
    BY <1>1, <1>2, <1>3, <1>4, <1>5 DEF PaneInv

\* The browser starts, or the fetch is over without one.
LEMMA PaneLaunch ==
    ASSUME PaneInv, NEW f \in Fetches, Pane!Launch(f)
    PROVE  PaneInv'
  <1>0. /\ panePc[f] = "launching"
        /\ UNCHANGED <<asked, announced, resolved, cut, pending, minted, killing, paneChan, req>>
        /\ \/ /\ panePc' = [panePc EXCEPT ![f] = "opening"]
              /\ screens' = screens \cup {f} /\ browsers' = browsers \cup {f}
              /\ UNCHANGED paneResult
           \/ /\ panePc' = [panePc EXCEPT ![f] = "over"]
              /\ \E how \in {"failed", "expired"} : paneResult' = [paneResult EXCEPT ![f] = how]
              /\ UNCHANGED <<screens, browsers>>
    BY DEF Pane!Launch, Pane!End, Pane!Goto, Pane!registry
  <1>1. PaneTyped'
    BY <1>0 DEF PaneInv, PaneTyped, FetchPc, Outcome
  <1>2. QuestionsOnce'
    BY <1>0 DEF PaneInv, QuestionsOnce, PaneTyped
  <1>3. ClaimsApart'
    BY <1>0 DEF PaneInv, ClaimsApart, Claims
  <1>4. Heard'
    BY <1>0 DEF PaneInv, Heard, ClaimsApart, Claims, QuestionsOnce, PaneTyped, Pane!Answers
  <1>5. LeavesNothing' /\ ToldOnce'
    BY <1>0 DEF PaneInv, LeavesNothing, ToldOnce, PaneTyped
  <1> QED
    BY <1>1, <1>2, <1>3, <1>4, <1>5 DEF PaneInv

\* A question is registered once, if its profile has none.
LEMMA PaneOpen ==
    ASSUME PaneInv, NEW f \in Fetches, Pane!Open(f)
    PROVE  PaneInv'
  <1>0. /\ panePc[f] = "opening"
        /\ UNCHANGED <<paneResult, announced, resolved, cut, browsers, killing, paneChan, req>>
        /\ \E o : asked' = [asked EXCEPT ![f] = o]
        /\ \/ /\ panePc' = [panePc EXCEPT ![f] = "refusing"]
              /\ screens' = screens \ {f} /\ UNCHANGED <<pending, minted>>
           \/ /\ panePc' = [panePc EXCEPT ![f] = "announcing"]
              /\ pending' = pending \cup {f} /\ minted' = minted \cup {f} /\ UNCHANGED screens
    BY DEF Pane!Open, Pane!Goto, Pane!registry
  <1>1. PaneTyped'
    BY <1>0 DEF PaneInv, PaneTyped, FetchPc
  <1>2. QuestionsOnce'
    BY <1>0 DEF PaneInv, QuestionsOnce, PaneTyped
  <1>3. ClaimsApart'
    BY <1>0 DEF PaneInv, ClaimsApart, Claims, QuestionsOnce, PaneTyped
  <1>4. Heard'
    BY <1>0 DEF PaneInv, Heard, QuestionsOnce, PaneTyped
  <1>5. LeavesNothing' /\ ToldOnce'
    BY <1>0 DEF PaneInv, LeavesNothing, ToldOnce, PaneTyped
  <1> QED
    BY <1>1, <1>2, <1>3, <1>4, <1>5 DEF PaneInv

\* The operator the rotation chose is told, if there is a way to.
LEMMA PaneAnnounce ==
    ASSUME PaneInv, NEW f \in Fetches, Pane!Announce(f)
    PROVE  PaneInv'
  <1>0. /\ panePc[f] = "announcing" /\ panePc' = [panePc EXCEPT ![f] = "waiting"]
        /\ announced' = IF asked[f] \in Reached THEN announced \cup {f} ELSE announced
        /\ UNCHANGED <<asked, paneResult, resolved, cut, pending, minted, screens, browsers, killing, paneChan, req>>
    BY DEF Pane!Announce, Pane!Goto, Pane!registry, Pane!host
  <1>1. PaneTyped'
    BY <1>0 DEF PaneInv, PaneTyped, FetchPc
  <1>2. QuestionsOnce'
    BY <1>0 DEF PaneInv, QuestionsOnce, PaneTyped
  <1>3. ClaimsApart'
    BY <1>0 DEF PaneInv, ClaimsApart, Claims
  <1>4. Heard'
    BY <1>0 DEF PaneInv, Heard, PaneTyped
  <1>5. LeavesNothing' /\ ToldOnce'
    BY <1>0 DEF PaneInv, LeavesNothing, ToldOnce, PaneTyped
  <1> QED
    BY <1>1, <1>2, <1>3, <1>4, <1>5 DEF PaneInv

\* The wait is over: the question is taken and the screen closed.
LEMMA PaneWake ==
    ASSUME PaneInv, NEW f \in Fetches, Pane!Wake(f)
    PROVE  PaneInv'
  <1>0. /\ panePc[f] = "waiting" /\ panePc' = [panePc EXCEPT ![f] = "closing"]
        /\ pending' = pending \ {f} /\ screens' = screens \ {f}
        /\ UNCHANGED <<asked, paneResult, announced, resolved, cut, minted, browsers, killing, paneChan, req>>
    BY DEF Pane!Wake, Pane!Take, Pane!Goto
  <1>1. PaneTyped'
    BY <1>0 DEF PaneInv, PaneTyped, FetchPc
  <1>2. QuestionsOnce'
    BY <1>0 DEF PaneInv, QuestionsOnce, PaneTyped
  <1>3. ClaimsApart'
    BY <1>0 DEF PaneInv, ClaimsApart, Claims
  <1>4. Heard'
    BY <1>0 DEF PaneInv, Heard, PaneTyped
  <1>5. LeavesNothing' /\ ToldOnce'
    BY <1>0 DEF PaneInv, LeavesNothing, ToldOnce, PaneTyped
  <1> QED
    BY <1>1, <1>2, <1>3, <1>4, <1>5 DEF PaneInv

\* The screen is closed, and the operator told with what the rung gets.
LEMMA PaneClosed ==
    ASSUME PaneInv, NEW f \in Fetches, Pane!Closed(f)
    PROVE  PaneInv'
  <1>0. /\ panePc' = [panePc EXCEPT ![f] = "over"]
        /\ browsers' = IF f \in killing THEN browsers ELSE browsers \ {f}
        /\ UNCHANGED <<asked, announced, cut, pending, minted, screens, killing, paneChan, req>>
        /\ \/ /\ panePc[f] = "closing"
              /\ paneResult' = [paneResult EXCEPT ![f] =
                     IF paneChan[f] \in Pane!Answers THEN paneChan[f] ELSE "failed"]
              /\ resolved' = [resolved EXCEPT ![f] =
                     IF asked[f] \in Reached
                       THEN Append(@, IF paneChan[f] \in Pane!Answers THEN paneChan[f] ELSE "withdrawn")
                       ELSE @]
           \/ /\ panePc[f] = "refusing" /\ UNCHANGED resolved
              /\ paneResult' = [paneResult EXCEPT ![f] = "failed"]
    BY DEF Pane!Closed, Pane!End, Pane!Goto, Pane!Resolved, Pane!registry
  <1>1. PaneTyped'
    BY <1>0 DEF PaneInv, PaneTyped, FetchPc, Outcome, Pane!Answers
  <1>2. QuestionsOnce'
    BY <1>0 DEF PaneInv, QuestionsOnce, PaneTyped
  <1>3. ClaimsApart'
    BY <1>0 DEF PaneInv, ClaimsApart, Claims
  <1>4. Heard'
    BY <1>0, OutboundAssumption DEF PaneInv, Heard, ClaimsApart, Claims, QuestionsOnce, PaneTyped,
                                    Pane!Answers
  <1>5. LeavesNothing'
    BY <1>0 DEF PaneInv, LeavesNothing, PaneTyped
  <1>6. ToldOnce'
    BY <1>0 DEF PaneInv, ToldOnce, PaneTyped, Pane!Answers
  <1> QED
    BY <1>1, <1>2, <1>3, <1>4, <1>5, <1>6 DEF PaneInv

\* Time runs out while the screen closes: nobody is told any more.
LEMMA PaneCutShort ==
    ASSUME PaneInv, NEW f \in Fetches, Pane!CutShort(f)
    PROVE  PaneInv'
  <1>0. /\ panePc[f] \in {"closing", "refusing"} /\ panePc' = [panePc EXCEPT ![f] = "over"]
        /\ paneResult' = [paneResult EXCEPT ![f] = "expired"] /\ cut' = cut \cup {f}
        /\ browsers' = IF f \in killing THEN browsers ELSE browsers \ {f}
        /\ UNCHANGED <<asked, announced, resolved, pending, minted, screens, killing, paneChan, req>>
    BY DEF Pane!CutShort, Pane!End, Pane!Goto, Pane!registry
  <1>1. PaneTyped'
    BY <1>0 DEF PaneInv, PaneTyped, FetchPc, Outcome
  <1>2. QuestionsOnce'
    BY <1>0 DEF PaneInv, QuestionsOnce, PaneTyped
  <1>3. ClaimsApart'
    BY <1>0 DEF PaneInv, ClaimsApart, Claims
  <1>4. Heard'
    BY <1>0 DEF PaneInv, Heard, PaneTyped, Pane!Answers
  <1>5. LeavesNothing' /\ ToldOnce'
    BY <1>0 DEF PaneInv, LeavesNothing, ToldOnce, PaneTyped
  <1> QED
    BY <1>1, <1>2, <1>3, <1>4, <1>5 DEF PaneInv

\* Time runs out while nobody has answered.
LEMMA PaneExpire ==
    ASSUME PaneInv, NEW f \in Fetches, Pane!Expire(f)
    PROVE  PaneInv'
  <1>0. /\ \/ panePc[f] = "waiting" /\ panePc' = [panePc EXCEPT ![f] = "expired"]
           \/ panePc[f] = "expired" /\ panePc' = [panePc EXCEPT ![f] = "dropped"]
        /\ UNCHANGED <<asked, paneResult, announced, resolved, cut, pending, minted, screens, browsers,
                       killing, paneChan, req>>
    BY DEF Pane!Expire, Pane!Goto, Pane!registry, Pane!host
  <1>1. PaneTyped'
    BY <1>0 DEF PaneInv, PaneTyped, FetchPc
  <1>2. QuestionsOnce'
    BY <1>0 DEF PaneInv, QuestionsOnce, PaneTyped
  <1>3. ClaimsApart'
    BY <1>0 DEF PaneInv, ClaimsApart, Claims
  <1>4. Heard'
    BY <1>0 DEF PaneInv, Heard, PaneTyped
  <1>5. LeavesNothing' /\ ToldOnce'
    BY <1>0 DEF PaneInv, LeavesNothing, ToldOnce, PaneTyped
  <1> QED
    BY <1>1, <1>2, <1>3, <1>4, <1>5 DEF PaneInv

\* The guard takes the question ...
LEMMA PaneGuardRemoves ==
    ASSUME PaneInv, NEW f \in Fetches, Pane!GuardRemoves(f)
    PROVE  PaneInv'
  <1>0. /\ panePc[f] = "dropped" /\ panePc' = [panePc EXCEPT ![f] = "removed"]
        /\ pending' = pending \ {f}
        /\ UNCHANGED <<asked, paneResult, announced, resolved, cut, minted, screens, browsers, killing,
                       paneChan, req>>
    BY DEF Pane!GuardRemoves, Pane!Take, Pane!Goto, Pane!host
  <1>1. PaneTyped'
    BY <1>0 DEF PaneInv, PaneTyped, FetchPc
  <1>2. QuestionsOnce'
    BY <1>0 DEF PaneInv, QuestionsOnce, PaneTyped
  <1>3. ClaimsApart'
    BY <1>0 DEF PaneInv, ClaimsApart, Claims
  <1>4. Heard'
    BY <1>0 DEF PaneInv, Heard, PaneTyped
  <1>5. LeavesNothing' /\ ToldOnce'
    BY <1>0 DEF PaneInv, LeavesNothing, ToldOnce, PaneTyped
  <1> QED
    BY <1>1, <1>2, <1>3, <1>4, <1>5 DEF PaneInv

\* ... and the screen, and tells the operator.
LEMMA PaneGuardForgets ==
    ASSUME PaneInv, NEW f \in Fetches, Pane!GuardForgets(f)
    PROVE  PaneInv'
  <1>0. /\ panePc[f] = "removed" /\ panePc' = [panePc EXCEPT ![f] = "over"]
        /\ screens' = screens \ {f}
        /\ browsers' = IF f \in killing THEN browsers ELSE browsers \ {f}
        /\ paneResult' = [paneResult EXCEPT ![f] = "expired"]
        /\ resolved' = [resolved EXCEPT ![f] = IF asked[f] \in Reached THEN Append(@, "withdrawn") ELSE @]
        /\ UNCHANGED <<asked, announced, cut, pending, minted, killing, paneChan, req>>
    BY DEF Pane!GuardForgets, Pane!End, Pane!Goto, Pane!Resolved, Pane!registry
  <1>1. PaneTyped'
    BY <1>0 DEF PaneInv, PaneTyped, FetchPc, Outcome
  <1>2. QuestionsOnce'
    BY <1>0 DEF PaneInv, QuestionsOnce, PaneTyped
  <1>3. ClaimsApart'
    BY <1>0 DEF PaneInv, ClaimsApart, Claims
  <1>4. Heard'
    BY <1>0 DEF PaneInv, Heard, PaneTyped, Pane!Answers
  <1>5. LeavesNothing'
    BY <1>0 DEF PaneInv, LeavesNothing, PaneTyped
  <1>6. resolved[f] = <<>> /\ Append(<<>>, "withdrawn") = <<"withdrawn">>
    BY <1>0 DEF PaneInv, ToldOnce
  <1>7. ToldOnce'
    BY <1>0, <1>6 DEF PaneInv, ToldOnce, PaneTyped, Pane!Answers
  <1> QED
    BY <1>1, <1>2, <1>3, <1>4, <1>5, <1>7 DEF PaneInv

\* A client kills the screen ...
LEMMA PaneKillScreen ==
    ASSUME PaneInv, NEW f \in Fetches, Pane!KillScreen(f)
    PROVE  PaneInv'
  <1>0. /\ screens' = screens \ {f} /\ killing' = killing \cup {f}
        /\ UNCHANGED <<panePc, asked, paneResult, announced, resolved, cut, pending, minted, browsers,
                       paneChan, req>>
    BY DEF Pane!KillScreen, Pane!pane, Pane!registry
  <1>1. PaneTyped' /\ QuestionsOnce' /\ Heard'
    BY <1>0 DEF PaneInv, PaneTyped, QuestionsOnce, Heard
  <1>2. ClaimsApart'
    BY <1>0 DEF PaneInv, ClaimsApart, Claims
  <1>3. LeavesNothing' /\ ToldOnce'
    BY <1>0 DEF PaneInv, LeavesNothing, ToldOnce
  <1> QED
    BY <1>1, <1>2, <1>3 DEF PaneInv

\* ... and its question ends with it, unless it was taken.
LEMMA PaneScreenClosed ==
    ASSUME PaneInv, NEW f \in Fetches, Pane!ScreenClosed(f)
    PROVE  PaneInv'
  <1>0. /\ killing' = killing \ {f} /\ browsers' = browsers \ {f} /\ pending' = pending \ {f}
        /\ paneChan' = IF f \in pending /\ Pane!Listening(f) THEN [paneChan EXCEPT ![f] = "closed"] ELSE paneChan
        /\ UNCHANGED <<panePc, asked, paneResult, announced, resolved, cut, minted, screens, req>>
    BY DEF Pane!ScreenClosed, Pane!pane
  <1>1. PaneTyped'
    BY <1>0 DEF PaneInv, PaneTyped
  <1>2. QuestionsOnce'
    BY <1>0 DEF PaneInv, QuestionsOnce, PaneTyped
  <1>3. ClaimsApart'
    BY <1>0 DEF PaneInv, ClaimsApart, Claims
  <1>4. Heard'
    BY <1>0 DEF PaneInv, Heard, ClaimsApart, Claims, QuestionsOnce, PaneTyped, Pane!Answers
  <1>5. LeavesNothing' /\ ToldOnce'
    BY <1>0 DEF PaneInv, LeavesNothing, ToldOnce
  <1> QED
    BY <1>1, <1>2, <1>3, <1>4, <1>5 DEF PaneInv

\* Questions whose pane is gone are dropped.
LEMMA PaneListPending ==
    ASSUME PaneInv, Pane!ListPending
    PROVE  PaneInv'
  <1>0. /\ pending' \subseteq pending
        /\ UNCHANGED <<panePc, asked, paneResult, announced, resolved, cut, minted, screens, browsers, killing,
                       paneChan, req>>
    BY DEF Pane!ListPending, Pane!pane, Pane!host
  <1>1. PaneTyped' /\ QuestionsOnce' /\ Heard'
    BY <1>0 DEF PaneInv, PaneTyped, QuestionsOnce, Heard
  <1>2. ClaimsApart'
    BY <1>0 DEF PaneInv, ClaimsApart, Claims
  <1>3. LeavesNothing' /\ ToldOnce'
    BY <1>0 DEF PaneInv, LeavesNothing, ToldOnce
  <1> QED
    BY <1>1, <1>2, <1>3 DEF PaneInv

\* A request is checked: a token of another question's goes no further while this one waits.
LEMMA PaneCheck ==
    ASSUME PaneInv, NEW a \in Requests, NEW f \in minted, NEW token \in minted \cup {None},
           Pane!Check(a, f, token)
    PROVE  PaneInv'
  <1>0. PICK where \in {"done", "take"}, told \in {"WrongToken", None} :
          /\ req[a].at = "idle"
          /\ req' = [req EXCEPT ![a] = [to |-> f, token |-> token, at |-> where, told |-> told]]
          /\ (where = "take" /\ f \in pending) => token \in {None, f}
    BY DEF Pane!Check, Pane!Ask
  <1>1. UNCHANGED <<panePc, asked, paneResult, announced, resolved, cut, pending, minted, screens,
                    browsers, killing, paneChan>>
    BY DEF Pane!Check, Pane!pane, Pane!registry, Pane!host
  <1>2. ~Claims(a) /\ ~Claims(a)'
    BY <1>0, OutboundAssumption DEF PaneInv, PaneTyped, Heard, Claims
  <1>3. PaneTyped'
    BY <1>0, <1>1 DEF PaneInv, PaneTyped, Request
  <1>4. \A b \in Requests : b # a => req'[b] = req[b]
    BY <1>0 DEF PaneInv, PaneTyped
  <1>5. QuestionsOnce' /\ LeavesNothing' /\ ToldOnce'
    BY <1>1 DEF PaneInv, QuestionsOnce, LeavesNothing, ToldOnce
  <1>6. ClaimsApart'
    <2>1. req'[a] = [to |-> f, token |-> token, at |-> where, told |-> told]
      BY <1>0 DEF PaneInv, PaneTyped
    <2> QED
      BY <1>0, <1>1, <1>2, <1>4, <2>1 DEF PaneInv, ClaimsApart, Claims
  <1>7. Heard'
    <2>1. req[a].told # "Delivered" /\ req'[a].told # "Delivered" /\ req'[a].at # "send"
      BY <1>2 DEF Claims
    <2> QED
      BY <1>1, <1>4, <2>1 DEF PaneInv, Heard
  <1> QED
    BY <1>3, <1>5, <1>6, <1>7 DEF PaneInv

\* A request takes the question, if nobody has.
LEMMA PaneTakeEntry ==
    ASSUME PaneInv, NEW a \in Requests, Pane!TakeEntry(a)
    PROVE  PaneInv'
  <1> DEFINE f == req[a].to
  <1>0. /\ req[a].at = "take" /\ pending' = pending \ {f}
        /\ IF f \in pending THEN req' = [req EXCEPT ![a].at = "send"]
           ELSE \E told \in {"NobodyWaiting", "Unknown"} :
                    req' = [req EXCEPT ![a].at = "done", ![a].told = told]
    BY DEF Pane!TakeEntry, Pane!Take, Pane!Done
  <1>1. UNCHANGED <<panePc, asked, paneResult, announced, resolved, cut, minted, screens,
                    browsers, killing, paneChan>>
    BY DEF Pane!TakeEntry, Pane!Take, Pane!pane, Pane!host
  <1>2. req[a] \in Request /\ f \in minted /\ req[a].told # "Delivered"
    BY <1>0 DEF PaneInv, PaneTyped, ClaimsApart, Heard
  <1>3. /\ req'[a].to = f /\ req'[a].token = req[a].token
        /\ req'[a] \in Request /\ req'[a].told # "Delivered"
        /\ req'[a].at = IF f \in pending THEN "send" ELSE "done"
        /\ \A b \in Requests : b # a => req'[b] = req[b]
        /\ req' \in [Requests -> Request]
    BY <1>0, <1>2 DEF PaneInv, PaneTyped, Request
  <1>4. PaneTyped'
    BY <1>1, <1>3 DEF PaneInv, PaneTyped
  <1>5. QuestionsOnce' /\ LeavesNothing' /\ ToldOnce'
    BY <1>0, <1>1 DEF PaneInv, QuestionsOnce, LeavesNothing, ToldOnce
  <1>6. \A b \in Requests : Claims(b)' => Claims(b) \/ (b = a /\ f \in pending)
    BY <1>3 DEF Claims
  <1>7. ClaimsApart'
    <2>1. \A b \in Requests : Claims(b)' => /\ req'[b].to \in minted \ pending'
                                            /\ req'[b].token \in {None, req'[b].to}
      BY <1>0, <1>2, <1>3, <1>6 DEF PaneInv, ClaimsApart
    <2>2. \A b \in Requests : req'[b].at = "take" =>
              /\ req'[b].to \in minted
              /\ req'[b].to \in pending' => req'[b].token \in {None, req'[b].to}
      BY <1>0, <1>3 DEF PaneInv, ClaimsApart
    <2>3. \A b, e \in Requests : (Claims(b)' /\ Claims(e)' /\ req'[b].to = req'[e].to) => b = e
      BY <1>3, <1>6 DEF PaneInv, ClaimsApart
    <2> QED
      BY <1>1, <2>1, <2>2, <2>3 DEF ClaimsApart
  <1>8. Heard'
    BY <1>1, <1>2, <1>3 DEF PaneInv, Heard, QuestionsOnce
  <1> QED
    BY <1>4, <1>5, <1>7, <1>8 DEF PaneInv

\* The answer is sent to the pane that listens, and to no other.
LEMMA PaneDeliver ==
    ASSUME PaneInv, NEW a \in Requests, Pane!Deliver(a)
    PROVE  PaneInv'
  <1> DEFINE f == req[a].to
  <1>0. /\ req[a].at = "send"
        /\ \/ /\ Pane!Listening(f) /\ paneChan' = [paneChan EXCEPT ![f] = Says[a]]
              /\ req' = [req EXCEPT ![a].at = "done", ![a].told = "Delivered"]
           \/ UNCHANGED paneChan /\ req' = [req EXCEPT ![a].at = "done", ![a].told = "NobodyWaiting"]
    BY DEF Pane!Deliver, Pane!Done
  <1>1. UNCHANGED <<panePc, asked, paneResult, announced, resolved, cut, pending, minted, screens,
                    browsers, killing>>
    BY DEF Pane!Deliver, Pane!pane, Pane!registry, Pane!host
  <1>2. /\ req[a] \in Request /\ f \in minted \ pending /\ f \in Fetches
        /\ req[a].token \in {None, f} /\ paneChan[f] = None
    BY <1>0 DEF PaneInv, PaneTyped, ClaimsApart, Claims, Heard
  <1>3. /\ req'[a].to = f /\ req'[a].token = req[a].token /\ req'[a].at = "done"
        /\ \A b \in Requests : b # a => req'[b] = req[b]
        /\ req' \in [Requests -> Request]
        /\ req'[a].told \in {"Delivered", "NobodyWaiting"}
    BY <1>0, <1>2 DEF PaneInv, PaneTyped, Request
  <1>4. Says[a] \in Pane!Answers
    BY OutboundAssumption DEF Pane!Answers
  <1>5. PaneTyped'
    BY <1>0, <1>1, <1>2, <1>3, <1>4 DEF PaneInv, PaneTyped, Pane!Answers
  <1>6. QuestionsOnce' /\ LeavesNothing' /\ ToldOnce'
    BY <1>0, <1>1, <1>2 DEF PaneInv, PaneTyped, QuestionsOnce, LeavesNothing, ToldOnce
  <1>7. ClaimsApart'
    <2>1. \A b \in Requests : Claims(b)' => Claims(b)
      BY <1>0, <1>3 DEF Claims
    <2>2. \A b \in Requests : req'[b].to = req[b].to /\ req'[b].token = req[b].token
      BY <1>3
    <2>3. \A b \in Requests : req'[b].at = "take" => req[b].at = "take"
      BY <1>3
    <2> QED
      BY <1>1, <2>1, <2>2, <2>3 DEF PaneInv, ClaimsApart
  <1>8. Heard'
    <2>1. \A b \in Requests : b # a /\ Claims(b) => req[b].to # f
      BY <1>0 DEF PaneInv, ClaimsApart, Claims
    <2>2. CASE /\ Pane!Listening(f) /\ paneChan' = [paneChan EXCEPT ![f] = Says[a]]
               /\ req' = [req EXCEPT ![a].at = "done", ![a].told = "Delivered"]
      <3>1. req'[a].told = "Delivered" /\ paneChan'[f] = Says[a] /\ panePc[f] # "over"
        BY <1>2, <2>2 DEF PaneInv, PaneTyped, Request, Pane!Listening
      <3>2. \A g \in Fetches : g # f => paneChan'[g] = paneChan[g]
        BY <2>2 DEF PaneInv, PaneTyped
      <3>3. \A b \in Requests : Claims(b) => req[b].to \in Fetches
        BY DEF PaneInv, PaneTyped, ClaimsApart
      <3>4. \A b \in Requests : req'[b].at = "send" => paneChan'[req'[b].to] = None
        BY <1>3, <2>1, <3>2, <3>3 DEF PaneInv, Heard, Claims
      <3>5. \A b \in Requests : req'[b].told = "Delivered" =>
                req'[b].at = "done" /\ paneChan'[req'[b].to] = Says[b]
        BY <1>3, <2>1, <3>1, <3>2, <3>3 DEF PaneInv, Heard, Claims
      <3>6. \A g \in Fetches : paneChan'[g] \in Pane!Answers =>
                \E b \in Requests : /\ req'[b].to = g /\ req'[b].told = "Delivered"
                                    /\ Says[b] = paneChan'[g] /\ req'[b].token \in {None, g}
        <4> SUFFICES ASSUME NEW g \in Fetches, paneChan'[g] \in Pane!Answers
                     PROVE  \E b \in Requests : /\ req'[b].to = g /\ req'[b].told = "Delivered"
                                                /\ Says[b] = paneChan'[g] /\ req'[b].token \in {None, g}
          OBVIOUS
        <4>1. CASE g = f
          BY <1>2, <1>3, <3>1, <4>1
        <4>2. CASE g # f
          <5>1. PICK b \in Requests : /\ req[b].to = g /\ req[b].told = "Delivered"
                                      /\ Says[b] = paneChan[g] /\ req[b].token \in {None, g}
            BY <3>2, <4>2 DEF PaneInv, Heard
          <5> QED
            BY <1>3, <3>2, <4>2, <5>1
        <4> QED
          BY <4>1, <4>2
      <3> QED
        BY <1>1, <3>1, <3>2, <3>4, <3>5, <3>6 DEF PaneInv, Heard
    <2>3. CASE UNCHANGED paneChan /\ req' = [req EXCEPT ![a].at = "done", ![a].told = "NobodyWaiting"]
      <3>1. req'[a].told = "NobodyWaiting" /\ req[a].told # "Delivered"
        BY <1>0, <1>2, <2>3 DEF PaneInv, PaneTyped, Request, Heard
      <3> QED
        BY <1>1, <1>3, <2>3, <3>1 DEF PaneInv, Heard
    <2> QED
      BY <1>0, <2>2, <2>3
  <1> QED
    BY <1>5, <1>6, <1>7, <1>8 DEF PaneInv

LEMMA PaneStep == PaneInv /\ [Pane!Next]_(Pane!vars) => PaneInv'
  <1> SUFFICES ASSUME PaneInv, [Pane!Next]_(Pane!vars) PROVE PaneInv'
    OBVIOUS
  <1>1. ASSUME NEW f \in Fetches,
               \/ Pane!TryRung(f) \/ Pane!Launch(f) \/ Pane!Open(f) \/ Pane!Announce(f) \/ Pane!Wake(f)
        PROVE  PaneInv'
    BY <1>1, PaneTryRung, PaneLaunch, PaneOpen, PaneAnnounce, PaneWake
  <1>2. ASSUME NEW f \in Fetches,
               \/ Pane!Closed(f) \/ Pane!CutShort(f) \/ Pane!Expire(f) \/ Pane!GuardRemoves(f)
               \/ Pane!GuardForgets(f)
        PROVE  PaneInv'
    BY <1>2, PaneClosed, PaneCutShort, PaneExpire, PaneGuardRemoves, PaneGuardForgets
  <1>3. ASSUME NEW f \in Fetches, Pane!KillScreen(f) \/ Pane!ScreenClosed(f) PROVE PaneInv'
    BY <1>3, PaneKillScreen, PaneScreenClosed
  <1>4. CASE Pane!ListPending
    BY <1>4, PaneListPending
  <1>5. ASSUME NEW a \in Requests, NEW f \in minted, NEW token \in minted \cup {None},
               Pane!Check(a, f, token)
        PROVE  PaneInv'
    BY <1>5, PaneCheck
  <1>6. ASSUME NEW a \in Requests, Pane!TakeEntry(a) \/ Pane!Deliver(a) PROVE PaneInv'
    BY <1>6, PaneTakeEntry, PaneDeliver
  <1>7. CASE UNCHANGED Pane!vars
    BY <1>7 DEF Pane!vars, Pane!pane, Pane!registry, Pane!host, PaneInv, PaneTyped, QuestionsOnce,
                ClaimsApart, Claims, Heard, LeavesNothing, ToldOnce
  <1> QED
    BY <1>1, <1>2, <1>3, <1>4, <1>5, <1>6, <1>7 DEF Pane!Next

\* One request at most is told that its answer was delivered, the fetch ends with that
\* answer unless its time was up, and with none but its own (pane.rs, answer_by).
THEOREM AnswerIsHeard == Pane!Spec => []AnswerHeard
  BY PaneInit, PaneStep, PaneEnough, PTL DEF Pane!Spec

\* A fetch that is over leaves no question, screen or browser behind, and whoever was
\* told of its question was told once how it ended (pane.rs, present and its guard).
THEOREM ItIsOverAndTold == Pane!Spec => []ToldItIsOver
  BY PaneInit, PaneStep, PaneEnough, PTL DEF Pane!Spec

-----------------------------------------------------------------------------
(* ModelRouter.  The router's limiters are the limiter's: what is shown of *)
(* one holds of the others.                                                *)

LEMMA SameLimiters ==
    /\ Router!LimiterState = LimiterState /\ Router!Lease = Lease
    /\ \A l, t : Router!RollDay(l, t) = RollDay(l, t)
    /\ \A b, t : Router!Refill(b, t) = Refill(b, t) /\ Router!Refilled(b, t) = Refilled(b, t)
  <1>1. Router!LimiterState = LimiterState /\ Router!Lease = Lease
    BY Zenon DEF Router!LimiterState, LimiterState, Router!Lease, Lease, Router!Bucket, Bucket
  <1>2. \A l, t : Router!RollDay(l, t) = RollDay(l, t)
    BY Zenon DEF Router!RollDay, RollDay, Router!Day, Day, Router!NewBucket, NewBucket
  <1>3. \A b, t : Router!Refill(b, t) = Refill(b, t) /\ Router!Refilled(b, t) = Refilled(b, t)
    BY Zenon DEF Router!Refill, Refill, Router!Refilled, Refilled, Router!Least, Least
  <1> QED
    BY <1>1, <1>2, <1>3

LEMMA SameBuckets ==
    /\ \A b, n, t : Router!Peek(b, n, t) <=> Peek(b, n, t)
    /\ \A b, n, t : Router!TryTake(b, n, t) = TryTake(b, n, t)
    /\ \A b, n : Router!Refund(b, n) = Refund(b, n) /\ Router!ConsumeExtra(b, n) = ConsumeExtra(b, n)
    /\ \A a, b : Router!Less(a, b) = Less(a, b)
  <1>1. \A a, b : Router!Least(a, b) = Least(a, b) /\ Router!Less(a, b) = Less(a, b)
    BY Zenon DEF Router!Least, Least, Router!Less, Less
  <1>2. \A b, n : Router!Wants(b, n) = Wants(b, n)
    BY <1>1, Zenon DEF Router!Wants, Wants
  <1>3. \A b, n, t : Router!Peek(b, n, t) <=> Peek(b, n, t)
    BY <1>2, SameLimiters, Zenon DEF Router!Peek, Peek
  <1>4. \A b, n, t : Router!TryTake(b, n, t) = TryTake(b, n, t)
    BY <1>2, SameLimiters DEF Router!TryTake, TryTake
  <1>5. \A b, n : Router!Refund(b, n) = Refund(b, n) /\ Router!ConsumeExtra(b, n) = ConsumeExtra(b, n)
    BY Zenon DEF Router!Refund, Refund, Router!ConsumeExtra, ConsumeExtra, Router!Least, Least
  <1> QED
    BY <1>1, <1>3, <1>4, <1>5

LEMMA SameRefusal ==
    /\ \A l, e, t : Router!Refusal(l, e, t) = Refusal(l, e, t)
    /\ \A l, e, t : Router!Admits(l, e, t) <=> Admits(l, e, t)
  <1>1. \A l, e, t : Router!Refusal(l, e, t) = Refusal(l, e, t)
    BY SameBuckets DEF Router!Refusal, Refusal
  <1> QED
    BY <1>1, SameLimiters DEF Router!Admits, Admits

LEMMA SameAcquire == \A l, e, t : Router!AfterAcquire(l, e, t) = AfterAcquire(l, e, t)
  <1>1. \A l, e, t : Router!Committed(l, e, t) = Committed(l, e, t)
    BY SameBuckets DEF Router!Committed, Committed
  <1>2. \A l, why, t : Router!Peeked(l, why, t) = Peeked(l, why, t)
    BY Zenon DEF Router!Peeked, Peeked, Router!Refilled, Refilled, Router!Refill, Refill,
                 Router!Least, Least
  <1> QED
    BY <1>1, <1>2, SameRefusal, SameLimiters DEF Router!AfterAcquire, AfterAcquire

LEMMA SameSettled ==
    /\ \A l, e, u, t : Router!AfterReconcile(l, e, u, t) = AfterReconcile(l, e, u, t)
    /\ \A l, e, t : Router!AfterRelease(l, e, t) = AfterRelease(l, e, t)
  <1>1. ASSUME NEW l, NEW e, NEW u, NEW t PROVE Router!AfterReconcile(l, e, u, t) = AfterReconcile(l, e, u, t)
    <2> DEFINE r == RollDay(l, t)
               Tpm(F(_, _), G(_, _)) == IF u.tokens < e.tokens THEN F(r.tpm, e.tokens - u.tokens)
                                        ELSE G(r.tpm, u.tokens - e.tokens)
    <2>1. Router!RollDay(l, t) = r
      BY SameLimiters
    <2>2. Router!AfterReconcile(l, e, u, t) =
              [r EXCEPT !.tpm = Tpm(Router!Refund, Router!ConsumeExtra),
                        !.spent = Router!Less(r.spent + u.usd, e.usd), !.inFlight = Router!Less(r.inFlight, 1)]
      BY <2>1, Zenon DEF Router!AfterReconcile
    <2>3. Tpm(Router!Refund, Router!ConsumeExtra) = Tpm(Refund, ConsumeExtra)
      BY SameBuckets, Zenon
    <2>4. /\ Router!Less(r.spent + u.usd, e.usd) = Less(r.spent + u.usd, e.usd)
          /\ Router!Less(r.inFlight, 1) = Less(r.inFlight, 1)
      BY SameBuckets, Zenon
    <2> QED
      BY <2>2, <2>3, <2>4, Zenon DEF AfterReconcile
  <1>2. ASSUME NEW l, NEW e, NEW t PROVE Router!AfterRelease(l, e, t) = AfterRelease(l, e, t)
    <2> DEFINE r == RollDay(l, t)
    <2>1. Router!RollDay(l, t) = r
      BY SameLimiters
    <2>2. Router!AfterRelease(l, e, t) =
              [r EXCEPT !.tpm = Router!Refund(r.tpm, e.tokens), !.rpm = Router!Refund(r.rpm, 1),
                        !.rpd = Router!Refund(r.rpd, 1), !.spent = Router!Less(r.spent, e.usd),
                        !.inFlight = Router!Less(r.inFlight, 1)]
      BY <2>1, Zenon DEF Router!AfterRelease
    <2>3. /\ Router!Refund(r.tpm, e.tokens) = Refund(r.tpm, e.tokens)
          /\ Router!Refund(r.rpm, 1) = Refund(r.rpm, 1) /\ Router!Refund(r.rpd, 1) = Refund(r.rpd, 1)
          /\ Router!Less(r.spent, e.usd) = Less(r.spent, e.usd)
          /\ Router!Less(r.inFlight, 1) = Less(r.inFlight, 1)
      BY SameBuckets, Zenon
    <2> QED
      BY <2>2, <2>3, Zenon DEF AfterRelease
  <1> QED
    BY <1>1, <1>2

LEMMA RouterCounts == \A S : Router!Cardinality(S) = Cardinality(S)
  BY Zenon DEF Router!Cardinality, Cardinality

-----------------------------------------------------------------------------
(* What a limiter would let through                                        *)

\* No bucket holds more than its ceiling.
SoundBucket == {b \in Bucket : b.tokens <= b.cap} \cup {None}
Sound == {l \in LimiterState : l.rpm \in SoundBucket /\ l.tpm \in SoundBucket /\ l.rpd \in SoundBucket}

\* What a bucket holds at a reading of the clock.
Holds(b, t) == IF b = None THEN None ELSE Refill(b, t).tokens

\* Operations on a bucket keep it sound; looking at it changes nothing, and what was
\* taken is given back in full, clamped requests included.
LEMMA BucketRoom ==
    ASSUME NEW b \in SoundBucket, NEW n \in Nat, NEW t \in Nat
    PROVE  /\ Refilled(b, t) \in SoundBucket
           /\ Refund(b, n) \in SoundBucket /\ ConsumeExtra(b, n) \in SoundBucket
           /\ Holds(Refilled(b, t), t) = Holds(b, t)
           /\ Peek(b, n, t) =>
                  /\ TryTake(b, n, t) \in SoundBucket
                  /\ Holds(Refund(TryTake(b, n, t), n), t) = Holds(b, t)
  <1>1. CASE b = None
    BY <1>1 DEF Refilled, TryTake, Refund, ConsumeExtra, Holds, SoundBucket
  <1>2. CASE b # None
    <2> DEFINE r == Refill(b, t)
    <2>1. b \in Bucket /\ b.tokens <= b.cap
      BY <1>2 DEF SoundBucket
    <2>2. /\ r \in Bucket /\ r.cap = b.cap /\ r.tokens <= r.cap
          /\ ~(t > r.last)
      <3>1. r \in Bucket /\ r.cap = b.cap
        BY <2>1, RefillBucket
      <3>2. CASE t > b.last
        <4>1. r.last = t /\ r.tokens = Least(b.cap, b.tokens + (t - b.last) * b.rate)
          BY <2>1, <3>2 DEF Refill, Bucket
        <4>2. (t - b.last) * b.rate \in Nat
          BY <2>1, <3>2 DEF Bucket
        <4>3. r.tokens <= r.cap
          BY <2>1, <3>1, <4>1, <4>2 DEF Least, Bucket
        <4> QED
          BY <3>1, <4>1, <4>3
      <3>3. CASE ~(t > b.last)
        BY <2>1, <3>1, <3>3 DEF Refill
      <3> QED
        BY <3>1, <3>2, <3>3
    <2> HIDE DEF r
    <2>3. r # None /\ \A x \in Bucket : x # None
      BY <2>2, LimiterAssumption
    <2>4. Refilled(b, t) = r /\ Refilled(b, t) \in SoundBucket
      BY <1>2, <2>2 DEF Refilled, SoundBucket, r
    <2>5. Refill(r, t) = r
      BY <2>2 DEF Refill
    <2>6. Holds(Refilled(b, t), t) = Holds(b, t)
      BY <1>2, <2>3, <2>4, <2>5 DEF Holds, r
    <2>7. Refund(b, n) \in SoundBucket
      <3>1. Least(b.cap, b.tokens + n) \in Nat /\ Least(b.cap, b.tokens + n) <= b.cap
        BY <2>1 DEF Least, Bucket
      <3>2. \A k \in Nat : k <= b.cap => [b EXCEPT !.tokens = k] \in SoundBucket
        BY <2>1 DEF SoundBucket, Bucket
      <3> QED
        BY <1>2, <3>1, <3>2 DEF Refund
    <2>8. ConsumeExtra(b, n) \in SoundBucket
      <3> DEFINE k == IF b.tokens >= n THEN b.tokens - n ELSE 0
      <3>1. k \in Nat /\ k <= b.cap
        BY <2>1 DEF Bucket
      <3>2. ConsumeExtra(b, n) = [b EXCEPT !.tokens = k]
        BY <1>2 DEF ConsumeExtra
      <3> HIDE DEF k
      <3> QED
        BY <2>1, <3>1, <3>2 DEF SoundBucket, Bucket
    <2>9. ASSUME Peek(b, n, t)
          PROVE  /\ TryTake(b, n, t) \in SoundBucket
                 /\ Holds(Refund(TryTake(b, n, t), n), t) = Holds(b, t)
      <3> DEFINE w == Wants(b, n)
                 m == [r EXCEPT !.tokens = r.tokens - w]
                 back == [m EXCEPT !.tokens = Least(m.cap, m.tokens + n)]
      <3>1. w \in Nat /\ w <= n /\ r.tokens >= w /\ (w = n \/ w = b.cap)
        BY <1>2, <2>1, <2>9 DEF Wants, Least, Bucket, Peek, r
      <3>2. TryTake(b, n, t) = m
        BY <1>2, <2>2 DEF TryTake, r, Bucket
      <3> HIDE DEF w
      <3>3. /\ r.tokens - w \in Nat /\ r.tokens - w <= r.cap
            /\ Least(r.cap, (r.tokens - w) + n) = r.tokens
        BY <2>1, <2>2, <3>1 DEF Least, Bucket
      <3>4. m \in Bucket /\ m.tokens = r.tokens - w /\ m.cap = r.cap /\ m.last = r.last
        BY <2>2, <3>3 DEF Bucket
      <3>5. m \in SoundBucket
        BY <3>3, <3>4 DEF SoundBucket
      <3>6. Refund(m, n) = back
        BY <2>3, <3>4 DEF Refund
      <3>7. back.tokens = r.tokens /\ back.last = r.last /\ back \in Bucket
        <4>1. Least(m.cap, m.tokens + n) = r.tokens
          BY <3>3, <3>4
        <4>2. back = [m EXCEPT !.tokens = r.tokens]
          BY <4>1
        <4> QED
          BY <2>2, <3>4, <4>2 DEF Bucket
      <3>8. Refill(back, t) = back
        BY <2>2, <3>7 DEF Refill
      <3>9. Holds(back, t) = r.tokens
        BY <2>3, <3>7, <3>8 DEF Holds
      <3> QED
        BY <1>2, <3>2, <3>5, <3>6, <3>9 DEF Holds, r
    <2> QED
      BY <2>4, <2>6, <2>7, <2>8, <2>9
  <1> QED
    BY <1>1, <1>2

\* A sound limiter, part by part.
LEMMA SoundParts ==
    ASSUME NEW l
    PROVE  l \in Sound <=> /\ l \in LimiterState
                           /\ l.rpm \in SoundBucket /\ l.tpm \in SoundBucket /\ l.rpd \in SoundBucket
  BY DEF Sound

\* Rolling the day is done once, and leaves the limiter sound.
LEMMA RollDaySound ==
    ASSUME NEW l \in Sound, NEW t \in Nat
    PROVE  /\ RollDay(l, t) \in Sound
           /\ RollDay(l, t).day = Day(t)
           /\ RollDay(l, t).inFlight = l.inFlight
  <1>0. l \in LimiterState /\ l.rpm \in SoundBucket /\ l.tpm \in SoundBucket /\ l.rpd \in SoundBucket
    BY SoundParts
  <1>1. RollDay(l, t) \in LimiterState /\ RollDay(l, t).rpm = l.rpm /\ RollDay(l, t).inFlight = l.inFlight
    BY <1>0, RollDayState
  <1>2. CASE Day(t) = l.day
    BY <1>2 DEF RollDay
  <1>3. CASE Day(t) # l.day
    <2> DEFINE fresh == IF l.rpd = None THEN None ELSE NewBucket(l.rpd.cap, l.rpd.rate, t)
    <2>1. fresh \in SoundBucket
      BY <1>0 DEF SoundBucket, NewBucket, Bucket
    <2> HIDE DEF fresh
    <2>2. RollDay(l, t) = [l EXCEPT !.day = Day(t), !.spent = 0, !.rpd = fresh]
      BY <1>3 DEF RollDay, fresh
    <2>3. RollDay(l, t).day = Day(t) /\ RollDay(l, t).tpm = l.tpm /\ RollDay(l, t).rpd = fresh
      BY <1>0, <2>2 DEF LimiterState
    <2> QED
      BY <1>0, <1>1, <2>1, <2>3, SoundParts
  <1> QED
    BY <1>2, <1>3

\* Two limiters with the same to give have the same room.
LEMMA RoomParts ==
    ASSUME NEW l \in Sound, NEW m, NEW t \in Nat, m.day = Day(t),
           Holds(m.rpm, t) = Holds(RollDay(l, t).rpm, t),
           Holds(m.tpm, t) = Holds(RollDay(l, t).tpm, t),
           Holds(m.rpd, t) = Holds(RollDay(l, t).rpd, t),
           m.spent = RollDay(l, t).spent, m.inFlight = RollDay(l, t).inFlight
    PROVE  Router!Room(m, t) = Router!Room(l, t)
  <1> DEFINE r == RollDay(l, t)
  <1>1. Router!RollDay(l, t) = r
    BY SameLimiters
  <1>2. Router!RollDay(m, t) = m
    BY SameLimiters DEF RollDay
  <1>3. \A x, y : Router!RollDay(x, t) = y =>
            Router!Room(x, t) = <<Holds(y.rpm, t), Holds(y.tpm, t), Holds(y.rpd, t), y.spent, y.inFlight>>
    BY SameLimiters, Zenon DEF Router!Room, Holds
  <1> HIDE DEF r
  <1>4. Router!Room(l, t) = <<Holds(r.rpm, t), Holds(r.tpm, t), Holds(r.rpd, t), r.spent, r.inFlight>>
    BY <1>1, <1>3, Zenon
  <1>5. Router!Room(m, t) = <<Holds(m.rpm, t), Holds(m.tpm, t), Holds(m.rpd, t), m.spent, m.inFlight>>
    BY <1>2, <1>3, Zenon
  <1> QED
    BY <1>4, <1>5 DEF r

\* An acquire that is admitted is undone by a release at the same reading; one that
\* is not changes nothing that can be felt.
LEMMA AcquireRoom ==
    ASSUME NEW l \in Sound, NEW e \in Lease, NEW t \in Nat
    PROVE  /\ AfterAcquire(l, e, t) \in Sound
           /\ AfterAcquire(l, e, t).inFlight = l.inFlight + (IF Admits(l, e, t) THEN 1 ELSE 0)
           /\ ~Admits(l, e, t) => Router!Room(AfterAcquire(l, e, t), t) = Router!Room(l, t)
           /\ Admits(l, e, t) =>
                Router!Room(AfterRelease(AfterAcquire(l, e, t), e, t), t) = Router!Room(l, t)
  <1> DEFINE r == RollDay(l, t)
             why == Refusal(r, e, t)
             a == AfterAcquire(l, e, t)
  <1>0. l \in LimiterState /\ l.inFlight \in Nat
    BY SoundParts DEF LimiterState
  <1>1. /\ r \in Sound /\ r.day = Day(t) /\ r.inFlight = l.inFlight
        /\ r \in LimiterState
        /\ r.rpm \in SoundBucket /\ r.tpm \in SoundBucket /\ r.rpd \in SoundBucket
    BY RollDaySound, SoundParts
  <1>2. /\ Admits(l, e, t) <=> why = "admitted"
        /\ a = IF why = "admitted" THEN Committed(r, e, t) ELSE Peeked(r, why, t)
    BY DEF Admits, AfterAcquire
  <1>3. why = "admitted" => Peek(r.rpm, 1, t) /\ Peek(r.tpm, e.tokens, t) /\ Peek(r.rpd, 1, t)
    BY DEF Refusal
  <1>4. a \in LimiterState /\ (Admits(l, e, t) => a.inFlight = l.inFlight + 1)
                           /\ (~Admits(l, e, t) => a.inFlight = l.inFlight)
    BY <1>0, AcquireEffect
  <1>5. e.tokens \in Nat /\ e.usd \in Nat
    BY DEF Lease
  <1>r. r = RollDay(l, t)
    OBVIOUS
  <1> HIDE DEF r, why
  <1>6. CASE why = "admitted"
    <2> DEFINE rpm == TryTake(r.rpm, 1, t)
               tpm == TryTake(r.tpm, e.tokens, t)
               rpd == TryTake(r.rpd, 1, t)
               z == AfterRelease(a, e, t)
    <2>1. a = [r EXCEPT !.rpm = rpm, !.tpm = tpm, !.rpd = rpd,
                        !.spent = r.spent + e.usd, !.inFlight = r.inFlight + 1]
      BY <1>1, <1>2, <1>6 DEF Committed, LimiterState
    <2>2. rpm \in SoundBucket /\ Holds(Refund(rpm, 1), t) = Holds(r.rpm, t)
      BY <1>1, <1>3, <1>6, BucketRoom
    <2>3. tpm \in SoundBucket /\ Holds(Refund(tpm, e.tokens), t) = Holds(r.tpm, t)
      BY <1>1, <1>3, <1>5, <1>6, BucketRoom
    <2>4. rpd \in SoundBucket /\ Holds(Refund(rpd, 1), t) = Holds(r.rpd, t)
      BY <1>1, <1>3, <1>6, BucketRoom
    <2> HIDE DEF rpm, tpm, rpd, a
    <2>5. /\ a.rpm = rpm /\ a.tpm = tpm /\ a.rpd = rpd /\ a.day = Day(t)
          /\ a.spent = r.spent + e.usd /\ a.inFlight = r.inFlight + 1
      BY <1>1, <2>1 DEF LimiterState
    <2>6. a \in Sound
      BY <1>4, <2>2, <2>3, <2>4, <2>5, SoundParts DEF a
    <2>7. RollDay(a, t) = a
      BY <2>5 DEF RollDay
    <2>8. /\ Less(a.spent, e.usd) = r.spent /\ Less(a.inFlight, 1) = r.inFlight
          /\ r.spent \in Nat /\ r.inFlight \in Nat
      BY <1>1, <1>5, <2>5 DEF Less, LimiterState
    <2>9. z = [a EXCEPT !.tpm = Refund(tpm, e.tokens), !.rpm = Refund(rpm, 1), !.rpd = Refund(rpd, 1),
                        !.spent = r.spent, !.inFlight = r.inFlight]
      <3>1. a \in LimiterState
        BY <2>6, SoundParts
      <3>2. z = [a EXCEPT !.tpm = Refund(a.tpm, e.tokens), !.rpm = Refund(a.rpm, 1), !.rpd = Refund(a.rpd, 1),
                          !.spent = Less(a.spent, e.usd), !.inFlight = Less(a.inFlight, 1)]
        BY <2>7, <3>1 DEF AfterRelease, LimiterState
      <3> QED
        BY <2>5, <2>8, <3>2
    <2>10. /\ z.day = Day(t) /\ z.spent = r.spent /\ z.inFlight = r.inFlight
           /\ z.rpm = Refund(rpm, 1) /\ z.tpm = Refund(tpm, e.tokens) /\ z.rpd = Refund(rpd, 1)
      <3>1. a \in LimiterState
        BY <2>6, SoundParts
      <3> DEFINE R1 == Refund(rpm, 1)  R2 == Refund(tpm, e.tokens)  R3 == Refund(rpd, 1)
      <3> HIDE DEF R1, R2, R3, z
      <3>2. z = [a EXCEPT !.tpm = R2, !.rpm = R1, !.rpd = R3, !.spent = r.spent, !.inFlight = r.inFlight]
        BY <2>9 DEF R1, R2, R3
      <3>3. /\ z.day = a.day /\ z.spent = r.spent /\ z.inFlight = r.inFlight
            /\ z.rpm = R1 /\ z.tpm = R2 /\ z.rpd = R3
        BY <3>1, <3>2 DEF LimiterState
      <3> QED
        BY <2>5, <3>3 DEF R1, R2, R3
    <2> HIDE DEF z
    <2>11. Router!Room(z, t) = Router!Room(l, t)
      BY <1>r, <2>2, <2>3, <2>4, <2>10, RoomParts
    <2> QED
      BY <1>1, <1>2, <1>6, <2>5, <2>6, <2>11 DEF z, a
  <1>7. CASE why # "admitted"
    <2> DEFINE rpm == IF why = "Concurrency" THEN r.rpm ELSE Refilled(r.rpm, t)
               tpm == IF why \in {"Concurrency", "RequestsPerMinute"} THEN r.tpm
                      ELSE Refilled(r.tpm, t)
               rpd == IF why \in {"Concurrency", "RequestsPerMinute", "TokensPerMinute"} THEN r.rpd
                      ELSE Refilled(r.rpd, t)
    <2>1. a = [r EXCEPT !.rpm = rpm, !.tpm = tpm, !.rpd = rpd]
      BY <1>1, <1>2, <1>7 DEF Peeked, LimiterState
    <2>2. \A b \in SoundBucket : Refilled(b, t) \in SoundBucket /\ Holds(Refilled(b, t), t) = Holds(b, t)
      BY BucketRoom
    <2>3. /\ rpm \in SoundBucket /\ tpm \in SoundBucket /\ rpd \in SoundBucket
          /\ Holds(rpm, t) = Holds(r.rpm, t) /\ Holds(tpm, t) = Holds(r.tpm, t)
          /\ Holds(rpd, t) = Holds(r.rpd, t)
      BY <1>1, <2>2
    <2> HIDE DEF rpm, tpm, rpd, a
    <2>4. /\ a.rpm = rpm /\ a.tpm = tpm /\ a.rpd = rpd /\ a.day = Day(t)
          /\ a.spent = r.spent /\ a.inFlight = r.inFlight
      BY <1>1, <2>1 DEF LimiterState
    <2>5. a \in Sound
      BY <1>4, <2>3, <2>4, SoundParts DEF a
    <2>6. Router!Room(a, t) = Router!Room(l, t)
      BY <1>r, <2>3, <2>4, RoomParts
    <2> QED
      BY <1>0, <1>1, <1>2, <1>7, <2>4, <2>5, <2>6 DEF a
  <1> QED
    BY <1>6, <1>7

\* Settling keeps a limiter sound and frees one reservation.
LEMMA SettleSound ==
    ASSUME NEW l \in Sound, NEW e \in Lease, NEW u \in Lease, NEW t \in Nat
    PROVE  /\ AfterReconcile(l, e, u, t) \in Sound
           /\ AfterReconcile(l, e, u, t).inFlight = Less(l.inFlight, 1)
           /\ AfterRelease(l, e, t) \in Sound
           /\ AfterRelease(l, e, t).inFlight = Less(l.inFlight, 1)
  <1> DEFINE r == RollDay(l, t)
  <1>0. l \in LimiterState
    BY SoundParts
  <1>1. /\ r \in LimiterState
        /\ r.rpm \in SoundBucket /\ r.tpm \in SoundBucket /\ r.rpd \in SoundBucket
    BY RollDaySound, SoundParts
  <1>2. /\ e.tokens \in Nat /\ u.tokens \in Nat
        /\ u.tokens < e.tokens => e.tokens - u.tokens \in Nat
        /\ ~(u.tokens < e.tokens) => u.tokens - e.tokens \in Nat
    BY DEF Lease
  <1>3. \A b \in SoundBucket, n \in Nat : Refund(b, n) \in SoundBucket /\ ConsumeExtra(b, n) \in SoundBucket
    BY BucketRoom
  <1>4. AfterReconcile(l, e, u, t) \in Sound
    <2> DEFINE tpm == IF u.tokens < e.tokens THEN Refund(r.tpm, e.tokens - u.tokens)
                      ELSE ConsumeExtra(r.tpm, u.tokens - e.tokens)
               a == AfterReconcile(l, e, u, t)
    <2>1. tpm \in SoundBucket
      BY <1>1, <1>2, <1>3
    <2>2. a = [r EXCEPT !.tpm = tpm, !.spent = Less(r.spent + u.usd, e.usd), !.inFlight = Less(r.inFlight, 1)]
      BY <1>1 DEF AfterReconcile, LimiterState
    <2> HIDE DEF r, tpm
    <2>3. a.rpm = r.rpm /\ a.tpm = tpm /\ a.rpd = r.rpd
      BY <1>1, <2>2 DEF LimiterState
    <2>4. a \in LimiterState
      BY <1>0, ReconcileEffect
    <2> QED
      BY <1>1, <2>1, <2>3, <2>4, SoundParts
  <1>5. AfterRelease(l, e, t) \in Sound
    <2> DEFINE rpm == Refund(r.rpm, 1)
               tpm == Refund(r.tpm, e.tokens)
               rpd == Refund(r.rpd, 1)
               a == AfterRelease(l, e, t)
    <2>1. rpm \in SoundBucket /\ tpm \in SoundBucket /\ rpd \in SoundBucket
      BY <1>1, <1>2, <1>3
    <2>2. a = [r EXCEPT !.tpm = tpm, !.rpm = rpm, !.rpd = rpd, !.spent = Less(r.spent, e.usd),
                        !.inFlight = Less(r.inFlight, 1)]
      BY <1>1 DEF AfterRelease, LimiterState
    <2> HIDE DEF r, rpm, tpm, rpd
    <2>3. a.rpm = rpm /\ a.tpm = tpm /\ a.rpd = rpd
      BY <1>1, <2>2 DEF LimiterState
    <2>4. a \in LimiterState
      BY <1>0, ReleaseEffect
    <2> QED
      BY <2>1, <2>3, <2>4, SoundParts
  <1> QED
    BY <1>0, <1>4, <1>5, ReconcileEffect, ReleaseEffect

\* Scoring a limiter changes nothing that can be felt.
LEMMA ScoredRoom ==
    ASSUME NEW l \in Sound, NEW t \in Nat
    PROVE  /\ Router!Scored(l, t) \in Sound
           /\ Router!Scored(l, t).inFlight = l.inFlight
           /\ Router!Room(Router!Scored(l, t), t) = Router!Room(l, t)
           /\ RollDay(Router!Scored(l, t), t) = Router!Scored(l, t)
  <1> DEFINE r == RollDay(l, t)
             s == Router!Scored(l, t)
             rpm == Refilled(r.rpm, t)
             tpm == Refilled(r.tpm, t)
  <1>1. /\ r \in LimiterState /\ r.day = Day(t) /\ r.inFlight = l.inFlight
        /\ r.rpm \in SoundBucket /\ r.tpm \in SoundBucket /\ r.rpd \in SoundBucket
    BY RollDaySound, SoundParts
  <1>2. /\ rpm \in SoundBucket /\ tpm \in SoundBucket
        /\ Holds(rpm, t) = Holds(r.rpm, t) /\ Holds(tpm, t) = Holds(r.tpm, t)
    BY <1>1, BucketRoom
  <1>3. s = [r EXCEPT !.tpm = tpm, !.rpm = rpm]
    BY <1>1, SameLimiters DEF Router!Scored, LimiterState
  <1>r. r = RollDay(l, t)
    OBVIOUS
  <1> HIDE DEF r, s, rpm, tpm
  <1>4. rpm \in Bucket \cup {None} /\ tpm \in Bucket \cup {None}
    BY <1>2 DEF SoundBucket
  <1>5. /\ s \in LimiterState /\ s.rpm = rpm /\ s.tpm = tpm /\ s.rpd = r.rpd /\ s.day = Day(t)
        /\ s.spent = r.spent /\ s.inFlight = r.inFlight
    BY <1>1, <1>3, <1>4 DEF LimiterState
  <1>6. s \in Sound
    BY <1>1, <1>2, <1>5, SoundParts
  <1>7. Router!Room(s, t) = Router!Room(l, t)
    BY <1>r, <1>2, <1>5, RoomParts
  <1>8. RollDay(s, t) = s
    BY <1>5 DEF RollDay
  <1> QED
    BY <1>1, <1>5, <1>6, <1>7, <1>8 DEF s

-----------------------------------------------------------------------------
(* A provider's credential pool                                            *)

\* Its slots, whatever the round-robin accumulators hold.
SlotOver(C) == [limiter : Sound, healthy : BOOLEAN, current : C,
                weight : Nat \ {0}, priority : Nat, cost : Nat]
PoolOver(C) == [strategy : Strategies, limiter : Sound \cup {None},
                slots : Seq(SlotOver(C)), cursor : Nat]
GoodPool(p) == \E C : p \in PoolOver(C)

\* The limiters of a pool: its ceiling at level 0, its keys at theirs.
Level(p, i) == IF i = 0 THEN p.limiter ELSE p.slots[i].limiter
Levels(p) == {i \in 0 .. Len(p.slots) : Level(p, i) # None}

\* From p to q one reservation was made, at the ceiling and at key k, or, when k is 0,
\* nothing was taken at a reading t.
Took(p, q, k, t) ==
    /\ GoodPool(q) /\ Len(q.slots) = Len(p.slots) /\ k \in 0 .. Len(p.slots)
    /\ q.limiter = None <=> p.limiter = None
    /\ \A i \in Levels(p) :
          Level(q, i).inFlight = Level(p, i).inFlight + (IF k # 0 /\ i \in {0, k} THEN 1 ELSE 0)
    /\ k = 0 => \A i \in Levels(p) : Router!Room(Level(q, i), t) = Router!Room(Level(p, i), t)

\* From p to q the reservation at key k was given back.
Gave(p, q, k) ==
    /\ GoodPool(q) /\ Len(q.slots) = Len(p.slots)
    /\ q.limiter = None <=> p.limiter = None
    /\ \A i \in Levels(p) :
          Level(q, i).inFlight = IF i \in {0, k} THEN Less(Level(p, i).inFlight, 1) ELSE Level(p, i).inFlight

LEMMA SoundIsState == \A l \in Sound : l # None /\ l \in LimiterState /\ l.inFlight \in Nat
  <1>1. None \notin LimiterState
    BY RouterAssumption
  <1> QED
    BY <1>1, SoundParts DEF LimiterState

LEMMA SeqOfFunction ==
    ASSUME NEW S, NEW n \in Nat, NEW f \in [1 .. n -> S]
    PROVE  f \in Seq(S) /\ Len(f) = n
  BY SeqDef, LenProperties

\* A pool, part by part.
LEMMA PoolParts ==
    ASSUME NEW p, GoodPool(p)
    PROVE  /\ p.limiter \in Sound \cup {None}
           /\ Len(p.slots) \in Nat
           /\ Router!Positions(p) = 1 .. Len(p.slots)
           /\ \A i \in 1 .. Len(p.slots) : p.slots[i].limiter \in Sound
           /\ \A i \in Levels(p) : Level(p, i) \in Sound /\ Level(p, i).inFlight \in Nat
           /\ \A i \in 1 .. Len(p.slots) : i \in Levels(p) /\ Level(p, i) = p.slots[i].limiter
           /\ 0 \in Levels(p) <=> p.limiter # None
  <1>1. PICK C : p \in PoolOver(C)
    BY DEF GoodPool
  <1>2. p.limiter \in Sound \cup {None} /\ p.slots \in Seq(SlotOver(C))
    BY <1>1 DEF PoolOver
  <1>3. Len(p.slots) \in Nat /\ \A i \in 1 .. Len(p.slots) : p.slots[i] \in SlotOver(C)
    BY <1>2
  <1>4. \A i \in 1 .. Len(p.slots) : p.slots[i].limiter \in Sound
    BY <1>3 DEF SlotOver
  <1>5. Router!Positions(p) = 1 .. Len(p.slots)
    BY DEF Router!Positions
  <1>6. \A i \in 1 .. Len(p.slots) : i \in Levels(p) /\ Level(p, i) = p.slots[i].limiter
    BY <1>3, <1>4, SoundIsState DEF Levels, Level
  <1>7. \A i \in Levels(p) : Level(p, i) \in Sound
    BY <1>2, <1>3, <1>4 DEF Levels, Level
  <1>8. 0 \in Levels(p) <=> p.limiter # None
    BY <1>3 DEF Levels, Level
  <1> QED
    BY <1>2, <1>3, <1>4, <1>5, <1>6, <1>7, <1>8, SoundIsState

\* A pool with another ceiling, or other slots, as many of them.
WithLimiter(p, l) == [p EXCEPT !.limiter = l]
WithSlots(p, f) == [p EXCEPT !.slots = f]
Advanced(p) == [p EXCEPT !.cursor = p.cursor + 1]

LEMMA NewCeiling ==
    ASSUME NEW p, GoodPool(p), NEW l \in Sound \cup {None}
    PROVE  /\ GoodPool(WithLimiter(p, l))
           /\ WithLimiter(p, l).limiter = l
           /\ WithLimiter(p, l).slots = p.slots
  <1>1. PICK C : p \in PoolOver(C)
    BY DEF GoodPool
  <1>2. WithLimiter(p, l) \in PoolOver(C)
    BY <1>1 DEF PoolOver, WithLimiter
  <1> QED
    BY <1>1, <1>2 DEF GoodPool, PoolOver, WithLimiter

LEMMA NewSlots ==
    ASSUME NEW p, GoodPool(p), NEW C, NEW f \in [1 .. Len(p.slots) -> SlotOver(C)]
    PROVE  /\ GoodPool(WithSlots(p, f))
           /\ WithSlots(p, f).limiter = p.limiter
           /\ WithSlots(p, f).slots = f
           /\ Len(f) = Len(p.slots)
  <1>1. PICK D : p \in PoolOver(D)
    BY DEF GoodPool
  <1>2. f \in Seq(SlotOver(C)) /\ Len(f) = Len(p.slots)
    BY SeqOfFunction, PoolParts
  <1> DEFINE q == [p EXCEPT !.slots = f]
             SD == Seq(SlotOver(D))
             SC == Seq(SlotOver(C))
  <1>3. p \in [strategy : Strategies, limiter : Sound \cup {None}, slots : SD, cursor : Nat] /\ f \in SC
    BY <1>1, <1>2 DEF PoolOver
  <1> HIDE DEF SD, SC
  <1>4. /\ q \in [strategy : Strategies, limiter : Sound \cup {None}, slots : SC, cursor : Nat]
        /\ q.limiter = p.limiter /\ q.slots = f
    BY <1>3
  <1>5. GoodPool(q)
    BY <1>4 DEF GoodPool, PoolOver, SC
  <1> QED
    BY <1>2, <1>4, <1>5 DEF WithSlots

LEMMA NewCursor ==
    ASSUME NEW p, GoodPool(p)
    PROVE  /\ GoodPool(Advanced(p))
           /\ Advanced(p).limiter = p.limiter
           /\ Advanced(p).slots = p.slots
  <1>1. PICK C : p \in PoolOver(C)
    BY DEF GoodPool
  <1>2. Advanced(p) \in PoolOver(C)
    BY <1>1 DEF PoolOver, Advanced
  <1> QED
    BY <1>1, <1>2 DEF GoodPool, PoolOver, Advanced

\* A slot with another limiter, accumulator or health.
Limited(s, l) == [s EXCEPT !.limiter = l]
Accumulated(s, x) == [s EXCEPT !.current = x]
Benched(s) == [s EXCEPT !.healthy = FALSE]

LEMMA NewSlot ==
    ASSUME NEW C, NEW s \in SlotOver(C)
    PROVE  /\ Benched(s) \in SlotOver(C) /\ Benched(s).limiter = s.limiter
           /\ s.limiter \in Sound /\ s.healthy \in BOOLEAN
  BY DEF SlotOver, Benched

LEMMA NewLimit ==
    ASSUME NEW C, NEW s \in SlotOver(C), NEW l \in Sound
    PROVE  Limited(s, l) \in SlotOver(C) /\ Limited(s, l).limiter = l
  BY DEF SlotOver, Limited

LEMMA NewAccumulator ==
    ASSUME NEW C, NEW s \in SlotOver(C), NEW D, NEW x \in D
    PROVE  Accumulated(s, x) \in SlotOver(D) /\ Accumulated(s, x).limiter = s.limiter
  BY DEF SlotOver, Accumulated

\* Choosing an order takes nothing from anyone.
LEMMA PickTakesNothing ==
    ASSUME NEW p, GoodPool(p), NEW t \in Nat
    PROVE  /\ GoodPool(Router!AfterPick(p, t))
           /\ Router!AfterPick(p, t).limiter = p.limiter
           /\ Len(Router!AfterPick(p, t).slots) = Len(p.slots)
           /\ \A i \in 1 .. Len(p.slots) :
                 /\ Router!AfterPick(p, t).slots[i].limiter.inFlight = p.slots[i].limiter.inFlight
                 /\ Router!Room(Router!AfterPick(p, t).slots[i].limiter, t) = Router!Room(p.slots[i].limiter, t)
  <1> DEFINE q == Router!AfterPick(p, t)
             n == Len(p.slots)
  <1>1. PICK C : p \in PoolOver(C)
    BY DEF GoodPool
  <1>2. n \in Nat /\ \A i \in 1 .. n : p.slots[i] \in SlotOver(C)
    BY <1>1 DEF PoolOver
  <1>3. Router!Positions(p) = 1 .. n
    BY DEF Router!Positions
  <1>4. CASE p.strategy = "Weighted"
    <2> DEFINE X(i) == Router!Accrued(p, i) - (IF i = Router!WeightedHead(p) THEN Router!TotalWeight(p) ELSE 0)
               f == [i \in 1 .. n |-> Accumulated(p.slots[i], X(i))]
               D == {X(i) : i \in 1 .. n}
    <2>1. q = WithSlots(p, f)
      BY <1>3, <1>4 DEF Router!AfterPick, WithSlots, Accumulated
    <2> HIDE DEF X
    <2>2. \A i \in 1 .. n : X(i) \in D
      OBVIOUS
    <2> HIDE DEF D
    <2>3. \A i \in 1 .. n : f[i] \in SlotOver(D) /\ f[i].limiter = p.slots[i].limiter
      BY <1>2, <2>2, NewAccumulator
    <2>4. f \in [1 .. n -> SlotOver(D)]
      BY <2>3
    <2> HIDE DEF f, q
    <2>5. GoodPool(q) /\ q.limiter = p.limiter /\ q.slots = f /\ Len(f) = n
      BY <2>1, <2>4, NewSlots
    <2> QED
      BY <2>3, <2>5 DEF q
  <1>5. CASE p.strategy = "LeastLoaded"
    <2> DEFINE f == [i \in 1 .. n |-> Limited(p.slots[i], Router!Scored(p.slots[i].limiter, t))]
    <2>1. q = WithSlots(p, f)
      <3>1. \A i \in 1 .. n : [p.slots[i] EXCEPT !.limiter = Router!Scored(@, t)]
                                 = Limited(p.slots[i], Router!Scored(p.slots[i].limiter, t))
        BY <1>2 DEF SlotOver, Limited
      <3>2. q = [p EXCEPT !.slots = [i \in 1 .. n |-> [p.slots[i] EXCEPT !.limiter = Router!Scored(@, t)]]]
        BY <1>3, <1>5 DEF Router!AfterPick
      <3> QED
        BY <3>1, <3>2 DEF WithSlots
    <2>2. \A i \in 1 .. n : p.slots[i].limiter \in Sound
      BY <1>2, NewSlot
    <2>3. \A i \in 1 .. n : /\ Router!Scored(p.slots[i].limiter, t) \in Sound
                            /\ Router!Scored(p.slots[i].limiter, t).inFlight = p.slots[i].limiter.inFlight
                            /\ Router!Room(Router!Scored(p.slots[i].limiter, t), t) = Router!Room(p.slots[i].limiter, t)
      BY <2>2, ScoredRoom
    <2>4. \A i \in 1 .. n : f[i] \in SlotOver(C) /\ f[i].limiter = Router!Scored(p.slots[i].limiter, t)
      BY <1>2, <2>3, NewLimit
    <2>5. f \in [1 .. n -> SlotOver(C)]
      BY <2>4
    <2> HIDE DEF f, q
    <2>6. GoodPool(q) /\ q.limiter = p.limiter /\ q.slots = f /\ Len(f) = n
      BY <2>1, <2>5, NewSlots
    <2> QED
      BY <2>3, <2>4, <2>6 DEF q
  <1>6. CASE p.strategy \notin {"Weighted", "LeastLoaded"}
    <2>1. q = p
      BY <1>6 DEF Router!AfterPick
    <2> QED
      BY <2>1
  <1> QED
    BY <1>4, <1>5, <1>6

\* An order gives every slot its place.
LEMMA OrderPlaces ==
    ASSUME NEW p, GoodPool(p), NEW t
    PROVE  Router!PickOrder(p, t) \in [1 .. Len(p.slots) -> Nat]
  <1> DEFINE n == Len(p.slots)
             B(i) == {j \in 1 .. n : Router!Before(p, j, i, t)}
  <1>1. n \in Nat /\ Router!Positions(p) = 1 .. n
    BY PoolParts
  <1>2. IsFiniteSet(1 .. n)
    BY <1>1, FS_Interval
  <1>3. \A i : Cardinality(B(i)) \in Nat
    <2> TAKE i
    <2>1. B(i) \subseteq 1 .. n
      OBVIOUS
    <2>2. IsFiniteSet(B(i))
      BY <1>2, <2>1, FS_Subset
    <2> QED
      BY <2>2, FS_CardinalityType
  <1>4. Router!PickOrder(p, t) = [i \in 1 .. n |-> Cardinality(B(i))]
    BY <1>1, RouterCounts DEF Router!PickOrder
  <1> HIDE DEF B
  <1> QED
    BY <1>3, <1>4

\* The first usable slot is usable, and none before it is.
LEMMA FirstIsFirst ==
    ASSUME NEW p, GoodPool(p), NEW o \in [1 .. Len(p.slots) -> Nat], NEW e, NEW t
    PROVE  LET k == Router!FirstUsable(p, o, e, t)
           IN /\ k \in 0 .. Len(p.slots)
              /\ k # 0 => Router!Usable(p, k, e, t)
              /\ \A i \in 1 .. Len(p.slots) : k = 0 \/ o[i] < o[k] => ~Router!Usable(p, i, e, t)
  <1> DEFINE n == Len(p.slots)
             fit == {i \in 1 .. n : Router!Usable(p, i, e, t)}
             k == Router!FirstUsable(p, o, e, t)
  <1>1. n \in Nat /\ Router!Positions(p) = 1 .. n
    BY PoolParts
  <1>2. k = IF fit = {} THEN 0 ELSE CHOOSE i \in fit : \A j \in fit : o[i] <= o[j]
    BY <1>1 DEF Router!FirstUsable
  <1>3. CASE fit = {}
    BY <1>1, <1>2, <1>3
  <1>4. CASE fit # {}
    <2> DEFINE places == {o[i] : i \in fit}
    <2>1. places \subseteq Nat /\ places # {}
      BY <1>4
    <2>2. PICK m \in places : \A x \in places : m <= x
      BY <2>1, LeastOfSome
    <2>3. \E i \in fit : \A j \in fit : o[i] <= o[j]
      BY <2>2
    <2>4. k = CHOOSE i \in fit : \A j \in fit : o[i] <= o[j]
      BY <1>2, <1>4
    <2>5. k \in fit /\ \A j \in fit : o[k] <= o[j]
      BY <2>3, <2>4
    <2> HIDE DEF k
    <2>6. \A i \in 1 .. n : o[i] < o[k] => i \notin fit
      BY <2>5
    <2> QED
      BY <1>1, <2>5, <2>6 DEF k
  <1> QED
    BY <1>3, <1>4

\* Key k is the first that is usable; slots f are those of p with one reservation at k.
IsFirst(p, o, k, e, t) ==
    /\ k \in 0 .. Len(p.slots)
    /\ k # 0 => Router!Usable(p, k, e, t)
    /\ \A i \in 1 .. Len(p.slots) : k = 0 \/ o[i] < o[k] => ~Router!Usable(p, i, e, t)
TookOne(p, f, k, t) ==
    \A i \in 1 .. Len(p.slots) :
        /\ f[i].limiter.inFlight = p.slots[i].limiter.inFlight + (IF i = k THEN 1 ELSE 0)
        /\ i # k => Router!Room(f[i].limiter, t) = Router!Room(p.slots[i].limiter, t)

\* Of the keys that were asked only k has given something.
LEMMA AskedSlots ==
    ASSUME NEW p, GoodPool(p), NEW o \in [1 .. Len(p.slots) -> Nat], NEW e \in Lease, NEW t \in Nat,
           NEW k, IsFirst(p, o, k, e, t)
    PROVE  /\ \E C : Router!Asked(p, o, k, e, t) \in [1 .. Len(p.slots) -> SlotOver(C)]
           /\ TookOne(p, Router!Asked(p, o, k, e, t), k, t)
  <1> DEFINE n == Len(p.slots)
             f == Router!Asked(p, o, k, e, t)
             wanted(i) == p.slots[i].healthy /\ (k = 0 \/ i = k \/ o[i] < o[k])
  <1>1. PICK C : p \in PoolOver(C)
    BY DEF GoodPool
  <1>2. n \in Nat /\ \A i \in 1 .. n : p.slots[i] \in SlotOver(C)
    BY <1>1 DEF PoolOver
  <1>3. Router!Positions(p) = 1 .. n
    BY DEF Router!Positions
  <1>4. f = [i \in 1 .. n |-> IF wanted(i) THEN [p.slots[i] EXCEPT !.limiter = Router!AfterAcquire(@, e, t)]
                              ELSE p.slots[i]]
    BY <1>3 DEF Router!Asked
  <1>5. \A i \in 1 .. n : Router!Usable(p, i, e, t) <=> p.slots[i].healthy /\ Admits(p.slots[i].limiter, e, t)
    BY SameRefusal DEF Router!Usable
  <1>6. ASSUME NEW i \in 1 .. n
        PROVE  /\ f[i] \in SlotOver(C)
               /\ f[i].limiter.inFlight = p.slots[i].limiter.inFlight + (IF i = k THEN 1 ELSE 0)
               /\ i # k => Router!Room(f[i].limiter, t) = Router!Room(p.slots[i].limiter, t)
    <2> DEFINE s == p.slots[i]
               l == s.limiter
    <2>1. s \in SlotOver(C) /\ l \in Sound
      BY <1>2, NewSlot
    <2>2. /\ AfterAcquire(l, e, t) \in Sound
          /\ AfterAcquire(l, e, t).inFlight = l.inFlight + (IF Admits(l, e, t) THEN 1 ELSE 0)
          /\ ~Admits(l, e, t) => Router!Room(AfterAcquire(l, e, t), t) = Router!Room(l, t)
      BY <2>1, AcquireRoom
    <2>3. CASE wanted(i)
      <3>1. f[i] = Limited(s, AfterAcquire(l, e, t))
        <4>1. f[i] = [s EXCEPT !.limiter = Router!AfterAcquire(@, e, t)]
          BY <1>4, <2>3
        <4>2. [s EXCEPT !.limiter = Router!AfterAcquire(@, e, t)] = [s EXCEPT !.limiter = AfterAcquire(l, e, t)]
          BY <2>1, SameAcquire DEF SlotOver
        <4> QED
          BY <4>1, <4>2 DEF Limited
      <3>2. Limited(s, AfterAcquire(l, e, t)) \in SlotOver(C)
            /\ Limited(s, AfterAcquire(l, e, t)).limiter = AfterAcquire(l, e, t)
        BY <2>1, <2>2, NewLimit
      <3>3. Admits(l, e, t) <=> i = k
        BY <1>5, <2>3 DEF IsFirst
      <3> QED
        BY <2>2, <3>1, <3>2, <3>3
    <2>4. CASE ~wanted(i)
      <3>1. i # k
        BY <1>5, <2>4 DEF IsFirst
      <3>2. f[i] = s
        BY <1>4, <2>4
      <3>3. l.inFlight \in Nat
        BY <2>1, SoundIsState
      <3> QED
        BY <2>1, <3>1, <3>2, <3>3
    <2> QED
      BY <2>3, <2>4
  <1>7. f \in [1 .. n -> SlotOver(C)]
    BY <1>4, <1>6
  <1> QED
    BY <1>6, <1>7 DEF TookOne

\* What trying the keys does: key k gives, or the ceiling takes its lease back.
LEMMA KeysTried ==
    ASSUME NEW p, GoodPool(p), NEW o \in [1 .. Len(p.slots) -> Nat], NEW e \in Lease, NEW t \in Nat
    PROVE  LET got == Router!TryKeys(p, o, e, t)
           IN /\ GoodPool(got.pool) /\ Len(got.pool.slots) = Len(p.slots)
              /\ got.slot \in 0 .. Len(p.slots)
              /\ got.slot # 0 => got.pool.limiter = p.limiter
              /\ got.slot = 0 => got.pool.limiter = Router!CeilingReleased(p.limiter, e, t)
              /\ TookOne(p, got.pool.slots, got.slot, t)
  <1> DEFINE n == Len(p.slots)
             k == Router!FirstUsable(p, o, e, t)
             f == Router!Asked(p, o, k, e, t)
             got == Router!TryKeys(p, o, e, t)
             q == WithSlots(p, f)
  <1>1. IsFirst(p, o, k, e, t)
    BY FirstIsFirst DEF IsFirst
  <1>2. got = Router!ServedBy(p, o, k, e, t)
    BY DEF Router!TryKeys
  <1> HIDE DEF k
  <1>3. (\E C : f \in [1 .. n -> SlotOver(C)]) /\ TookOne(p, f, k, t)
    BY <1>1, AskedSlots
  <1>4. PICK C : f \in [1 .. n -> SlotOver(C)]
    BY <1>3
  <1>5. got = IF k = 0 THEN [pool |-> Router!Rollback(WithSlots(p, f), e, t), slot |-> 0]
              ELSE [pool |-> [p EXCEPT !.slots = f, !.cursor = @ + 1], slot |-> k]
    BY <1>2 DEF Router!ServedBy, WithSlots
  <1> HIDE DEF f, got
  <1>6. GoodPool(q) /\ q.limiter = p.limiter /\ q.slots = f /\ Len(f) = n
    BY <1>4, NewSlots
  <1>7. CASE k # 0
    <2>1. [p EXCEPT !.slots = f, !.cursor = @ + 1] = Advanced(q)
      <3>1. PICK D : p \in PoolOver(D)
        BY DEF GoodPool
      <3> DEFINE S == Seq(SlotOver(D))
      <3>2. p \in [strategy : Strategies, limiter : Sound \cup {None}, slots : S, cursor : Nat]
        BY <3>1 DEF PoolOver
      <3> HIDE DEF S
      <3> QED
        BY <3>2 DEF Advanced, WithSlots
    <2> HIDE DEF q
    <2>2. got.pool = Advanced(q) /\ got.slot = k
      BY <1>5, <1>7, <2>1
    <2>3. GoodPool(Advanced(q)) /\ Advanced(q).limiter = q.limiter /\ Advanced(q).slots = q.slots
      BY <1>6, NewCursor
    <2>4. /\ GoodPool(got.pool) /\ got.pool.limiter = p.limiter /\ got.pool.slots = f
      BY <1>6, <2>2, <2>3
    <2> QED
      BY <1>1, <1>3, <1>6, <1>7, <2>2, <2>4 DEF got, IsFirst
  <1>8. CASE k = 0
    <2> DEFINE m == Router!CeilingReleased(p.limiter, e, t)
    <2>1. m \in Sound \cup {None}
      <3>1. p.limiter \in Sound \cup {None}
        BY PoolParts
      <3> QED
        BY <3>1, SameSettled, SettleSound DEF Router!CeilingReleased
    <2>2. Router!Rollback(q, e, t) = WithLimiter(q, m)
      <3>1. PICK D : q \in PoolOver(D)
        BY <1>6 DEF GoodPool
      <3> HIDE DEF q, m
      <3>2. Router!Rollback(q, e, t) = [q EXCEPT !.limiter = Router!CeilingReleased(q.limiter, e, t)]
        BY <3>1 DEF Router!Rollback, PoolOver
      <3> QED
        BY <1>6, <3>2 DEF WithLimiter, m
    <2> HIDE DEF q, m
    <2>3. got.pool = WithLimiter(q, m) /\ got.slot = 0
      BY <1>5, <1>8, <2>2 DEF q
    <2>4. GoodPool(WithLimiter(q, m)) /\ WithLimiter(q, m).limiter = m /\ WithLimiter(q, m).slots = q.slots
      BY <1>6, <2>1, NewCeiling
    <2>5. GoodPool(got.pool) /\ got.pool.limiter = m /\ got.pool.slots = f
      BY <1>6, <2>3, <2>4
    <2> QED
      BY <1>1, <1>3, <1>6, <1>8, <2>3, <2>5 DEF got, m, IsFirst
  <1> QED
    BY <1>7, <1>8

\* Rolling back an admitted lease at the ceiling leaves the room there was.
LEMMA CeilingBack ==
    ASSUME NEW l \in Sound, NEW e \in Lease, NEW t \in Nat, Admits(l, e, t)
    PROVE  /\ AfterRelease(AfterAcquire(l, e, t), e, t) \in Sound
           /\ AfterRelease(AfterAcquire(l, e, t), e, t).inFlight = l.inFlight
           /\ Router!Room(AfterRelease(AfterAcquire(l, e, t), e, t), t) = Router!Room(l, t)
  <1> DEFINE a == AfterAcquire(l, e, t)
             z == AfterRelease(a, e, t)
  <1>1. a \in Sound /\ a.inFlight = l.inFlight + 1 /\ Router!Room(z, t) = Router!Room(l, t)
    BY AcquireRoom
  <1>2. l.inFlight \in Nat
    BY SoundIsState
  <1> HIDE DEF a
  <1>3. z \in Sound /\ z.inFlight = Less(a.inFlight, 1)
    BY <1>1, SettleSound
  <1>4. Less(a.inFlight, 1) = l.inFlight
    BY <1>1, <1>2 DEF Less
  <1> QED
    BY <1>1, <1>3, <1>4 DEF a

\* An attempt at a provider reserves at its ceiling and at one key, or takes nothing.
LEMMA PoolTook ==
    ASSUME NEW p, GoodPool(p), NEW e \in Lease, NEW t \in Nat
    PROVE  Took(p, Router!PoolAcquire(p, e, t).pool, Router!PoolAcquire(p, e, t).slot, t)
  <1> DEFINE got == Router!PoolAcquire(p, e, t)
             n == Len(p.slots)
             l == p.limiter
  <1>0. /\ l \in Sound \cup {None} /\ n \in Nat
        /\ \A i \in 1 .. n : p.slots[i].limiter \in Sound /\ p.slots[i].limiter.inFlight \in Nat
        /\ \A i \in Levels(p) : Level(p, i) \in Sound /\ Level(p, i).inFlight \in Nat
    BY PoolParts, SoundIsState
  <1>1. \A i \in Levels(p) : /\ i \in 0 .. n
                             /\ i = 0 => l \in Sound /\ Level(p, i) = l
                             /\ i # 0 => i \in 1 .. n /\ Level(p, i) = p.slots[i].limiter
    BY <1>0 DEF Levels, Level
  <1>2. \A q : Level(q, 0) = q.limiter /\ \A i \in 1 .. n : Level(q, i) = q.slots[i].limiter
    BY <1>0 DEF Level
  <1>3. l # None => l \in Sound /\ (Router!CeilingAdmits(l, e, t) <=> Admits(l, e, t))
                    /\ Router!CeilingAcquired(l, e, t) = AfterAcquire(l, e, t)
    BY <1>0, SameRefusal, SameAcquire DEF Router!CeilingAdmits, Router!CeilingAcquired
  <1>4. l = None => Router!CeilingAdmits(l, e, t) /\ Router!CeilingAcquired(l, e, t) = None
    BY DEF Router!CeilingAdmits, Router!CeilingAcquired
  <1> DEFINE c == Router!CeilingAcquired(l, e, t)
             h == WithLimiter(p, c)
  <1>5. c \in Sound \cup {None} /\ (c = None <=> l = None)
    BY <1>3, <1>4, AcquireRoom, SoundIsState
  <1>6. Router!WithCeiling(p, e, t) = h
    <2>1. PICK C : p \in PoolOver(C)
      BY DEF GoodPool
    <2> HIDE DEF c
    <2>2. Router!WithCeiling(p, e, t) = [p EXCEPT !.limiter = Router!CeilingAcquired(p.limiter, e, t)]
      BY <2>1 DEF Router!WithCeiling, PoolOver
    <2> QED
      BY <2>2 DEF WithLimiter, c
  <1>7. GoodPool(h) /\ h.limiter = c /\ h.slots = p.slots
    <2> HIDE DEF c
    <2> QED
      BY <1>5, NewCeiling
  <1>8. got = IF p.slots = <<>> THEN [pool |-> p, slot |-> 0]
              ELSE IF ~Router!CeilingAdmits(l, e, t) THEN [pool |-> h, slot |-> 0]
              ELSE Router!PickAndTry(h, e, t)
    BY <1>6 DEF Router!PoolAcquire
  <1> HIDE DEF got, c, h
  <1>9. CASE p.slots = <<>>
    <2>1. got.pool = p /\ got.slot = 0
      BY <1>8, <1>9
    <2>2. Took(p, p, 0, t)
      BY <1>0 DEF Took
    <2> QED
      BY <2>1, <2>2 DEF got
  <1>10. CASE p.slots # <<>> /\ ~Router!CeilingAdmits(l, e, t)
    <2>1. got.pool = h /\ got.slot = 0
      BY <1>8, <1>10
    <2>2. l \in Sound /\ ~Admits(l, e, t) /\ c = AfterAcquire(l, e, t)
      BY <1>3, <1>4, <1>10 DEF c
    <2>3. c.inFlight = l.inFlight + 0 /\ Router!Room(c, t) = Router!Room(l, t)
      BY <2>2, AcquireRoom
    <2>4. \A i \in Levels(p) : /\ Level(h, i).inFlight = Level(p, i).inFlight + 0
                               /\ Router!Room(Level(h, i), t) = Router!Room(Level(p, i), t)
      BY <1>0, <1>1, <1>2, <1>7, <2>3
    <2>5. Took(p, h, 0, t)
      BY <1>0, <1>5, <1>7, <2>4 DEF Took
    <2> QED
      BY <2>1, <2>5 DEF got
  <1>11. CASE p.slots # <<>> /\ Router!CeilingAdmits(l, e, t)
    <2> DEFINE g == Router!AfterPick(h, t)
               o == Router!PickOrder(h, t)
               q == got.pool
               k == got.slot
    <2>1. got = Router!TryKeys(g, o, e, t)
      BY <1>8, <1>11 DEF Router!PickAndTry
    <2>2. /\ GoodPool(g) /\ g.limiter = c /\ Len(g.slots) = n
          /\ \A i \in 1 .. n : /\ g.slots[i].limiter.inFlight = p.slots[i].limiter.inFlight
                               /\ Router!Room(g.slots[i].limiter, t) = Router!Room(p.slots[i].limiter, t)
      BY <1>7, PickTakesNothing
    <2>3. o \in [1 .. n -> Nat]
      BY <1>7, OrderPlaces
    <2> HIDE DEF g, o
    <2>4. /\ GoodPool(q) /\ Len(q.slots) = n /\ k \in 0 .. n
          /\ k # 0 => q.limiter = c
          /\ k = 0 => q.limiter = Router!CeilingReleased(c, e, t)
          /\ TookOne(g, q.slots, k, t)
      <3>1. o \in [1 .. Len(g.slots) -> Nat]
        BY <2>2, <2>3
      <3> QED
        BY <2>1, <2>2, <3>1, KeysTried
    <2>5. ASSUME l # None
          PROVE  /\ q.limiter \in Sound
                 /\ q.limiter.inFlight = l.inFlight + (IF k # 0 THEN 1 ELSE 0)
                 /\ k = 0 => Router!Room(q.limiter, t) = Router!Room(l, t)
      <3>1. l \in Sound /\ Admits(l, e, t) /\ c = AfterAcquire(l, e, t) /\ l.inFlight \in Nat
        BY <1>3, <1>11, <2>5, SoundIsState DEF c
      <3>2. c \in Sound /\ c.inFlight = l.inFlight + 1 /\ c # None
        BY <3>1, AcquireRoom, SoundIsState
      <3>3. Router!CeilingReleased(c, e, t) = AfterRelease(c, e, t)
        BY <3>2, SameSettled DEF Router!CeilingReleased
      <3>4. /\ AfterRelease(c, e, t) \in Sound /\ AfterRelease(c, e, t).inFlight = l.inFlight
            /\ Router!Room(AfterRelease(c, e, t), t) = Router!Room(l, t)
        BY <3>1, CeilingBack
      <3> QED
        BY <2>4, <3>1, <3>2, <3>3, <3>4
    <2>6. l = None => q.limiter = None
      BY <1>4, <2>4 DEF c, Router!CeilingReleased
    <2>7. q.limiter = None <=> l = None
      BY <2>5, <2>6, SoundIsState
    <2>8. \A i \in 1 .. n :
             /\ q.slots[i].limiter.inFlight = p.slots[i].limiter.inFlight + (IF i = k THEN 1 ELSE 0)
             /\ i # k => Router!Room(q.slots[i].limiter, t) = Router!Room(p.slots[i].limiter, t)
      BY <2>2, <2>4 DEF TookOne
    <2> HIDE DEF q, k
    <2>9. \A i \in Levels(p) :
             Level(q, i).inFlight = Level(p, i).inFlight + (IF k # 0 /\ i \in {0, k} THEN 1 ELSE 0)
      <3> TAKE i \in Levels(p)
      <3>1. CASE i = 0
        BY <1>1, <1>2, <2>5, <3>1, SoundIsState
      <3>2. CASE i # 0
        <4>1. i \in 1 .. n /\ Level(p, i) = p.slots[i].limiter /\ Level(q, i) = q.slots[i].limiter
          BY <1>1, <1>2, <3>2
        <4> QED
          BY <2>4, <2>8, <3>2, <4>1 DEF k
      <3> QED
        BY <3>1, <3>2
    <2>10. ASSUME k = 0, NEW i \in Levels(p) PROVE Router!Room(Level(q, i), t) = Router!Room(Level(p, i), t)
      <3>1. CASE i = 0
        BY <1>1, <1>2, <2>5, <2>10, <3>1, SoundIsState
      <3>2. CASE i # 0
        <4>1. i \in 1 .. n /\ Level(p, i) = p.slots[i].limiter /\ Level(q, i) = q.slots[i].limiter
          BY <1>1, <1>2, <3>2
        <4> QED
          BY <2>8, <2>10, <4>1
      <3> QED
        BY <3>1, <3>2
    <2>11. Took(p, q, k, t)
      <3>1. GoodPool(q) /\ Len(q.slots) = n /\ k \in 0 .. n
        BY <2>4 DEF q, k
      <3> QED
        BY <2>7, <2>9, <2>10, <3>1 DEF Took
    <2> QED
      BY <2>11 DEF got, q, k
  <1> QED
    BY <1>9, <1>10, <1>11

\* A pool with another key at k and another ceiling.
Replaced(p, k, s, m) == WithLimiter(WithSlots(p, [p.slots EXCEPT ![k] = s]), m)

LEMMA NewKey ==
    ASSUME NEW C, NEW p \in PoolOver(C), NEW k \in 1 .. Len(p.slots), NEW s \in SlotOver(C),
           NEW m \in Sound \cup {None}
    PROVE  /\ GoodPool(Replaced(p, k, s, m))
           /\ Replaced(p, k, s, m).limiter = m
           /\ Len(Replaced(p, k, s, m).slots) = Len(p.slots)
           /\ \A i \in 1 .. Len(p.slots) :
                 Replaced(p, k, s, m).slots[i].limiter = IF i = k THEN s.limiter ELSE p.slots[i].limiter
  <1> DEFINE n == Len(p.slots)
             f == [p.slots EXCEPT ![k] = s]
             q == WithSlots(p, f)
  <1>1. p.slots \in Seq(SlotOver(C))
    BY DEF PoolOver
  <1>2. p.slots \in [1 .. n -> SlotOver(C)] /\ n \in Nat
    BY <1>1
  <1>3. f \in [1 .. n -> SlotOver(C)] /\ \A i \in 1 .. n : f[i] = IF i = k THEN s ELSE p.slots[i]
    BY <1>2
  <1>4. GoodPool(p)
    BY DEF GoodPool
  <1> HIDE DEF f
  <1>5. GoodPool(q) /\ q.limiter = p.limiter /\ q.slots = f /\ Len(f) = n
    BY <1>3, <1>4, NewSlots
  <1>6. Replaced(p, k, s, m) = WithLimiter(q, m)
    BY DEF Replaced, f
  <1> HIDE DEF q
  <1>7. GoodPool(WithLimiter(q, m)) /\ WithLimiter(q, m).limiter = m /\ WithLimiter(q, m).slots = q.slots
    BY <1>5, NewCeiling
  <1> QED
    BY <1>3, <1>5, <1>6, <1>7

\* Settling at key k, and at the ceiling if there is one, gives one reservation back.
LEMMA GaveBack ==
    ASSUME NEW C, NEW p \in PoolOver(C), NEW k \in 1 .. Len(p.slots), NEW s \in SlotOver(C), NEW m,
           s.limiter.inFlight = Less(p.slots[k].limiter.inFlight, 1),
           p.limiter = None => m = None,
           p.limiter # None => m \in Sound /\ m.inFlight = Less(p.limiter.inFlight, 1)
    PROVE  Gave(p, Replaced(p, k, s, m), k)
  <1> DEFINE q == Replaced(p, k, s, m)
             n == Len(p.slots)
  <1>1. GoodPool(p)
    BY DEF GoodPool
  <1>2. /\ GoodPool(q) /\ q.limiter = m /\ Len(q.slots) = n
        /\ \A i \in 1 .. n : q.slots[i].limiter = IF i = k THEN s.limiter ELSE p.slots[i].limiter
    BY NewKey
  <1>3. n \in Nat /\ (m = None <=> p.limiter = None)
    BY <1>1, PoolParts, SoundIsState
  <1> HIDE DEF q
  <1>4. ASSUME NEW i \in Levels(p)
        PROVE  Level(q, i).inFlight = IF i \in {0, k} THEN Less(Level(p, i).inFlight, 1) ELSE Level(p, i).inFlight
    <2>1. i \in 0 .. n
      BY DEF Levels
    <2>2. CASE i = 0
      <3>1. Level(p, i) = p.limiter /\ p.limiter # None /\ Level(q, i) = m
        BY <1>2, <2>2 DEF Levels, Level
      <3> QED
        BY <2>2, <3>1
    <2>3. CASE i # 0
      <3>1. i \in 1 .. n
        BY <1>3, <2>1, <2>3
      <3>2. Level(p, i) = p.slots[i].limiter /\ Level(q, i) = q.slots[i].limiter
        BY <2>3 DEF Level
      <3> QED
        BY <1>2, <2>3, <3>1, <3>2
    <2> QED
      BY <2>2, <2>3
  <1> QED
    BY <1>2, <1>3, <1>4 DEF Gave, q

LEMMA PoolReconciled ==
    ASSUME NEW p, GoodPool(p), NEW k \in 1 .. Len(p.slots), NEW e \in Lease, NEW u \in Lease, NEW t \in Nat
    PROVE  Gave(p, Router!PoolReconcile(p, k, e, u, t), k)
  <1>1. PICK C : p \in PoolOver(C)
    BY DEF GoodPool
  <1> DEFINE l == p.slots[k].limiter
             x == AfterReconcile(l, e, u, t)
             s == Limited(p.slots[k], x)
             m == Router!CeilingReconciled(p.limiter, e, u, t)
  <1>2. p.slots \in Seq(SlotOver(C)) /\ p.slots[k] \in SlotOver(C) /\ p.limiter \in Sound \cup {None}
    BY <1>1 DEF PoolOver
  <1>3. l \in Sound
    BY <1>2, NewSlot
  <1>4. x \in Sound /\ x.inFlight = Less(l.inFlight, 1)
    BY <1>3, SettleSound
  <1>5. s \in SlotOver(C) /\ s.limiter = x
    BY <1>2, <1>4, NewLimit
  <1>6. /\ p.limiter = None => m = None
        /\ p.limiter # None => m \in Sound /\ m.inFlight = Less(p.limiter.inFlight, 1)
    BY <1>2, SameSettled, SettleSound DEF Router!CeilingReconciled
  <1>7. Router!PoolReconcile(p, k, e, u, t) = Replaced(p, k, s, m)
    <2> DEFINE S == Seq(SlotOver(C))
    <2>1. p \in [strategy : Strategies, limiter : Sound \cup {None}, slots : S, cursor : Nat]
      BY <1>1 DEF PoolOver
    <2>2. Router!AfterReconcile(l, e, u, t) = x
      BY SameSettled
    <2>3. Router!PoolReconcile(p, k, e, u, t) =
              [p EXCEPT !.slots = [p.slots EXCEPT ![k] = [p.slots[k] EXCEPT !.limiter = Router!AfterReconcile(l, e, u, t)]],
                        !.limiter = m]
      <3> HIDE DEF S
      <3>1. k \in DOMAIN p.slots
        BY <1>2
      <3>2. "limiter" \in DOMAIN p.slots[k]
        BY <1>2 DEF SlotOver
      <3> QED
        BY <2>1, <3>1, <3>2 DEF Router!PoolReconcile
    <2> HIDE DEF m, l, x, S
    <2>4. Router!PoolReconcile(p, k, e, u, t) = [p EXCEPT !.slots = [p.slots EXCEPT ![k] = s], !.limiter = m]
      BY <2>2, <2>3 DEF Limited
    <2> HIDE DEF s
    <2> QED
      BY <2>1, <2>4 DEF Replaced, WithLimiter, WithSlots
  <1> HIDE DEF x, s, m
  <1> QED
    BY <1>1, <1>4, <1>5, <1>6, <1>7, GaveBack

LEMMA PoolReleased ==
    ASSUME NEW p, GoodPool(p), NEW k \in 1 .. Len(p.slots), NEW e \in Lease, NEW t \in Nat
    PROVE  Gave(p, Router!PoolRelease(p, k, e, t), k)
  <1>1. PICK C : p \in PoolOver(C)
    BY DEF GoodPool
  <1> DEFINE l == p.slots[k].limiter
             x == AfterRelease(l, e, t)
             s == Limited(p.slots[k], x)
             m == Router!CeilingReleased(p.limiter, e, t)
  <1>2. p.slots \in Seq(SlotOver(C)) /\ p.slots[k] \in SlotOver(C) /\ p.limiter \in Sound \cup {None}
    BY <1>1 DEF PoolOver
  <1>3. l \in Sound
    BY <1>2, NewSlot
  <1>4. x \in Sound /\ x.inFlight = Less(l.inFlight, 1)
    BY <1>3, SettleSound
  <1>5. s \in SlotOver(C) /\ s.limiter = x
    BY <1>2, <1>4, NewLimit
  <1>6. /\ p.limiter = None => m = None
        /\ p.limiter # None => m \in Sound /\ m.inFlight = Less(p.limiter.inFlight, 1)
    BY <1>2, SameSettled, SettleSound DEF Router!CeilingReleased
  <1>7. Router!PoolRelease(p, k, e, t) = Replaced(p, k, s, m)
    <2> DEFINE S == Seq(SlotOver(C))
               y == [p EXCEPT !.slots[k].limiter = Router!AfterRelease(@, e, t)]
    <2>1. p \in [strategy : Strategies, limiter : Sound \cup {None}, slots : S, cursor : Nat]
      BY <1>1 DEF PoolOver
    <2>2. Router!AfterRelease(l, e, t) = x
      BY SameSettled
    <2>3. y = [p EXCEPT !.slots = [p.slots EXCEPT ![k] = [p.slots[k] EXCEPT !.limiter = Router!AfterRelease(l, e, t)]]]
      <3> HIDE DEF S
      <3>1. k \in DOMAIN p.slots
        BY <1>2
      <3>2. "limiter" \in DOMAIN p.slots[k]
        BY <1>2 DEF SlotOver
      <3> QED
        BY <2>1, <3>1, <3>2
    <2>4. y = WithSlots(p, [p.slots EXCEPT ![k] = s])
      <3> HIDE DEF l, x, S
      <3> QED
        BY <2>2, <2>3 DEF Limited, WithSlots
    <2>5. Router!PoolRelease(p, k, e, t) = Router!Rollback(y, e, t)
      BY DEF Router!PoolRelease
    <2> DEFINE g == [p.slots EXCEPT ![k] = s]
    <2> HIDE DEF y, m, s, S, g
    <2>6. y = [p EXCEPT !.slots = g]
      BY <2>4 DEF g, WithSlots
    <2>7. y.limiter = p.limiter
      BY <2>1, <2>6
    <2>8. Router!Rollback(y, e, t) = [y EXCEPT !.limiter = Router!CeilingReleased(y.limiter, e, t)]
      BY <2>1, <2>6 DEF Router!Rollback
    <2> QED
      BY <2>4, <2>5, <2>7, <2>8 DEF Replaced, WithLimiter, m
  <1> HIDE DEF x, s, m
  <1> QED
    BY <1>1, <1>4, <1>5, <1>6, <1>7, GaveBack

\* Benching a key moves no reservation.
LEMMA PoolBenched ==
    ASSUME NEW p, GoodPool(p), NEW k \in 1 .. Len(p.slots)
    PROVE  /\ GoodPool(Router!MarkUnhealthy(p, k))
           /\ Len(Router!MarkUnhealthy(p, k).slots) = Len(p.slots)
           /\ \A q : Gave(Router!MarkUnhealthy(p, k), q, k) => Gave(p, q, k)
  <1>1. PICK C : p \in PoolOver(C)
    BY DEF GoodPool
  <1> DEFINE b == Router!MarkUnhealthy(p, k)
             n == Len(p.slots)
             s == Benched(p.slots[k])
             f == [p.slots EXCEPT ![k] = s]
  <1>2. p.slots \in Seq(SlotOver(C)) /\ n \in Nat /\ p.slots \in [1 .. n -> SlotOver(C)]
    BY <1>1 DEF PoolOver
  <1>3. s \in SlotOver(C) /\ s.limiter = p.slots[k].limiter
    BY <1>2, NewSlot
  <1>4. b = WithSlots(p, f)
    <2> DEFINE S == Seq(SlotOver(C))
    <2>1. p \in [strategy : Strategies, limiter : Sound \cup {None}, slots : S, cursor : Nat]
      BY <1>1 DEF PoolOver
    <2> HIDE DEF S
    <2> QED
      BY <1>2, <2>1 DEF Router!MarkUnhealthy, WithSlots, Benched
  <1> HIDE DEF s
  <1>5. f \in [1 .. n -> SlotOver(C)] /\ \A i \in 1 .. n : f[i].limiter = p.slots[i].limiter
    BY <1>2, <1>3
  <1> HIDE DEF b, f
  <1>6. GoodPool(b) /\ b.limiter = p.limiter /\ b.slots = f /\ Len(f) = n
    BY <1>4, <1>5, NewSlots
  <1>7. \A i \in 0 .. n : Level(b, i) = Level(p, i)
    BY <1>2, <1>5, <1>6 DEF Level
  <1>8. Levels(b) = Levels(p) /\ Levels(p) \subseteq 0 .. n
    BY <1>6, <1>7 DEF Levels
  <1> QED
    BY <1>6, <1>7, <1>8 DEF Gave, b

-----------------------------------------------------------------------------
(* The routes of a call                                                    *)

GoodTables(T) == T = [v \in RouterProviders |-> T[v]] /\ \A v \in RouterProviders : GoodPool(T[v])

\* From tables T to what `got` says one reservation was made, at one key of one
\* provider, or nothing was taken.
TablesTook(T, got, t) ==
    /\ GoodTables(got.providers)
    /\ got.slot # 0 => got.provider \in RouterProviders
    /\ \A w \in RouterProviders :
          Took(T[w], got.providers[w], IF w = got.provider THEN got.slot ELSE 0, t)
    /\ got.slot \in Nat

LEMMA TookNothing ==
    ASSUME NEW p, GoodPool(p), NEW t
    PROVE  Took(p, p, 0, t)
  <1>1. Len(p.slots) \in Nat /\ \A i \in Levels(p) : Level(p, i).inFlight \in Nat
    BY PoolParts
  <1> QED
    BY <1>1 DEF Took

\* From a pool to one with as many keys, and a ceiling if it had one, the levels stay.
LEMMA SameLevels ==
    ASSUME NEW p, GoodPool(p), NEW q, GoodPool(q), Len(q.slots) = Len(p.slots),
           q.limiter = None <=> p.limiter = None
    PROVE  Levels(q) = Levels(p)
  <1>1. \A x : GoodPool(x) => /\ 0 \in Levels(x) <=> x.limiter # None
                              /\ \A i \in 1 .. Len(x.slots) : i \in Levels(x)
                              /\ Levels(x) \subseteq 0 .. Len(x.slots)
    BY PoolParts DEF Levels
  <1>2. Len(p.slots) \in Nat
    BY PoolParts
  <1>3. /\ \A i \in 1 .. Len(p.slots) : i \in Levels(p) /\ i \in Levels(q)
        /\ 0 \in Levels(p) <=> 0 \in Levels(q)
        /\ Levels(p) \subseteq 0 .. Len(p.slots) /\ Levels(q) \subseteq 0 .. Len(p.slots)
    BY <1>1
  <1>4. \A i \in 0 .. Len(p.slots) : i = 0 \/ i \in 1 .. Len(p.slots)
    BY <1>2
  <1> QED
    BY <1>3, <1>4

LEMMA TookAfterNothing ==
    ASSUME NEW p, GoodPool(p), NEW q, NEW r, NEW k, NEW t, Took(p, q, 0, t), Took(q, r, k, t)
    PROVE  Took(p, r, k, t)
  <1>1. GoodPool(q) /\ Len(q.slots) = Len(p.slots) /\ (q.limiter = None <=> p.limiter = None)
    BY DEF Took
  <1>2. Levels(q) = Levels(p)
    BY <1>1, SameLevels
  <1>3. \A i \in Levels(p) : Level(q, i).inFlight = Level(p, i).inFlight /\ Level(p, i).inFlight \in Nat
    BY PoolParts DEF Took
  <1>4. \A i \in Levels(p) : Router!Room(Level(q, i), t) = Router!Room(Level(p, i), t)
    BY DEF Took
  <1> QED
    BY <1>1, <1>2, <1>3, <1>4 DEF Took

\* The next route.
LEMMA TriedNext ==
    ASSUME NEW T, GoodTables(T), NEW got, NEW v \in RouterProviders, NEW e \in Lease, NEW t \in Nat,
           TablesTook(T, got, t)
    PROVE  TablesTook(T, Router!Try(got, v, e, t), t)
  <1>1. CASE got.slot # 0
    BY <1>1 DEF Router!Try
  <1>2. CASE got.slot = 0
    <2> DEFINE U == got.providers
               a == Router!PoolAcquire(U[v], e, t)
               next == Router!Try(got, v, e, t)
               V == [U EXCEPT ![v] = a.pool]
    <2>1. /\ GoodTables(U) /\ \A w \in RouterProviders : Took(T[w], U[w], 0, t)
          /\ \A w \in RouterProviders : GoodPool(T[w]) /\ GoodPool(U[w])
      BY <1>2 DEF TablesTook, GoodTables
    <2>2. Took(U[v], a.pool, a.slot, t)
      BY <2>1, PoolTook
    <2>3. next = Router!RouteTo(U, v, a)
      BY <1>2 DEF Router!Try
    <2> HIDE DEF a
    <2>4. next.providers = V /\ next.provider = v /\ next.slot = a.slot
      BY <2>3 DEF Router!RouteTo
    <2> HIDE DEF next
    <2>5. U = [w \in RouterProviders |-> U[w]]
      BY <2>1 DEF GoodTables
    <2> HIDE DEF U
    <2>6. /\ V = [w \in RouterProviders |-> V[w]] /\ V[v] = a.pool
          /\ \A w \in RouterProviders : w # v => V[w] = U[w]
      BY <2>5
    <2>7. GoodPool(a.pool) /\ a.slot \in 0 .. Len(U[v].slots) /\ Len(U[v].slots) \in Nat
      BY <2>1, <2>2, PoolParts DEF Took
    <2> HIDE DEF V
    <2>8. GoodTables(V)
      BY <2>1, <2>6, <2>7 DEF GoodTables
    <2>9. \A w \in RouterProviders : Took(T[w], V[w], IF w = v THEN a.slot ELSE 0, t)
      <3> TAKE w \in RouterProviders
      <3>1. CASE w = v
        BY <2>1, <2>2, <2>6, <3>1, TookAfterNothing
      <3>2. CASE w # v
        BY <2>1, <2>6, <3>2
      <3> QED
        BY <3>1, <3>2
    <2>10. a.slot \in Nat
      BY <2>7
    <2> QED
      BY <2>4, <2>8, <2>9, <2>10 DEF TablesTook, next
  <1> QED
    BY <1>1, <1>2

\* The equation by which Served defines its function, for the first k routes.
Tries(F, T, e, t, routes, k) ==
    [n \in 0 .. k |-> IF n = 0 THEN [providers |-> T, provider |-> None, slot |-> 0]
                      ELSE Router!Try(F[n - 1], routes[n], e, t)]

LEMMA TriesExist ==
    ASSUME NEW T, NEW e, NEW t, NEW routes, NEW top \in Nat
    PROVE  \E F : F = Tries(F, T, e, t, routes, top)
  <1> DEFINE first == [providers |-> T, provider |-> None, slot |-> 0]
             Step(x, n) == Router!Try(x, routes[n], e, t)
             Of(F, k) == F = Tries(F, T, e, t, routes, k)
             C == {k \in Nat : ~ \E F : Of(F, k)}
  <1> SUFFICES ASSUME C # {} PROVE FALSE
    OBVIOUS
  <1>0. \A F, k : Tries(F, T, e, t, routes, k) = [n \in 0 .. k |-> IF n = 0 THEN first ELSE Step(F[n - 1], n)]
    BY DEF Tries
  <1> HIDE DEF Step, first
  <1>1. PICK k \in C : \A y \in C : k <= y
    <2>1. C \subseteq Nat
      OBVIOUS
    <2> HIDE DEF C
    <2> QED
      BY <2>1, LeastOfSome
  <1>2. k \in Nat /\ ~ \E F : Of(F, k)
    OBVIOUS
  <1>3. CASE k = 0
    <2> DEFINE Z == [n \in 0 .. 0 |-> first]
    <2>1. Z = [n \in 0 .. 0 |-> IF n = 0 THEN first ELSE Step(Z[n - 1], n)]
      OBVIOUS
    <2>2. Of(Z, 0)
      BY <1>0, <2>1
    <2> QED
      BY <1>2, <1>3, <2>2
  <1>4. CASE k # 0
    <2>1. k - 1 \in Nat /\ k - 1 \notin C
      BY <1>1, <1>2, <1>4
    <2>2. PICK F : Of(F, k - 1)
      BY <2>1
    <2>3. F = [n \in 0 .. k - 1 |-> IF n = 0 THEN first ELSE Step(F[n - 1], n)]
      BY <1>0, <2>2
    <2> DEFINE V == [n \in 0 .. k |-> IF n < k THEN F[n] ELSE Step(F[k - 1], k)]
    <2>4. ASSUME NEW n \in 0 .. k PROVE V[n] = IF n = 0 THEN first ELSE Step(V[n - 1], n)
      <3>1. CASE n = k
        <4>1. V[n - 1] = F[n - 1] /\ V[n] = Step(F[k - 1], k)
          BY <1>2, <1>4, <3>1
        <4> QED
          BY <1>4, <3>1, <4>1
      <3>2. CASE n # k
        <4>1. n \in 0 .. k - 1 /\ V[n] = F[n]
          BY <1>2, <3>2
        <4>2. n # 0 => V[n - 1] = F[n - 1]
          BY <1>2, <4>1
        <4>3. F[n] = IF n = 0 THEN first ELSE Step(F[n - 1], n)
          BY <2>3, <4>1
        <4> QED
          BY <4>1, <4>2, <4>3
      <3> QED
        BY <3>1, <3>2
    <2>5. V = [n \in 0 .. k |-> V[n]]
      OBVIOUS
    <2> HIDE DEF V
    <2>6. V = [n \in 0 .. k |-> IF n = 0 THEN first ELSE Step(V[n - 1], n)]
      BY <2>4, <2>5
    <2>7. Of(V, k)
      BY <1>0, <2>6
    <2> QED
      BY <1>2, <2>7
  <1> QED
    BY <1>3, <1>4

\* However many routes are tried, one reservation is made at one of them, or nothing
\* was taken at any.
LEMMA ServedTook ==
    ASSUME NEW T, GoodTables(T), NEW e \in Lease, NEW t \in Nat, NEW routes \in Seq(RouterProviders)
    PROVE  TablesTook(T, Router!Served(T, e, t, routes), t)
  <1> DEFINE L == Len(routes)
             Def(F) == Tries(F, T, e, t, routes, L)
             F0 == CHOOSE F : F = Def(F)
             Good(n) == TablesTook(T, F0[n], t)
  <1>1. L \in Nat /\ \A n \in 1 .. L : routes[n] \in RouterProviders
    OBVIOUS
  <1>2. Router!Served(T, e, t, routes) = F0[L]
    BY DEF Router!Served, Tries
  <1>3. \E F : F = Def(F)
    BY <1>1, TriesExist
  <1> HIDE DEF L
  <1>4. F0 = Def(F0)
    <2> HIDE DEF Def
    <2> QED
      BY <1>3, Zenon
  <1> HIDE DEF F0
  <1>5. /\ F0[0] = [providers |-> T, provider |-> None, slot |-> 0]
        /\ \A n \in 1 .. L : F0[n] = Router!Try(F0[n - 1], routes[n], e, t)
    <2>1. \A n \in 0 .. L : F0[n] = Def(F0)[n]
      BY <1>4
    <2>2. 0 \in 0 .. L /\ \A n \in 1 .. L : n \in 0 .. L /\ n # 0
      BY <1>1
    <2> QED
      BY <2>1, <2>2 DEF Tries
  <1>6. Good(0)
    <2>1. \A w \in RouterProviders : Took(T[w], T[w], 0, t)
      BY TookNothing DEF GoodTables
    <2> QED
      BY <1>5, <2>1 DEF TablesTook
  <1>7. \A n \in 1 .. L : Good(n - 1) => Good(n)
    BY <1>1, <1>5, TriedNext
  <1>8. Good(L)
    <2> DEFINE C == {n \in 0 .. L : ~Good(n)}
    <2> HIDE DEF Good
    <2> SUFFICES ASSUME C # {} PROVE FALSE
      BY <1>1
    <2>1. C \subseteq Nat
      BY <1>1
    <2>2. PICK x \in C : \A y \in C : x <= y
      <3> HIDE DEF C
      <3> QED
        BY <2>1, LeastOfSome
    <2>3. x \in 1 .. L /\ ~Good(x)
      BY <1>1, <1>6
    <2>4. x - 1 \in 0 .. L /\ x - 1 \notin C
      BY <1>1, <2>2, <2>3
    <2> QED
      BY <1>7, <2>3, <2>4
  <1> QED
    BY <1>2, <1>8

-----------------------------------------------------------------------------
(* The invariant.  LeasesBalance alone is not inductive: settling deducts  *)
(* without going below zero, so it needs every open call's ticket to name  *)
(* a key that exists, and the rollbacks give back what they took only from *)
(* buckets that hold no more than their ceilings.                          *)

RouterStages == {"idle", "started", "sent", "done", "refused", "abandoned"}

RouterTypes ==
    /\ pools \in [RouterPools -> Sound \cup {None}]
    /\ GoodTables(providers)
    /\ routerPc \in [Calls -> RouterStages]
    /\ routerAt \in [Calls -> Nat]
    /\ routerNow \in Nat

\* A call under way asks for a pool; one that was routed names a key of a provider.
RouterTickets ==
    /\ ticket = [c \in Calls |-> ticket[c]]
    /\ \A c \in Calls : routerPc[c] = "started" => ticket[c] \in [pool : RouterPools, lease : Lease]
    /\ \A c \in Router!Open :
          /\ ticket[c] \in [pool : RouterPools, provider : RouterProviders, slot : Nat, lease : Lease]
          /\ ticket[c].slot \in 1 .. Len(providers[ticket[c].provider].slots)

\* The calls that hold a reservation of a named pool, and at a level of a provider.
PoolHeld(n) == {c \in Router!Open : ticket[c].pool = n}
Held(v, i) == {c \in Router!Open : ticket[c].provider = v /\ (i = 0 \/ ticket[c].slot = i)}

PoolsBalance == \A n \in RouterPools : pools[n] # None => pools[n].inFlight = Cardinality(PoolHeld(n))
KeysBalance ==
    \A v \in RouterProviders : \A i \in Levels(providers[v]) :
        Level(providers[v], i).inFlight = Cardinality(Held(v, i))

RouterInv == RouterTypes /\ RouterTickets /\ PoolsBalance /\ KeysBalance

LEMMA HeldFinite ==
    /\ \A n : IsFiniteSet(PoolHeld(n)) /\ Cardinality(PoolHeld(n)) \in Nat
    /\ \A v, i : IsFiniteSet(Held(v, i)) /\ Cardinality(Held(v, i)) \in Nat
  <1>1. \A n : PoolHeld(n) \subseteq Calls
    BY DEF PoolHeld, Router!Open
  <1>2. \A v, i : Held(v, i) \subseteq Calls
    BY DEF Held, Router!Open
  <1>3. IsFiniteSet(Calls)
    BY CallsAssumption
  <1> QED
    BY <1>1, <1>2, <1>3, FS_Subset, FS_CardinalityType

\* The invariant says what LeasesBalance says.
LEMMA InvBalances == RouterInv => LeasesBalance
  <1> SUFFICES ASSUME RouterInv PROVE LeasesBalance
    OBVIOUS
  <1>1. \A n \in RouterPools : pools[n] # None =>
            pools[n].inFlight = Router!Cardinality({c \in Router!Open : ticket[c].pool = n})
    BY RouterCounts DEF RouterInv, PoolsBalance, PoolHeld
  <1>2. ASSUME NEW v \in RouterProviders
        PROVE  /\ providers[v].limiter # None =>
                     providers[v].limiter.inFlight = Router!Cardinality({c \in Router!Open : ticket[c].provider = v})
               /\ \A i \in Router!Positions(providers[v]) :
                     providers[v].slots[i].limiter.inFlight =
                         Router!Cardinality({c \in Router!Open : ticket[c].provider = v /\ ticket[c].slot = i})
    <2> DEFINE p == providers[v]
    <2>1. GoodPool(p)
      BY DEF RouterInv, RouterTypes, GoodTables
    <2>2. /\ Router!Positions(p) = 1 .. Len(p.slots) /\ Len(p.slots) \in Nat
          /\ \A i \in 1 .. Len(p.slots) : i \in Levels(p) /\ Level(p, i) = p.slots[i].limiter
          /\ 0 \in Levels(p) <=> p.limiter # None
      BY <2>1, PoolParts
    <2>3. \A i \in Levels(p) : Level(p, i).inFlight = Cardinality(Held(v, i))
      BY DEF RouterInv, KeysBalance
    <2>4. Level(p, 0) = p.limiter
      BY DEF Level
    <2>5. Held(v, 0) = {c \in Router!Open : ticket[c].provider = v}
      BY DEF Held
    <2>6. \A i \in 1 .. Len(p.slots) :
             Held(v, i) = {c \in Router!Open : ticket[c].provider = v /\ ticket[c].slot = i}
      BY <2>2 DEF Held
    <2> HIDE DEF p
    <2>7. p.limiter # None => p.limiter.inFlight = Cardinality(Held(v, 0))
      BY <2>2, <2>3, <2>4
    <2>8. \A i \in 1 .. Len(p.slots) : p.slots[i].limiter.inFlight = Cardinality(Held(v, i))
      BY <2>2, <2>3
    <2> QED
      BY <2>2, <2>5, <2>6, <2>7, <2>8, RouterCounts DEF p
  <1> QED
    BY <1>1, <1>2 DEF LeasesBalance, Router!LeasesBalance

\* How the sets of holders change.
LEMMA HoldersStay ==
    ASSUME Router!Open' = Router!Open, \A c \in Router!Open : ticket'[c] = ticket[c]
    PROVE  (\A n : PoolHeld(n)' = PoolHeld(n)) /\ \A v, i : Held(v, i)' = Held(v, i)
  BY DEF PoolHeld, Held

LEMMA HolderJoins ==
    ASSUME NEW c, c \notin Router!Open, Router!Open' = Router!Open \cup {c},
           \A d \in Router!Open : ticket'[d] = ticket[d]
    PROVE  /\ \A n : Cardinality(PoolHeld(n)') =
                        Cardinality(PoolHeld(n)) + (IF ticket'[c].pool = n THEN 1 ELSE 0)
           /\ \A v, i : Cardinality(Held(v, i)') =
                          Cardinality(Held(v, i)) +
                            (IF ticket'[c].provider = v /\ (i = 0 \/ ticket'[c].slot = i) THEN 1 ELSE 0)
  <1>1. \A n : PoolHeld(n)' = IF ticket'[c].pool = n THEN PoolHeld(n) \cup {c} ELSE PoolHeld(n)
    BY DEF PoolHeld
  <1>2. \A v, i : Held(v, i)' = IF ticket'[c].provider = v /\ (i = 0 \/ ticket'[c].slot = i)
                                  THEN Held(v, i) \cup {c} ELSE Held(v, i)
    BY DEF Held
  <1>3. (\A n : c \notin PoolHeld(n)) /\ \A v, i : c \notin Held(v, i)
    BY DEF PoolHeld, Held
  <1>4. \A S : IsFiniteSet(S) /\ c \notin S => Cardinality(S \cup {c}) = Cardinality(S) + 1
    BY FS_AddElement
  <1>5. ASSUME NEW n
        PROVE  Cardinality(PoolHeld(n)') = Cardinality(PoolHeld(n)) + (IF ticket'[c].pool = n THEN 1 ELSE 0)
    <2> DEFINE S == PoolHeld(n)
    <2>1. IsFiniteSet(S) /\ Cardinality(S) \in Nat /\ c \notin S
      BY <1>3, HeldFinite
    <2>2. PoolHeld(n)' = IF ticket'[c].pool = n THEN S \cup {c} ELSE S
      BY <1>1
    <2> HIDE DEF S
    <2> QED
      BY <1>4, <2>1, <2>2 DEF S
  <1>6. ASSUME NEW v, NEW i
        PROVE  Cardinality(Held(v, i)') = Cardinality(Held(v, i)) +
                   (IF ticket'[c].provider = v /\ (i = 0 \/ ticket'[c].slot = i) THEN 1 ELSE 0)
    <2> DEFINE S == Held(v, i)
               P == ticket'[c].provider = v /\ (i = 0 \/ ticket'[c].slot = i)
    <2>1. IsFiniteSet(S) /\ Cardinality(S) \in Nat /\ c \notin S
      BY <1>3, HeldFinite
    <2>2. Held(v, i)' = IF P THEN S \cup {c} ELSE S
      BY <1>2
    <2> HIDE DEF S, P
    <2>3. Cardinality(Held(v, i)') = Cardinality(S) + (IF P THEN 1 ELSE 0)
      BY <1>4, <2>1, <2>2
    <2> QED
      BY <2>3 DEF S, P
  <1> QED
    BY <1>5, <1>6

LEMMA HolderLeaves ==
    ASSUME NEW c \in Router!Open, Router!Open' = Router!Open \ {c}, ticket' = ticket
    PROVE  /\ \A n : Cardinality(PoolHeld(n)') =
                        IF ticket[c].pool = n THEN Less(Cardinality(PoolHeld(n)), 1) ELSE Cardinality(PoolHeld(n))
           /\ \A v, i : Cardinality(Held(v, i)') =
                          IF ticket[c].provider = v /\ (i = 0 \/ ticket[c].slot = i)
                            THEN Less(Cardinality(Held(v, i)), 1) ELSE Cardinality(Held(v, i))
  <1>1. \A n : /\ PoolHeld(n)' = IF ticket[c].pool = n THEN PoolHeld(n) \ {c} ELSE PoolHeld(n)
               /\ ticket[c].pool = n => c \in PoolHeld(n)
    BY DEF PoolHeld
  <1>2. \A v, i : /\ Held(v, i)' = IF ticket[c].provider = v /\ (i = 0 \/ ticket[c].slot = i)
                                     THEN Held(v, i) \ {c} ELSE Held(v, i)
                  /\ ticket[c].provider = v /\ (i = 0 \/ ticket[c].slot = i) => c \in Held(v, i)
    BY DEF Held
  <1>3. ASSUME NEW S, IsFiniteSet(S), c \in S PROVE Cardinality(S \ {c}) = Less(Cardinality(S), 1)
    <2>1. Cardinality(S) \in Nat /\ Cardinality(S \ {c}) \in Nat /\ Cardinality(S \ {c}) = Cardinality(S) - 1
      BY <1>3, FS_RemoveElement, FS_CardinalityType, FS_Subset
    <2> QED
      BY <2>1 DEF Less
  <1>4. ASSUME NEW n
        PROVE  Cardinality(PoolHeld(n)') =
                   IF ticket[c].pool = n THEN Less(Cardinality(PoolHeld(n)), 1) ELSE Cardinality(PoolHeld(n))
    BY <1>1, <1>3, HeldFinite
  <1>5. ASSUME NEW v, NEW i
        PROVE  Cardinality(Held(v, i)') =
                   IF ticket[c].provider = v /\ (i = 0 \/ ticket[c].slot = i)
                     THEN Less(Cardinality(Held(v, i)), 1) ELSE Cardinality(Held(v, i))
    BY <1>2, <1>3, HeldFinite
  <1> QED
    BY <1>4, <1>5

LEMMA FreshIsSound == \A l \in Fresh : l \in Sound /\ l.inFlight = 0
  <1> SUFFICES ASSUME NEW l \in Fresh PROVE l \in Sound /\ l.inFlight = 0
    OBVIOUS
  <1>1. l \in LimiterState /\ l.inFlight = 0 /\ \A b \in {l.rpm, l.tpm, l.rpd} \ {None} : b.tokens <= b.cap
    BY DEF Fresh
  <1>2. l.rpm \in Bucket \cup {None} /\ l.tpm \in Bucket \cup {None} /\ l.rpd \in Bucket \cup {None}
    BY <1>1 DEF LimiterState
  <1>3. l.rpm \in SoundBucket /\ l.tpm \in SoundBucket /\ l.rpd \in SoundBucket
    BY <1>1, <1>2 DEF SoundBucket
  <1> QED
    BY <1>1, <1>3, SoundParts

\* A provider as configured.
LEMMA FreshPool ==
    ASSUME NEW p \in Pool, p.limiter \in Fresh \cup {None},
           \A i \in Positions(p) : p.slots[i].limiter \in Fresh
    PROVE  GoodPool(p) /\ \A i \in Levels(p) : Level(p, i).inFlight = 0
  <1>1. /\ p = [strategy |-> p.strategy, limiter |-> p.limiter, slots |-> p.slots, cursor |-> p.cursor]
        /\ p.strategy \in Strategies /\ p.slots \in Seq(Slot) /\ p.cursor \in Nat
    BY DEF Pool
  <1>2. p.limiter \in Sound \cup {None}
    BY FreshIsSound
  <1> DEFINE n == Len(p.slots)
  <1>3. n \in Nat /\ p.slots \in [1 .. n -> Slot] /\ Positions(p) = 1 .. n
    BY <1>1 DEF Positions
  <1>4. \A i \in 1 .. n : p.slots[i] \in SlotOver(Int)
    <2> TAKE i \in 1 .. n
    <2>1. p.slots[i] \in Slot /\ p.slots[i].limiter \in Sound
      BY <1>3, FreshIsSound
    <2> QED
      BY <2>1 DEF Slot, SlotOver
  <1>5. p.slots \in [1 .. n -> SlotOver(Int)]
    BY <1>3, <1>4
  <1>6. p.slots \in Seq(SlotOver(Int))
    BY <1>3, <1>5, SeqOfFunction
  <1>7. GoodPool(p)
    <2> DEFINE S == Seq(SlotOver(Int))
    <2>1. p.slots \in S
      BY <1>6
    <2> HIDE DEF S
    <2>2. p \in [strategy : Strategies, limiter : Sound \cup {None}, slots : S, cursor : Nat]
      BY <1>1, <1>2, <2>1
    <2> QED
      BY <2>2 DEF GoodPool, PoolOver, S
  <1>8. \A i \in Levels(p) : Level(p, i).inFlight = 0
    <2> TAKE i \in Levels(p)
    <2>1. i \in 0 .. n /\ Level(p, i) # None
      BY DEF Levels
    <2>2. Level(p, i) \in Fresh
      BY <1>3, <2>1 DEF Level
    <2> QED
      BY <2>2, FreshIsSound
  <1> QED
    BY <1>7, <1>8

LEMMA RouterInvInit == Router!Init => RouterInv
  <1> SUFFICES ASSUME Router!Init PROVE RouterInv
    OBVIOUS
  <1>1. /\ pools = RouterPoolStart /\ providers \in RouterStarts
        /\ routerPc = [c \in Calls |-> "idle"] /\ routerAt = [c \in Calls |-> 0]
        /\ ticket = [c \in Calls |-> None] /\ routerNow = 0
    BY DEF Router!Init
  <1>2. \A n \in RouterPools : pools[n] \in Fresh \cup {None}
    BY <1>1, RouterAssumption
  <1>3. \A n \in RouterPools : pools[n] \in Sound \cup {None} /\ (pools[n] # None => pools[n].inFlight = 0)
    BY <1>2, FreshIsSound
  <1>4. pools \in [RouterPools -> Sound \cup {None}]
    BY <1>1, <1>3, RouterAssumption
  <1>5. /\ providers = [v \in RouterProviders |-> providers[v]]
        /\ \A v \in RouterProviders : providers[v] \in Pool
        /\ \A v \in RouterProviders : providers[v].limiter \in Fresh \cup {None}
        /\ \A v \in RouterProviders : \A i \in Positions(providers[v]) : providers[v].slots[i].limiter \in Fresh
    <2>1. /\ RouterStarts \subseteq [RouterProviders -> Pool]
          /\ \A tables \in RouterStarts : \A v \in RouterProviders :
                /\ tables[v].limiter \in Fresh \cup {None}
                /\ \A i \in Positions(tables[v]) : tables[v].slots[i].limiter \in Fresh
      BY RouterAssumption
    <2>2. providers \in [RouterProviders -> Pool]
      BY <1>1, <2>1
    <2> QED
      BY <1>1, <2>1, <2>2
  <1>6. \A v \in RouterProviders :
           GoodPool(providers[v]) /\ \A i \in Levels(providers[v]) : Level(providers[v], i).inFlight = 0
    BY <1>5, FreshPool
  <1>7. RouterTypes
    BY <1>1, <1>4, <1>5, <1>6 DEF RouterTypes, RouterStages, GoodTables
  <1>8. Router!Open = {}
    BY <1>1 DEF Router!Open
  <1>9. RouterTickets
    BY <1>1, <1>8 DEF RouterTickets
  <1>10. (\A n : PoolHeld(n) = {}) /\ \A v, i : Held(v, i) = {}
    BY <1>8 DEF PoolHeld, Held
  <1>11. PoolsBalance
    BY <1>3, <1>10, FS_EmptySet DEF PoolsBalance
  <1>12. KeysBalance
    BY <1>6, <1>10, FS_EmptySet DEF KeysBalance
  <1> QED
    BY <1>7, <1>9, <1>11, <1>12 DEF RouterInv

\* What a refused call leaves of the tables.
LEMMA BalanceStays ==
    ASSUME RouterInv, RouterTypes', Router!Open' = Router!Open,
           \A c \in Router!Open : ticket'[c] = ticket[c],
           \A n \in RouterPools : pools'[n] = None <=> pools[n] = None,
           \A n \in RouterPools : pools[n] # None => pools'[n].inFlight = pools[n].inFlight,
           \A v \in RouterProviders : Levels(providers'[v]) = Levels(providers[v]),
           \A v \in RouterProviders : \A i \in Levels(providers[v]) :
               Level(providers'[v], i).inFlight = Level(providers[v], i).inFlight
    PROVE  PoolsBalance' /\ KeysBalance'
  <1>1. (\A n : PoolHeld(n)' = PoolHeld(n)) /\ \A v, i : Held(v, i)' = Held(v, i)
    BY HoldersStay
  <1>2. PoolsBalance'
    BY <1>1 DEF RouterInv, PoolsBalance
  <1>3. KeysBalance'
    BY <1>1 DEF RouterInv, KeysBalance
  <1> QED
    BY <1>2, <1>3

\* Steps that touch no limiter.
LEMMA QuietStep ==
    ASSUME RouterInv, UNCHANGED <<pools, providers>>,
           routerPc' \in [Calls -> RouterStages], routerAt' \in [Calls -> Nat], routerNow' \in Nat,
           Router!Open' = Router!Open, RouterTickets',
           \A c \in Router!Open : ticket'[c] = ticket[c]
    PROVE  RouterInv'
  <1>1. RouterTypes'
    BY DEF RouterInv, RouterTypes, GoodTables
  <1>2. /\ \A n \in RouterPools : pools'[n] = pools[n]
        /\ \A v \in RouterProviders : providers'[v] = providers[v]
    OBVIOUS
  <1>3. PoolsBalance' /\ KeysBalance'
    BY <1>1, <1>2, BalanceStays
  <1> QED
    BY <1>1, <1>3 DEF RouterInv

LEMMA RouterStart ==
    ASSUME RouterInv, NEW c \in Calls, NEW n \in RouterPools, NEW e \in RouterEstimates, Router!Start(c, n, e)
    PROVE  RouterInv'
  <1>1. /\ routerPc[c] = "idle" /\ routerPc' = [routerPc EXCEPT ![c] = "started"]
        /\ routerAt' = [routerAt EXCEPT ![c] = routerNow]
        /\ ticket' = [ticket EXCEPT ![c] = [pool |-> n, lease |-> e]]
        /\ UNCHANGED <<pools, providers, routerNow>>
    BY DEF Router!Start
  <1>2. /\ routerPc \in [Calls -> RouterStages] /\ routerAt \in [Calls -> Nat] /\ routerNow \in Nat
        /\ ticket = [d \in Calls |-> ticket[d]]
    BY DEF RouterInv, RouterTypes, RouterTickets
  <1>3. /\ routerPc' \in [Calls -> RouterStages] /\ routerAt' \in [Calls -> Nat] /\ routerNow' \in Nat
        /\ ticket' = [d \in Calls |-> ticket'[d]] /\ ticket'[c] = [pool |-> n, lease |-> e]
        /\ \A d \in Calls : d # c => ticket'[d] = ticket[d] /\ routerPc'[d] = routerPc[d]
    BY <1>1, <1>2 DEF RouterStages
  <1>4. Router!Open' = Router!Open /\ c \notin Router!Open
    BY <1>1, <1>2 DEF Router!Open
  <1>5. [pool |-> n, lease |-> e] \in [pool : RouterPools, lease : Lease]
    BY RouterAssumption
  <1>6. \A d \in Router!Open : ticket'[d] = ticket[d]
    BY <1>3, <1>4 DEF Router!Open
  <1>7. RouterTickets'
    <2>1. \A d \in Calls : routerPc'[d] = "started" => ticket'[d] \in [pool : RouterPools, lease : Lease]
      BY <1>3, <1>5 DEF RouterInv, RouterTickets
    <2> QED
      BY <1>1, <1>3, <1>4, <1>6, <2>1 DEF RouterInv, RouterTickets
  <1> QED
    BY <1>1, <1>3, <1>4, <1>6, <1>7, QuietStep

LEMMA RouterAbandon ==
    ASSUME RouterInv, NEW c \in Calls, Router!Abandon(c)
    PROVE  RouterInv'
  <1>1. /\ routerPc[c] = "sent" /\ routerPc' = [routerPc EXCEPT ![c] = "abandoned"]
        /\ UNCHANGED <<pools, providers, routerNow, routerAt, ticket>>
    BY DEF Router!Abandon
  <1>2. routerPc \in [Calls -> RouterStages] /\ routerAt \in [Calls -> Nat] /\ routerNow \in Nat
    BY DEF RouterInv, RouterTypes
  <1>3. routerPc' \in [Calls -> RouterStages] /\ Router!Open' = Router!Open
    BY <1>1, <1>2 DEF RouterStages, Router!Open
  <1>4. \A d \in Calls : routerPc'[d] = "started" => routerPc[d] = "started"
    BY <1>1, <1>2
  <1>5. RouterTickets'
    BY <1>1, <1>3, <1>4 DEF RouterInv, RouterTickets
  <1> QED
    BY <1>1, <1>2, <1>3, <1>5, QuietStep

LEMMA RouterTick ==
    ASSUME RouterInv, Router!Tick
    PROVE  RouterInv'
  <1>1. routerNow' = routerNow + 1 /\ UNCHANGED <<pools, providers, routerPc, routerAt, ticket>>
    BY DEF Router!Tick
  <1>2. routerPc \in [Calls -> RouterStages] /\ routerAt \in [Calls -> Nat] /\ routerNow \in Nat
    BY DEF RouterInv, RouterTypes
  <1>3. Router!Open' = Router!Open
    BY <1>1 DEF Router!Open
  <1>4. RouterTickets'
    BY <1>1, <1>3 DEF RouterInv, RouterTickets
  <1> QED
    BY <1>1, <1>2, <1>3, <1>4, QuietStep

\* A call that was sent is settled at its key, its provider and its pool.
LEMMA SettleStep ==
    ASSUME RouterInv, NEW c \in Calls, routerPc[c] = "sent", NEW q, NEW m,
           Gave(providers[ticket[c].provider], q, ticket[c].slot),
           providers' = [providers EXCEPT ![ticket[c].provider] = q],
           pools' = [pools EXCEPT ![ticket[c].pool] = m],
           pools[ticket[c].pool] = None => m = None,
           pools[ticket[c].pool] # None => m \in Sound /\ m.inFlight = Less(pools[ticket[c].pool].inFlight, 1),
           routerPc' = [routerPc EXCEPT ![c] = "done"],
           UNCHANGED <<routerNow, routerAt, ticket>>
    PROVE  RouterInv'
  <1> DEFINE n == ticket[c].pool
             v == ticket[c].provider
             k == ticket[c].slot
  <1>1. /\ pools \in [RouterPools -> Sound \cup {None}] /\ GoodTables(providers)
        /\ routerPc \in [Calls -> RouterStages] /\ routerAt \in [Calls -> Nat] /\ routerNow \in Nat
    BY DEF RouterInv, RouterTypes
  <1>2. c \in Router!Open /\ Router!Open' = Router!Open \ {c} /\ routerPc' \in [Calls -> RouterStages]
    BY <1>1 DEF Router!Open, RouterStages
  <1>3. n \in RouterPools /\ v \in RouterProviders /\ k \in 1 .. Len(providers[v].slots)
    BY <1>2 DEF RouterInv, RouterTickets
  <1>4. /\ \A w \in RouterProviders : GoodPool(providers[w])
        /\ providers = [w \in RouterProviders |-> providers[w]]
    BY <1>1 DEF GoodTables
  <1>5. /\ providers' = [w \in RouterProviders |-> providers'[w]] /\ providers'[v] = q
        /\ \A w \in RouterProviders : w # v => providers'[w] = providers[w]
    BY <1>3, <1>4
  <1>6. /\ GoodPool(q) /\ Len(q.slots) = Len(providers[v].slots) /\ (q.limiter = None <=> providers[v].limiter = None)
        /\ \A i \in Levels(providers[v]) :
              Level(q, i).inFlight = IF i \in {0, k} THEN Less(Level(providers[v], i).inFlight, 1)
                                     ELSE Level(providers[v], i).inFlight
    BY DEF Gave
  <1>7. pools'[n] = m /\ \A o \in RouterPools : o # n => pools'[o] = pools[o]
    BY <1>1, <1>3
  <1>8. RouterTypes'
    <2>1. GoodTables(providers')
      BY <1>4, <1>5, <1>6 DEF GoodTables
    <2>2. pools' \in [RouterPools -> Sound \cup {None}]
      BY <1>1, <1>3
    <2>3. GoodTables(providers)'
      BY <2>1 DEF GoodTables
    <2> QED
      BY <1>1, <1>2, <2>2, <2>3 DEF RouterTypes
  <1>9. RouterTickets'
    <2>1. \A d \in Calls : routerPc'[d] = "started" => routerPc[d] = "started"
      BY <1>1
    <2>2. \A w \in RouterProviders : Len(providers'[w].slots) = Len(providers[w].slots)
      BY <1>5, <1>6
    <2>3. \A d \in Router!Open : ticket[d].provider \in RouterProviders
      BY DEF RouterInv, RouterTickets
    <2> QED
      BY <1>2, <2>1, <2>2, <2>3 DEF RouterInv, RouterTickets
  <1>10. /\ \A o : Cardinality(PoolHeld(o)') =
                      IF n = o THEN Less(Cardinality(PoolHeld(o)), 1) ELSE Cardinality(PoolHeld(o))
         /\ \A w, i : Cardinality(Held(w, i)') =
                        IF v = w /\ (i = 0 \/ k = i) THEN Less(Cardinality(Held(w, i)), 1)
                        ELSE Cardinality(Held(w, i))
    BY <1>2, HolderLeaves
  <1>11. PoolsBalance'
    <2>1. \A o \in RouterPools : pools'[o] # None => pools'[o].inFlight = Cardinality(PoolHeld(o)')
      <3> TAKE o \in RouterPools
      <3>1. CASE o = n
        BY <1>3, <1>7, <1>10, <3>1 DEF RouterInv, PoolsBalance
      <3>2. CASE o # n
        BY <1>7, <1>10, <3>2 DEF RouterInv, PoolsBalance
      <3> QED
        BY <3>1, <3>2
    <2> QED
      BY <2>1 DEF PoolsBalance
  <1>12. KeysBalance'
    <2>1. ASSUME NEW w \in RouterProviders, NEW i \in Levels(providers'[w])
          PROVE  Level(providers'[w], i).inFlight = Cardinality(Held(w, i)')
      <3>1. CASE w = v
        <4>1. Levels(q) = Levels(providers[v])
          BY <1>3, <1>4, <1>6, SameLevels
        <4>2. i \in Levels(providers[v]) /\ Level(providers'[w], i) = Level(q, i)
          BY <1>5, <2>1, <3>1, <4>1
        <4>3. Level(providers[v], i).inFlight = Cardinality(Held(v, i))
          BY <1>3, <4>2 DEF RouterInv, KeysBalance
        <4> QED
          BY <1>6, <1>10, <3>1, <4>2, <4>3
      <3>2. CASE w # v
        <4>1. providers'[w] = providers[w]
          BY <1>5, <3>2
        <4>2. Level(providers[w], i).inFlight = Cardinality(Held(w, i))
          BY <2>1, <4>1 DEF RouterInv, KeysBalance
        <4> QED
          BY <1>10, <3>2, <4>1, <4>2
      <3> QED
        BY <3>1, <3>2
    <2>2. \A w, i : Level(providers[w], i)' = Level(providers'[w], i) /\ Levels(providers[w])' = Levels(providers'[w])
      BY DEF Level, Levels
    <2> QED
      BY <2>1, <2>2 DEF KeysBalance
  <1> QED
    BY <1>8, <1>9, <1>11, <1>12 DEF RouterInv

LEMMA RouterReconcile ==
    ASSUME RouterInv, NEW c \in Calls, NEW u \in RouterUsages, Router!Reconcile(c, u)
    PROVE  RouterInv'
  <1> DEFINE v == ticket[c].provider
             k == ticket[c].slot
             n == ticket[c].pool
             e == ticket[c].lease
             t == routerAt[c]
             q == Router!PoolReconcile(providers[v], k, e, u, t)
             m == Router!CeilingReconciled(pools[n], e, u, t)
  <1>0. routerPc[c] = "sent" /\ c \in Router!Open
    BY DEF Router!Reconcile, Router!Open
  <1>1. /\ n \in RouterPools /\ v \in RouterProviders /\ e \in Lease /\ t \in Nat
        /\ k \in 1 .. Len(providers[v].slots) /\ GoodPool(providers[v])
        /\ pools \in [RouterPools -> Sound \cup {None}]
        /\ providers = [w \in RouterProviders |-> providers[w]]
    BY <1>0 DEF RouterInv, RouterTypes, RouterTickets, GoodTables
  <1>2. u \in Lease
    BY RouterAssumption
  <1>3. /\ providers' = [providers EXCEPT ![v] = q]
        /\ pools' = [pools EXCEPT ![n] = m]
        /\ routerPc' = [routerPc EXCEPT ![c] = "done"] /\ UNCHANGED <<routerNow, routerAt, ticket>>
    <2>1. /\ providers' = [providers EXCEPT ![v] = Router!PoolReconcile(@, k, e, u, t)]
          /\ pools' = [pools EXCEPT ![n] = Router!CeilingReconciled(@, e, u, t)]
          /\ routerPc' = [routerPc EXCEPT ![c] = "done"] /\ UNCHANGED <<routerNow, routerAt, ticket>>
      BY DEF Router!Reconcile
    <2> QED
      BY <1>1, <2>1
  <1>4. Gave(providers[v], q, k)
    BY <1>1, <1>2, PoolReconciled
  <1>5. /\ pools[n] = None => m = None
        /\ pools[n] # None => m \in Sound /\ m.inFlight = Less(pools[n].inFlight, 1)
    <2>1. pools[n] \in Sound \cup {None}
      BY <1>1
    <2> QED
      BY <1>1, <1>2, <2>1, SameSettled, SettleSound DEF Router!CeilingReconciled
  <1> HIDE DEF q, m
  <1> QED
    BY <1>0, <1>3, <1>4, <1>5, SettleStep

LEMMA RouterRelease ==
    ASSUME RouterInv, NEW c \in Calls, NEW auth \in BOOLEAN, Router!Release(c, auth)
    PROVE  RouterInv'
  <1> DEFINE v == ticket[c].provider
             k == ticket[c].slot
             n == ticket[c].pool
             e == ticket[c].lease
             t == routerAt[c]
             p == IF auth THEN Router!MarkUnhealthy(providers[v], k) ELSE providers[v]
             q == Router!PoolRelease(p, k, e, t)
             m == Router!CeilingReleased(pools[n], e, t)
  <1>0. routerPc[c] = "sent" /\ c \in Router!Open
    BY DEF Router!Release, Router!Open
  <1>1. /\ n \in RouterPools /\ v \in RouterProviders /\ e \in Lease /\ t \in Nat
        /\ k \in 1 .. Len(providers[v].slots) /\ GoodPool(providers[v])
        /\ pools \in [RouterPools -> Sound \cup {None}]
    BY <1>0 DEF RouterInv, RouterTypes, RouterTickets, GoodTables
  <1>2. /\ providers' = [providers EXCEPT ![v] = q]
        /\ pools' = [pools EXCEPT ![n] = m]
        /\ routerPc' = [routerPc EXCEPT ![c] = "done"] /\ UNCHANGED <<routerNow, routerAt, ticket>>
    <2>1. /\ providers' = [providers EXCEPT ![v] = q]
          /\ pools' = [pools EXCEPT ![n] = Router!CeilingReleased(@, e, t)]
          /\ routerPc' = [routerPc EXCEPT ![c] = "done"] /\ UNCHANGED <<routerNow, routerAt, ticket>>
      BY DEF Router!Release
    <2> HIDE DEF q
    <2> QED
      BY <1>1, <2>1
  <1>3. Gave(providers[v], q, k)
    <2>1. CASE auth
      <3> DEFINE b == Router!MarkUnhealthy(providers[v], k)
      <3>1. /\ GoodPool(b) /\ Len(b.slots) = Len(providers[v].slots)
            /\ \A x : Gave(b, x, k) => Gave(providers[v], x, k)
        BY <1>1, PoolBenched
      <3>2. p = b
        BY <2>1
      <3> HIDE DEF b, p
      <3>3. k \in 1 .. Len(b.slots)
        BY <1>1, <3>1
      <3>4. Gave(b, Router!PoolRelease(b, k, e, t), k)
        BY <1>1, <3>1, <3>3, PoolReleased
      <3> QED
        BY <3>1, <3>2, <3>4
    <2>2. CASE ~auth
      <3>1. p = providers[v]
        BY <2>2
      <3> HIDE DEF p
      <3> QED
        BY <1>1, <3>1, PoolReleased
    <2> QED
      BY <2>1, <2>2
  <1>4. /\ pools[n] = None => m = None
        /\ pools[n] # None => m \in Sound /\ m.inFlight = Less(pools[n].inFlight, 1)
    <2>1. pools[n] \in Sound \cup {None}
      BY <1>1
    <2> QED
      BY <1>1, <2>1, SameSettled, SettleSound DEF Router!CeilingReleased
  <1> HIDE DEF q, m
  <1> QED
    BY <1>0, <1>2, <1>3, <1>4, SettleStep

\* What a call's being refused may do to the others' limiters: nothing they can feel.
RefusalFree(c) ==
    /\ \A n \in RouterPools : pools[n] # None =>
           Router!Room(pools'[n], routerAt[c]) = Router!Room(pools[n], routerAt[c])
    /\ \A v \in RouterProviders :
           /\ providers[v].limiter # None =>
                  Router!Room(providers'[v].limiter, routerAt[c]) = Router!Room(providers[v].limiter, routerAt[c])
           /\ \A i \in Router!Positions(providers[v]) :
                  Router!Room(providers'[v].slots[i].limiter, routerAt[c])
                      = Router!Room(providers[v].slots[i].limiter, routerAt[c])

\* A call that is refused, at the pool's ceiling or by every route.
LEMMA RefusedStep ==
    ASSUME RouterInv, NEW c \in Calls, routerPc[c] = "started", NEW n \in RouterPools, NEW m,
           pools' = [pools EXCEPT ![n] = m],
           m = None <=> pools[n] = None,
           pools[n] # None => /\ m \in Sound /\ m.inFlight = pools[n].inFlight
                              /\ Router!Room(m, routerAt[c]) = Router!Room(pools[n], routerAt[c]),
           GoodTables(providers'),
           \A v \in RouterProviders : Took(providers[v], providers'[v], 0, routerAt[c]),
           routerPc' = [routerPc EXCEPT ![c] = "refused"],
           UNCHANGED <<routerNow, routerAt, ticket>>
    PROVE  RouterInv' /\ RefusalFree(c)
  <1>1. /\ pools \in [RouterPools -> Sound \cup {None}] /\ GoodTables(providers)
        /\ routerPc \in [Calls -> RouterStages] /\ routerAt \in [Calls -> Nat] /\ routerNow \in Nat
    BY DEF RouterInv, RouterTypes
  <1>2. Router!Open' = Router!Open /\ routerPc' \in [Calls -> RouterStages]
    BY <1>1 DEF Router!Open, RouterStages
  <1>3. pools'[n] = m /\ \A o \in RouterPools : o # n => pools'[o] = pools[o]
    BY <1>1
  <1>4. \A v \in RouterProviders :
           /\ GoodPool(providers[v]) /\ GoodPool(providers'[v])
           /\ Len(providers'[v].slots) = Len(providers[v].slots)
           /\ providers'[v].limiter = None <=> providers[v].limiter = None
           /\ \A i \in Levels(providers[v]) :
                 Level(providers'[v], i).inFlight = Level(providers[v], i).inFlight + 0
           /\ \A i \in Levels(providers[v]) :
                 Router!Room(Level(providers'[v], i), routerAt[c]) = Router!Room(Level(providers[v], i), routerAt[c])
    BY <1>1 DEF Took, GoodTables
  <1>5. RouterTypes'
    <2>1. pools' \in [RouterPools -> Sound \cup {None}]
      BY <1>1
    <2>2. GoodTables(providers)'
      BY DEF GoodTables
    <2> QED
      BY <1>1, <1>2, <2>1, <2>2 DEF RouterTypes
  <1>6. RouterTickets'
    <2>1. \A d \in Calls : routerPc'[d] = "started" => routerPc[d] = "started"
      BY <1>1
    <2>2. \A d \in Router!Open : ticket[d].provider \in RouterProviders
      BY DEF RouterInv, RouterTickets
    <2> QED
      BY <1>2, <1>4, <2>1, <2>2 DEF RouterInv, RouterTickets
  <1>7. \A v \in RouterProviders : \A i \in Levels(providers[v]) :
           Level(providers'[v], i).inFlight = Level(providers[v], i).inFlight
    <2> TAKE v \in RouterProviders
    <2> TAKE i \in Levels(providers[v])
    <2>1. Level(providers[v], i).inFlight \in Nat
      BY <1>4, PoolParts
    <2>2. Level(providers'[v], i).inFlight = Level(providers[v], i).inFlight + 0
      BY <1>4
    <2> QED
      BY <2>1, <2>2
  <1>8. \A v \in RouterProviders : Levels(providers'[v]) = Levels(providers[v])
    BY <1>4, SameLevels
  <1>9. /\ \A o \in RouterPools : pools'[o] = None <=> pools[o] = None
        /\ \A o \in RouterPools : pools[o] # None => pools'[o].inFlight = pools[o].inFlight
    BY <1>3
  <1>10. PoolsBalance' /\ KeysBalance'
    BY <1>2, <1>5, <1>7, <1>8, <1>9, BalanceStays
  <1>11. RefusalFree(c)
    <2>1. \A o \in RouterPools : pools[o] # None =>
             Router!Room(pools'[o], routerAt[c]) = Router!Room(pools[o], routerAt[c])
      BY <1>3
    <2>2. ASSUME NEW v \in RouterProviders
          PROVE  /\ providers[v].limiter # None =>
                      Router!Room(providers'[v].limiter, routerAt[c]) = Router!Room(providers[v].limiter, routerAt[c])
                 /\ \A i \in Router!Positions(providers[v]) :
                      Router!Room(providers'[v].slots[i].limiter, routerAt[c])
                          = Router!Room(providers[v].slots[i].limiter, routerAt[c])
      <3> DEFINE p == providers[v]
                 q == providers'[v]
                 t == routerAt[c]
      <3>1. /\ GoodPool(p) /\ GoodPool(q) /\ Len(q.slots) = Len(p.slots)
            /\ \A i \in Levels(p) : Router!Room(Level(q, i), t) = Router!Room(Level(p, i), t)
        BY <1>4
      <3> HIDE DEF p, q, t
      <3>2. /\ 0 \in Levels(p) <=> p.limiter # None
            /\ Router!Positions(p) = 1 .. Len(p.slots)
            /\ \A i \in 1 .. Len(p.slots) : i \in Levels(p) /\ Level(p, i) = p.slots[i].limiter
            /\ \A i \in 1 .. Len(p.slots) : Level(q, i) = q.slots[i].limiter
            /\ Level(p, 0) = p.limiter /\ Level(q, 0) = q.limiter
        BY <3>1, PoolParts DEF Level
      <3>3. p.limiter # None => Router!Room(q.limiter, t) = Router!Room(p.limiter, t)
        BY <3>1, <3>2
      <3>4. \A i \in Router!Positions(p) : Router!Room(q.slots[i].limiter, t) = Router!Room(p.slots[i].limiter, t)
        BY <3>1, <3>2
      <3> QED
        BY <3>3, <3>4 DEF p, q, t
    <2> QED
      BY <2>1, <2>2 DEF RefusalFree
  <1> QED
    BY <1>5, <1>6, <1>10, <1>11 DEF RouterInv

\* A call that is served.
LEMMA SentStep ==
    ASSUME RouterInv, NEW c \in Calls, routerPc[c] = "started", NEW n \in RouterPools, NEW m,
           NEW v \in RouterProviders, NEW k \in Nat \ {0}, NEW e \in Lease,
           pools' = [pools EXCEPT ![n] = m],
           m = None <=> pools[n] = None,
           pools[n] # None => m \in Sound /\ m.inFlight = pools[n].inFlight + 1,
           GoodTables(providers'),
           \A w \in RouterProviders : Took(providers[w], providers'[w], IF w = v THEN k ELSE 0, routerAt[c]),
           routerPc' = [routerPc EXCEPT ![c] = "sent"],
           ticket' = [ticket EXCEPT ![c] = [pool |-> n, provider |-> v, slot |-> k, lease |-> e]],
           UNCHANGED <<routerNow, routerAt>>
    PROVE  RouterInv'
  <1> DEFINE tk == [pool |-> n, provider |-> v, slot |-> k, lease |-> e]
  <1>1. /\ pools \in [RouterPools -> Sound \cup {None}] /\ GoodTables(providers)
        /\ routerPc \in [Calls -> RouterStages] /\ routerAt \in [Calls -> Nat] /\ routerNow \in Nat
        /\ ticket = [d \in Calls |-> ticket[d]]
    BY DEF RouterInv, RouterTypes, RouterTickets
  <1>2. /\ c \notin Router!Open /\ Router!Open' = Router!Open \cup {c}
        /\ routerPc' \in [Calls -> RouterStages]
    BY <1>1 DEF Router!Open, RouterStages
  <1>3. pools'[n] = m /\ \A o \in RouterPools : o # n => pools'[o] = pools[o]
    BY <1>1
  <1>4. /\ ticket'[c] = tk /\ ticket' = [d \in Calls |-> ticket'[d]]
        /\ \A d \in Calls : d # c => ticket'[d] = ticket[d] /\ routerPc'[d] = routerPc[d]
        /\ routerPc'[c] = "sent"
    BY <1>1
  <1>5. /\ tk \in [pool : RouterPools, provider : RouterProviders, slot : Nat, lease : Lease]
        /\ tk.pool = n /\ tk.provider = v /\ tk.slot = k
    OBVIOUS
  <1>6. \A w \in RouterProviders :
           /\ GoodPool(providers[w]) /\ GoodPool(providers'[w])
           /\ Len(providers'[w].slots) = Len(providers[w].slots)
           /\ providers'[w].limiter = None <=> providers[w].limiter = None
           /\ (IF w = v THEN k ELSE 0) \in 0 .. Len(providers[w].slots)
           /\ \A i \in Levels(providers[w]) :
                 Level(providers'[w], i).inFlight = Level(providers[w], i).inFlight
                     + (IF (IF w = v THEN k ELSE 0) # 0 /\ i \in {0, IF w = v THEN k ELSE 0} THEN 1 ELSE 0)
    BY <1>1 DEF Took, GoodTables
  <1> HIDE DEF tk
  <1>7. RouterTypes'
    <2>1. pools' \in [RouterPools -> Sound \cup {None}]
      BY <1>1
    <2>2. GoodTables(providers)'
      BY DEF GoodTables
    <2> QED
      BY <1>1, <1>2, <2>1, <2>2 DEF RouterTypes
  <1>8. \A d \in Router!Open : d \in Calls /\ d # c /\ ticket'[d] = ticket[d]
    BY <1>2, <1>4 DEF Router!Open
  <1>9. RouterTickets'
    <2>1. \A d \in Calls : routerPc'[d] = "started" => ticket'[d] \in [pool : RouterPools, lease : Lease]
      BY <1>4 DEF RouterInv, RouterTickets
    <2>2. k \in 1 .. Len(providers'[v].slots)
      <3>1. k \in 0 .. Len(providers[v].slots)
        BY <1>6
      <3>2. k \in 1 .. Len(providers[v].slots)
        BY <3>1
      <3> QED
        BY <1>6, <3>2
    <2>3. ASSUME NEW d \in Router!Open'
          PROVE  /\ ticket'[d] \in [pool : RouterPools, provider : RouterProviders, slot : Nat, lease : Lease]
                 /\ ticket'[d].slot \in 1 .. Len(providers'[ticket'[d].provider].slots)
      <3>1. CASE d = c
        BY <1>4, <1>5, <2>2, <3>1
      <3>2. CASE d # c
        <4>1. d \in Router!Open /\ ticket'[d] = ticket[d]
          BY <1>2, <1>8, <3>2
        <4>2. /\ ticket[d] \in [pool : RouterPools, provider : RouterProviders, slot : Nat, lease : Lease]
              /\ ticket[d].slot \in 1 .. Len(providers[ticket[d].provider].slots)
              /\ ticket[d].provider \in RouterProviders
          BY <4>1 DEF RouterInv, RouterTickets
        <4> QED
          BY <1>6, <4>1, <4>2
      <3> QED
        BY <3>1, <3>2
    <2> QED
      BY <1>4, <2>1, <2>3 DEF RouterTickets
  <1>10. /\ \A o : Cardinality(PoolHeld(o)') = Cardinality(PoolHeld(o)) + (IF n = o THEN 1 ELSE 0)
         /\ \A w, i : Cardinality(Held(w, i)') =
                        Cardinality(Held(w, i)) + (IF v = w /\ (i = 0 \/ k = i) THEN 1 ELSE 0)
    <2>1. \A d \in Router!Open : ticket'[d] = ticket[d]
      BY <1>8
    <2> QED
      BY <1>2, <1>4, <1>5, <2>1, HolderJoins
  <1>11. PoolsBalance'
    <2>1. ASSUME NEW o \in RouterPools, pools'[o] # None PROVE pools'[o].inFlight = Cardinality(PoolHeld(o)')
      <3>1. CASE o = n
        BY <1>3, <1>10, <2>1, <3>1 DEF RouterInv, PoolsBalance
      <3>2. CASE o # n
        <4>1. pools[o].inFlight = Cardinality(PoolHeld(o))
          BY <1>3, <2>1, <3>2 DEF RouterInv, PoolsBalance
        <4>2. Cardinality(PoolHeld(o)') = Cardinality(PoolHeld(o)) + 0 /\ Cardinality(PoolHeld(o)) \in Nat
          BY <1>10, <3>2, HeldFinite
        <4> QED
          BY <1>3, <3>2, <4>1, <4>2
      <3> QED
        BY <3>1, <3>2
    <2> QED
      BY <2>1 DEF PoolsBalance
  <1>12. KeysBalance'
    <2>1. ASSUME NEW w \in RouterProviders, NEW i \in Levels(providers'[w])
          PROVE  Level(providers'[w], i).inFlight = Cardinality(Held(w, i)')
      <3>1. Levels(providers'[w]) = Levels(providers[w])
        BY <1>6, SameLevels
      <3>2. i \in Levels(providers[w]) /\ Level(providers[w], i).inFlight = Cardinality(Held(w, i))
            /\ Cardinality(Held(w, i)) \in Nat
        BY <2>1, <3>1, HeldFinite DEF RouterInv, KeysBalance
      <3>3. CASE w = v
        <4>1. Level(providers'[w], i).inFlight = Level(providers[w], i).inFlight + (IF i \in {0, k} THEN 1 ELSE 0)
          BY <1>6, <3>2, <3>3
        <4> QED
          BY <1>10, <3>2, <3>3, <4>1
      <3>4. CASE w # v
        <4>1. Level(providers'[w], i).inFlight = Level(providers[w], i).inFlight + 0
          BY <1>6, <3>2, <3>4
        <4>2. Cardinality(Held(w, i)') = Cardinality(Held(w, i)) + 0
          BY <1>10, <3>4
        <4> QED
          BY <3>2, <4>1, <4>2
      <3> QED
        BY <3>3, <3>4
    <2>2. \A w, i : Level(providers[w], i)' = Level(providers'[w], i) /\ Levels(providers[w])' = Levels(providers'[w])
      BY DEF Level, Levels
    <2> QED
      BY <2>1, <2>2 DEF KeysBalance
  <1> QED
    BY <1>7, <1>9, <1>11, <1>12 DEF RouterInv

\* The ceiling of a named pool, asked and, when nothing served, given back.
LEMMA CeilingAsked ==
    ASSUME NEW l \in Sound \cup {None}, NEW e \in Lease, NEW t \in Nat
    PROVE  /\ Router!CeilingAcquired(l, e, t) = None <=> l = None
           /\ ~Router!CeilingAdmits(l, e, t) =>
                 /\ l # None /\ Router!CeilingAcquired(l, e, t) \in Sound
                 /\ Router!CeilingAcquired(l, e, t).inFlight = l.inFlight
                 /\ Router!Room(Router!CeilingAcquired(l, e, t), t) = Router!Room(l, t)
           /\ Router!CeilingAdmits(l, e, t) /\ l # None =>
                 /\ Router!CeilingAcquired(l, e, t) \in Sound
                 /\ Router!CeilingAcquired(l, e, t).inFlight = l.inFlight + 1
           /\ Router!CeilingAdmits(l, e, t) =>
                 LET z == Router!CeilingReleased(Router!CeilingAcquired(l, e, t), e, t)
                 IN /\ z = None <=> l = None
                    /\ l # None => z \in Sound /\ z.inFlight = l.inFlight /\ Router!Room(z, t) = Router!Room(l, t)
  <1>1. CASE l = None
    BY <1>1 DEF Router!CeilingAcquired, Router!CeilingAdmits, Router!CeilingReleased
  <1>2. CASE l # None
    <2> DEFINE a == Router!CeilingAcquired(l, e, t)
    <2>1. /\ l \in Sound /\ l.inFlight \in Nat
          /\ a = AfterAcquire(l, e, t)
          /\ Router!CeilingAdmits(l, e, t) <=> Admits(l, e, t)
      BY <1>2, SoundIsState, SameAcquire, SameRefusal DEF Router!CeilingAcquired, Router!CeilingAdmits
    <2>2. /\ a \in Sound /\ a # None
          /\ a.inFlight = l.inFlight + (IF Admits(l, e, t) THEN 1 ELSE 0)
          /\ ~Admits(l, e, t) => Router!Room(a, t) = Router!Room(l, t)
      BY <2>1, AcquireRoom, SoundIsState
    <2>3. Router!CeilingReleased(a, e, t) = AfterRelease(a, e, t)
      BY <2>2, SameSettled DEF Router!CeilingReleased
    <2> HIDE DEF a
    <2>4. Admits(l, e, t) =>
              /\ AfterRelease(a, e, t) \in Sound /\ AfterRelease(a, e, t).inFlight = l.inFlight
              /\ Router!Room(AfterRelease(a, e, t), t) = Router!Room(l, t)
      BY <2>1, CeilingBack
    <2>5. Admits(l, e, t) => AfterRelease(a, e, t) # None
      BY <2>4, SoundIsState
    <2> QED
      BY <1>2, <2>1, <2>2, <2>3, <2>4, <2>5 DEF a
  <1> QED
    BY <1>1, <1>2

LEMMA RouterAcquire ==
    ASSUME RouterInv, NEW c \in Calls, Router!Acquire(c)
    PROVE  RouterInv' /\ (routerPc'[c] = "refused" => RefusalFree(c))
  <1> DEFINE n == ticket[c].pool
             e == ticket[c].lease
             t == routerAt[c]
             l == pools[n]
             a == Router!CeilingAcquired(l, e, t)
             z == Router!CeilingReleased(a, e, t)
             got == Router!Served(providers, e, t, RouterRoutes[n])
  <1>0. /\ routerPc[c] = "started" /\ UNCHANGED <<routerNow, routerAt>>
        /\ IF Router!CeilingAdmits(l, e, t) THEN Router!Dispatch(c, n, e, a, got)
           ELSE /\ pools' = [pools EXCEPT ![n] = a]
                /\ routerPc' = [routerPc EXCEPT ![c] = "refused"]
                /\ UNCHANGED <<providers, ticket>>
    BY DEF Router!Acquire
  <1>1. /\ n \in RouterPools /\ e \in Lease /\ t \in Nat /\ l \in Sound \cup {None}
        /\ GoodTables(providers)
        /\ routerPc \in [Calls -> RouterStages]
    BY <1>0 DEF RouterInv, RouterTypes, RouterTickets
  <1>2. /\ a = None <=> l = None
        /\ ~Router!CeilingAdmits(l, e, t) =>
              l # None /\ a \in Sound /\ a.inFlight = l.inFlight /\ Router!Room(a, t) = Router!Room(l, t)
        /\ Router!CeilingAdmits(l, e, t) /\ l # None => a \in Sound /\ a.inFlight = l.inFlight + 1
        /\ Router!CeilingAdmits(l, e, t) =>
              /\ z = None <=> l = None
              /\ l # None => z \in Sound /\ z.inFlight = l.inFlight /\ Router!Room(z, t) = Router!Room(l, t)
    BY <1>1, CeilingAsked
  <1>3. /\ GoodTables(got.providers) /\ got.slot \in Nat
        /\ got.slot # 0 => got.provider \in RouterProviders
        /\ \A w \in RouterProviders :
              Took(providers[w], got.providers[w], IF w = got.provider THEN got.slot ELSE 0, t)
    <2>1. RouterRoutes[n] \in Seq(RouterProviders)
      BY <1>1, RouterAssumption
    <2>2. TablesTook(providers, got, t)
      BY <1>1, <2>1, ServedTook
    <2> QED
      BY <2>2 DEF TablesTook
  <1> HIDE DEF a, z, got
  <1>4. CASE ~Router!CeilingAdmits(l, e, t)
    <2>1. pools' = [pools EXCEPT ![n] = a] /\ routerPc' = [routerPc EXCEPT ![c] = "refused"]
          /\ UNCHANGED <<providers, ticket, routerNow, routerAt>>
      BY <1>0, <1>4
    <2>2. GoodTables(providers') /\ \A v \in RouterProviders : Took(providers[v], providers'[v], 0, t)
      BY <1>1, <2>1, TookNothing DEF GoodTables
    <2> QED
      BY <1>0, <1>1, <1>2, <1>4, <2>1, <2>2, RefusedStep
  <1>5. CASE Router!CeilingAdmits(l, e, t)
    <2>0. Router!Dispatch(c, n, e, a, got)
      BY <1>0, <1>5
    <2>1. CASE got.slot = 0
      <3>1. /\ providers' = got.providers /\ pools' = [pools EXCEPT ![n] = z]
            /\ routerPc' = [routerPc EXCEPT ![c] = "refused"]
            /\ UNCHANGED <<ticket, routerNow, routerAt>>
        BY <1>0, <2>0, <2>1 DEF Router!Dispatch, z
      <3>2. \A v \in RouterProviders : Took(providers[v], providers'[v], 0, t)
        BY <1>3, <2>1, <3>1
      <3>3. GoodTables(providers')
        BY <1>3, <3>1
      <3> QED
        BY <1>0, <1>1, <1>2, <1>5, <3>1, <3>2, <3>3, RefusedStep
    <2>2. CASE got.slot # 0
      <3> DEFINE v == got.provider
                 k == got.slot
      <3>1. /\ providers' = got.providers /\ pools' = [pools EXCEPT ![n] = a]
            /\ routerPc' = [routerPc EXCEPT ![c] = "sent"]
            /\ ticket' = [ticket EXCEPT ![c] = [pool |-> n, provider |-> v, slot |-> k, lease |-> e]]
            /\ UNCHANGED <<routerNow, routerAt>>
        BY <1>0, <2>0, <2>2 DEF Router!Dispatch
      <3>2. /\ v \in RouterProviders /\ k \in Nat \ {0}
            /\ GoodTables(providers')
            /\ \A w \in RouterProviders : Took(providers[w], providers'[w], IF w = v THEN k ELSE 0, t)
        BY <1>3, <2>2, <3>1
      <3> HIDE DEF v, k
      <3>3. RouterInv'
        <4>1. /\ a = None <=> l = None
              /\ l # None => a \in Sound /\ a.inFlight = l.inFlight + 1
              /\ n \in RouterPools /\ e \in Lease /\ routerPc[c] = "started"
          BY <1>0, <1>1, <1>2, <1>5
        <4> HIDE DEF n, e, t
        <4> QED
          BY <3>1, <3>2, <4>1, SentStep DEF l, t
      <3>4. routerPc'[c] = "sent"
        BY <1>1, <3>1
      <3> QED
        BY <3>3, <3>4
    <2> QED
      BY <2>1, <2>2
  <1> QED
    BY <1>4, <1>5

LEMMA RouterInvNext == RouterInv /\ [Router!Next]_(Router!vars) => RouterInv'
  <1> SUFFICES ASSUME RouterInv, [Router!Next]_(Router!vars) PROVE RouterInv'
    OBVIOUS
  <1>1. ASSUME NEW c \in Calls, NEW n \in RouterPools, NEW e \in RouterEstimates, Router!Start(c, n, e)
        PROVE  RouterInv'
    BY <1>1, RouterStart
  <1>2. ASSUME NEW c \in Calls, Router!Acquire(c) PROVE RouterInv'
    BY <1>2, RouterAcquire
  <1>3. ASSUME NEW c \in Calls, NEW u \in RouterUsages, Router!Reconcile(c, u) PROVE RouterInv'
    BY <1>3, RouterReconcile
  <1>4. ASSUME NEW c \in Calls, NEW auth \in BOOLEAN, Router!Release(c, auth) PROVE RouterInv'
    BY <1>4, RouterRelease
  <1>5. ASSUME NEW c \in Calls, Router!Abandon(c) PROVE RouterInv'
    BY <1>5, RouterAbandon
  <1>6. CASE Router!Tick
    BY <1>6, RouterTick
  <1>7. CASE UNCHANGED Router!vars
    <2>1. UNCHANGED <<pools, providers, routerNow, routerPc, routerAt, ticket>>
      BY <1>7 DEF Router!vars
    <2>2. Router!Open' = Router!Open
      BY <2>1 DEF Router!Open
    <2>3. RouterTickets'
      BY <2>1, <2>2 DEF RouterInv, RouterTickets
    <2> QED
      BY <2>1, <2>2, <2>3, QuietStep DEF RouterInv, RouterTypes
  <1> QED
    BY <1>1, <1>2, <1>3, <1>4, <1>5, <1>6, <1>7 DEF Router!Next

\* However calls overlap, fall back along their routes, are rolled back after a refusal
\* or settled late, the slots in use of every pool, provider and key are the calls that
\* hold a reservation there, for any routing table and any limits (router.rs, pool.rs).
THEOREM BalanceHolds == Router!Spec => []LeasesBalance
  <1>1. RouterInv => LeasesBalance
    BY InvBalances
  <1> QED
    BY <1>1, RouterInvInit, RouterInvNext, PTL DEF Router!Spec

\* A call every route of which refused it has charged no limiter: each holds after the
\* rollbacks the slots, the bill and the bucket contents it held before (router.rs,
\* acquire; pool.rs, acquire).
THEOREM RefusalIsFree == Router!Spec => RefusedTakesNothing
  <1>1. ASSUME RouterInv, [Router!Next]_(Router!vars),
               NEW c \in Calls, routerPc[c] = "started", routerPc'[c] = "refused"
        PROVE  RefusalFree(c)
    <2>1. routerPc \in [Calls -> RouterStages]
      BY <1>1 DEF RouterInv, RouterTypes
    <2>2. Router!Acquire(c)
      <3>1. routerPc' # routerPc
        BY <1>1
      <3>2. Router!Next
        BY <1>1, <3>1 DEF Router!vars
      <3>3. ~Router!Tick
        BY <3>1 DEF Router!Tick
      <3>4. \A d \in Calls, n \in RouterPools, e \in RouterEstimates : ~Router!Start(d, n, e)
        BY <1>1, <2>1 DEF Router!Start
      <3>5. \A d \in Calls, u \in RouterUsages : ~Router!Reconcile(d, u)
        BY <1>1, <2>1 DEF Router!Reconcile
      <3>6. \A d \in Calls, auth \in BOOLEAN : ~Router!Release(d, auth)
        BY <1>1, <2>1 DEF Router!Release
      <3>7. \A d \in Calls : ~Router!Abandon(d)
        BY <1>1, <2>1 DEF Router!Abandon
      <3>8. PICK d \in Calls : Router!Acquire(d)
        BY <3>2, <3>3, <3>4, <3>5, <3>6, <3>7 DEF Router!Next
      <3>9. d = c
        <4>1. \E s : routerPc' = [routerPc EXCEPT ![d] = s]
          BY <3>8 DEF Router!Acquire, Router!Dispatch
        <4> QED
          BY <1>1, <2>1, <4>1
      <3> QED
        BY <3>8, <3>9
    <2> QED
      BY <1>1, <2>2, RouterAcquire
  <1> DEFINE Free == \A c \in Calls : routerPc[c] = "started" /\ routerPc'[c] = "refused" => RefusalFree(c)
  <1>2. RouterInv /\ [Router!Next]_(Router!vars) => Free
    BY <1>1
  <1>3. RefusedTakesNothing <=> [][Free]_(Router!vars)
    BY DEF RefusedTakesNothing, Router!RefusedTakesNothing, RefusalFree
  <1> HIDE DEF Free
  <1> QED
    BY <1>2, <1>3, RouterInvInit, RouterInvNext, PTL DEF Router!Spec

-----------------------------------------------------------------------------
(* The order of a pool's keys                                              *)

\* Numbers less than n apart have different remainders.
LEMMA Residues ==
    ASSUME NEW n \in Nat, n > 0, NEW a \in Int, NEW b \in Int, a # b, a - b < n, b - a < n
    PROVE  a % n # b % n
  <1>1. /\ a = n * (a \div n) + (a % n) /\ b = n * (b \div n) + (b % n)
        /\ a \div n \in Int /\ b \div n \in Int
    <2>1. \A x \in Int : x = n * (x \div n) + (x % n) /\ x \div n \in Int
      OBVIOUS
    <2> QED
      BY <2>1
  <1> DEFINE q == a \div n
             s == b \div n
  <1> SUFFICES ASSUME a % n = b % n PROVE FALSE
    OBVIOUS
  <1>2. q \in Int /\ s \in Int /\ a - b = n * q - n * s
    BY <1>1
  <1> HIDE DEF q, s
  <1>3. n * q - n * s = n * (q - s)
    BY <1>2
  <1>4. CASE q = s
    BY <1>2, <1>4
  <1>5. CASE q > s
    <2>1. n * (q - s) >= n
      <3> DEFINE k == q - s - 1
      <3>1. k \in Nat /\ q - s = k + 1
        BY <1>2, <1>5
      <3> HIDE DEF k
      <3>2. n * (k + 1) = n * k + n /\ n * k \in Nat
        BY <3>1
      <3> QED
        BY <3>1, <3>2
    <2> QED
      BY <1>2, <1>3, <2>1
  <1>6. CASE q < s
    <2>1. n * (s - q) >= n /\ n * (s - q) = n * s - n * q
      <3> DEFINE k == s - q - 1
      <3>1. k \in Nat /\ s - q = k + 1
        BY <1>2, <1>6
      <3>0. n * (s - q) = n * s - n * q
        BY <1>2
      <3> HIDE DEF k
      <3>2. n * (k + 1) = n * k + n /\ n * k \in Nat
        BY <3>1
      <3> QED
        BY <3>0, <3>1, <3>2
    <2> QED
      BY <1>2, <2>1
  <1> QED
    BY <1>2, <1>4, <1>5, <1>6

\* Places in a strict order of a finite set are apart.
LEMMA PlacesApart ==
    ASSUME NEW S, IsFiniteSet(S), NEW R, NEW o, o = [i \in S |-> Cardinality({j \in S : <<j, i>> \in R})],
           \A i \in S : <<i, i>> \notin R,
           \A i, j, k \in S : <<i, j>> \in R /\ <<j, k>> \in R => <<i, k>> \in R,
           \A i, j \in S : i # j => <<i, j>> \in R \/ <<j, i>> \in R
    PROVE  /\ \A i \in S : o[i] \in 0 .. Cardinality(S) - 1
           /\ \A i, j \in S : i # j => o[i] # o[j]
  <1> DEFINE B(i) == {j \in S : <<j, i>> \in R}
  <1>1. \A i \in S : B(i) \subseteq S \ {i} /\ IsFiniteSet(B(i))
    BY FS_Subset
  <1>2. \A i \in S : o[i] = Cardinality(B(i))
    OBVIOUS
  <1>3. ASSUME NEW i \in S, NEW j \in S, <<i, j>> \in R PROVE o[i] < o[j]
    <2>1. B(i) \subseteq B(j) /\ B(i) # B(j)
      BY <1>3
    <2> HIDE DEF B
    <2>2. Cardinality(B(i)) < Cardinality(B(j))
      BY <1>1, <2>1, FS_Subset, FS_CardinalityType
    <2> QED
      BY <1>2, <2>2
  <1>4. \A i \in S : o[i] \in Nat
    BY <1>1, <1>2, FS_CardinalityType
  <1>5. ASSUME NEW i \in S PROVE o[i] \in 0 .. Cardinality(S) - 1
    <2>1. B(i) \subseteq S /\ B(i) # S
      BY <1>1
    <2> HIDE DEF B
    <2>2. Cardinality(B(i)) < Cardinality(S) /\ Cardinality(S) \in Nat
      BY <2>1, FS_Subset, FS_CardinalityType
    <2> QED
      BY <1>2, <1>4, <2>2
  <1>6. ASSUME NEW i \in S, NEW j \in S, i # j PROVE o[i] # o[j]
    <2>1. <<i, j>> \in R \/ <<j, i>> \in R
      BY <1>6
    <2>2. o[i] \in Nat /\ o[j] \in Nat
      BY <1>4
    <2>3. o[i] < o[j] \/ o[j] < o[i]
      BY <1>3, <2>1
    <2> QED
      BY <2>2, <2>3
  <1> QED
    BY <1>5, <1>6

\* A load is a number.
LEMMA LoadIsNumber ==
    ASSUME Scale \in Nat, NEW l \in LimiterState, NEW t \in Nat
    PROVE  LoadScore(l, t) \in Int
  <1> DEFINE r == RollDay(l, t)
             S == {BucketLoad(r.tpm, t), BucketLoad(r.rpm, t),
                   ShareLoad(r.inFlight, r.concurrent), ShareLoad(r.spent, r.dailyUsd)}
  <1>1. r \in LimiterState
    BY RollDayState
  <1>2. ASSUME NEW b \in Bucket \cup {None} PROVE BucketLoad(b, t) \in Int
    <2>1. CASE b = None
      BY <2>1 DEF BucketLoad
    <2>2. CASE b # None
      <3> DEFINE x == Refill(b, t).tokens
                 y == x * Scale
      <3>1. x \in Nat /\ b.cap \in Nat
        BY <2>2, RefillBucket DEF Bucket
      <3> HIDE DEF x
      <3>2. y \in Int
        BY <3>1
      <3> HIDE DEF y
      <3>3. b.cap # 0 => y \div b.cap \in Int
        BY <3>1, <3>2
      <3>4. BucketLoad(b, t) = IF b.cap = 0 THEN Scale ELSE Scale - y \div b.cap
        BY <2>2 DEF BucketLoad, x, y
      <3> QED
        BY <3>3, <3>4
    <2> QED
      BY <2>1, <2>2
  <1>3. ASSUME NEW used \in Nat, NEW limit \in Nat \cup {None} PROVE ShareLoad(used, limit) \in Int
    <2>1. CASE limit = None \/ limit = 0
      BY <2>1 DEF ShareLoad
    <2>2. CASE limit # None /\ limit # 0
      <3> DEFINE y == used * Scale
      <3>1. y \in Int
        OBVIOUS
      <3> HIDE DEF y
      <3>2. y \div limit \in Int
        BY <2>2, <3>1
      <3>3. ShareLoad(used, limit) = Least(Scale, y \div limit)
        BY <2>2 DEF ShareLoad, y
      <3> QED
        BY <3>2, <3>3 DEF Least
    <2> QED
      BY <2>1, <2>2
  <1>4. S \subseteq Int
    <2>1. /\ r.tpm \in Bucket \cup {None} /\ r.rpm \in Bucket \cup {None}
          /\ r.inFlight \in Nat /\ r.spent \in Nat
          /\ r.concurrent \in Nat \cup {None} /\ r.dailyUsd \in Nat \cup {None}
      BY <1>1 DEF LimiterState
    <2> HIDE DEF r
    <2> QED
      BY <1>2, <1>3, <2>1
  <1>5. LoadScore(l, t) = Max(S)
    BY Zenon DEF LoadScore
  <1>6. \E x \in S : \A y \in S : x >= y
    <2> DEFINE a == BucketLoad(r.tpm, t)
               b == BucketLoad(r.rpm, t)
               c == ShareLoad(r.inFlight, r.concurrent)
               d == ShareLoad(r.spent, r.dailyUsd)
    <2>1. a \in Int /\ b \in Int /\ c \in Int /\ d \in Int /\ S = {a, b, c, d}
      BY <1>4
    <2> HIDE DEF a, b, c, d, S
    <2>2. \E x \in {a, b, c, d} : x >= a /\ x >= b /\ x >= c /\ x >= d
      BY <2>1
    <2> QED
      BY <2>1, <2>2
  <1> HIDE DEF S
  <1>7. Max(S) \in S
    BY <1>6 DEF Max
  <1> QED
    BY <1>4, <1>5, <1>7

\* Each strategy's order of a pool's keys is strict.
LEMMA BeforeIsStrict ==
    ASSUME Scale \in Nat, NEW p \in Pool, NEW t \in Nat
    PROVE  /\ \A i \in Positions(p) : ~Before(p, i, i, t)
           /\ \A i, j, k \in Positions(p) : Before(p, i, j, t) /\ Before(p, j, k, t) => Before(p, i, k, t)
           /\ \A i, j \in Positions(p) : i # j => Before(p, i, j, t) \/ Before(p, j, i, t)
  <1> DEFINE n == Len(p.slots)
             Asc(x, y, i, j) == x < y \/ (x = y /\ i < j)
  <1>1. /\ n \in Nat /\ Positions(p) = 1 .. n
        /\ \A i \in 1 .. n : p.slots[i] \in Slot
        /\ p.cursor \in Nat /\ p.strategy \in Strategies
    BY DEF Pool, Positions
  <1>2. \A i \in 1 .. n : /\ p.slots[i].priority \in Int /\ p.slots[i].cost \in Int
                          /\ p.slots[i].weight \in Int /\ p.slots[i].limiter \in LimiterState
    BY <1>1 DEF Slot
  <1>3. CASE p.strategy = "Priority"
    <2> DEFINE f(i) == p.slots[i].priority
    <2>1. \A i, j : Before(p, i, j, t) <=> Asc(f(i), f(j), i, j)
      BY <1>3 DEF Before
    <2>2. \A i \in 1 .. n : f(i) \in Int
      BY <1>2
    <2> HIDE DEF f
    <2> QED
      BY <1>1, <2>1, <2>2
  <1>4. CASE p.strategy = "RoundRobin"
    <2> DEFINE f(i) == (i - 1 - p.cursor) % n
    <2>1. \A i, j : Before(p, i, j, t) <=> f(i) < f(j)
      BY <1>4 DEF Before
    <2>2. \A i \in 1 .. n : f(i) \in Int
      <3> TAKE i \in 1 .. n
      <3>1. n > 0 /\ i - 1 - p.cursor \in Int
        BY <1>1
      <3> QED
        BY <1>1, <3>1
    <2>3. ASSUME NEW i \in 1 .. n, NEW j \in 1 .. n, i # j PROVE f(i) # f(j)
      <3> DEFINE a == i - 1 - p.cursor
                 b == j - 1 - p.cursor
      <3>1. n > 0 /\ n \in Nat /\ a \in Int /\ b \in Int /\ a # b /\ a - b < n /\ b - a < n
        <4> DEFINE c == p.cursor
        <4>1. n \in Nat /\ i \in 1 .. n /\ j \in 1 .. n /\ i # j /\ c \in Nat
          BY <1>1, <2>3
        <4> HIDE DEF c, n
        <4> SUFFICES /\ n > 0 /\ i - 1 - c \in Int /\ j - 1 - c \in Int /\ i - 1 - c # j - 1 - c
                     /\ (i - 1 - c) - (j - 1 - c) < n /\ (j - 1 - c) - (i - 1 - c) < n
          BY <4>1 DEF c
        <4> QED
          BY <4>1
      <3> HIDE DEF a, b
      <3>2. a % n # b % n
        BY <3>1, Residues
      <3> QED
        BY <3>2 DEF a, b
    <2> HIDE DEF f
    <2> QED
      BY <1>1, <2>1, <2>2, <2>3
  <1>5. CASE p.strategy = "LeastLoaded"
    <2> DEFINE f(i) == LoadScore(p.slots[i].limiter, t)
    <2>1. \A i, j : Before(p, i, j, t) <=> Asc(f(i), f(j), i, j)
      BY <1>5 DEF Before
    <2>2. \A i \in 1 .. n : f(i) \in Int
      BY <1>2, LoadIsNumber
    <2> HIDE DEF f
    <2> QED
      BY <1>1, <2>1, <2>2
  <1>6. CASE p.strategy = "CheapestCapable"
    <2> DEFINE f(i) == p.slots[i].cost
               g(i) == p.slots[i].priority
    <2>1. \A i, j : Before(p, i, j, t) <=> f(i) < f(j) \/ (f(i) = f(j) /\ Asc(g(i), g(j), i, j))
      BY <1>6 DEF Before
    <2>2. \A i \in 1 .. n : f(i) \in Int /\ g(i) \in Int
      BY <1>2
    <2> HIDE DEF f, g
    <2>3. \A i \in 1 .. n : ~Before(p, i, i, t)
      BY <1>1, <2>1, <2>2
    <2>4. ASSUME NEW i \in 1 .. n, NEW j \in 1 .. n, NEW k \in 1 .. n,
                 Before(p, i, j, t), Before(p, j, k, t)
          PROVE  Before(p, i, k, t)
      <3>1. /\ f(i) < f(j) \/ (f(i) = f(j) /\ Asc(g(i), g(j), i, j))
            /\ f(j) < f(k) \/ (f(j) = f(k) /\ Asc(g(j), g(k), j, k))
            /\ Before(p, i, k, t) <=> f(i) < f(k) \/ (f(i) = f(k) /\ Asc(g(i), g(k), i, k))
        BY <2>1, <2>4
      <3>2. /\ f(i) \in Int /\ f(j) \in Int /\ f(k) \in Int
            /\ g(i) \in Int /\ g(j) \in Int /\ g(k) \in Int
        BY <2>2
      <3>3. CASE f(i) < f(j) \/ f(j) < f(k)
        BY <3>1, <3>2, <3>3
      <3>4. CASE f(i) = f(j) /\ f(j) = f(k)
        BY <1>1, <3>1, <3>2, <3>4
      <3> QED
        BY <3>1, <3>2, <3>3, <3>4
    <2>5. ASSUME NEW i \in 1 .. n, NEW j \in 1 .. n, i # j
          PROVE  Before(p, i, j, t) \/ Before(p, j, i, t)
      BY <1>1, <2>1, <2>2, <2>5
    <2> QED
      BY <1>1, <2>3, <2>4, <2>5
  <1>7. CASE p.strategy = "Weighted"
    <2> DEFINE f(i) == p.slots[i].weight
               h == WeightedHead(p)
    <2>1. \A i, j : Before(p, i, j, t) <=> j # h /\ (i = h \/ Asc(f(j), f(i), i, j))
      BY <1>7 DEF Before
    <2>2. \A i \in 1 .. n : f(i) \in Int
      BY <1>2
    <2> HIDE DEF f, h
    <2>3. \A i \in 1 .. n : ~Before(p, i, i, t)
      BY <1>1, <2>1, <2>2
    <2>4. ASSUME NEW i \in 1 .. n, NEW j \in 1 .. n, NEW k \in 1 .. n,
                 Before(p, i, j, t), Before(p, j, k, t)
          PROVE  Before(p, i, k, t)
      BY <1>1, <2>1, <2>2, <2>4
    <2>5. ASSUME NEW i \in 1 .. n, NEW j \in 1 .. n, i # j
          PROVE  Before(p, i, j, t) \/ Before(p, j, i, t)
      BY <1>1, <2>1, <2>2, <2>5
    <2> QED
      BY <1>1, <2>3, <2>4, <2>5
  <1> QED
    BY <1>1, <1>3, <1>4, <1>5, <1>6, <1>7 DEF Strategies

\* Whatever the strategy and however its keys tie, a pool's order gives every key one
\* place of its own, so each is tried once and the first that is usable is one key
\* (pool.rs, pick_order, with its stable sorts and its rotation).
THEOREM OrderIsStrict ==
    ASSUME Scale \in Nat, NEW p \in Pool, NEW t \in Nat
    PROVE  /\ \A i \in Positions(p) : PickOrder(p, t)[i] \in 0 .. Len(p.slots) - 1
           /\ \A i, j \in Positions(p) : i # j => PickOrder(p, t)[i] # PickOrder(p, t)[j]
  <1> DEFINE S == Positions(p)
             R == {x \in S \X S : Before(p, x[1], x[2], t)}
             o == [i \in S |-> Cardinality({j \in S : <<j, i>> \in R})]
  <1>1. Len(p.slots) \in Nat /\ S = 1 .. Len(p.slots)
    BY DEF Pool, Positions
  <1>2. IsFiniteSet(S) /\ Cardinality(S) = Len(p.slots)
    BY <1>1, FS_Interval
  <1>3. \A i, j \in S : <<i, j>> \in R <=> Before(p, i, j, t)
    OBVIOUS
  <1> HIDE DEF R
  <1>4. PickOrder(p, t) = o
    <2>1. \A i \in S : {j \in S : Before(p, j, i, t)} = {j \in S : <<j, i>> \in R}
      BY <1>3
    <2> QED
      BY <2>1 DEF PickOrder
  <1>5. /\ \A i \in S : <<i, i>> \notin R
        /\ \A i, j, k \in S : <<i, j>> \in R /\ <<j, k>> \in R => <<i, k>> \in R
        /\ \A i, j \in S : i # j => <<i, j>> \in R \/ <<j, i>> \in R
    BY <1>3, BeforeIsStrict
  <1> HIDE DEF S, o
  <1>6. o = [i \in S |-> Cardinality({j \in S : <<j, i>> \in R})]
    BY DEF o
  <1>7. /\ \A i \in S : o[i] \in 0 .. Cardinality(S) - 1
        /\ \A i, j \in S : i # j => o[i] # o[j]
    BY <1>2, <1>5, <1>6, PlacesApart
  <1> QED
    BY <1>2, <1>4, <1>7 DEF S

=============================================================================

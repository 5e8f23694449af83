-------------------------- MODULE TranscriptProofs --------------------------
(***************************************************************************)
(* What compaction sends keeps calls and results together, for every       *)
(* transcript, window and size estimate.                                   *)
(***************************************************************************)
EXTENDS Transcript, SequenceTheorems, WellFoundedInduction, TLAPS

\* The order of the naturals as a relation.
LEMMA LessInRelation ==
    ASSUME NEW x \in Nat, NEW y \in Nat, x < y
    PROVE  <<x, y>> \in OpToRel(<, Nat)
BY DEF OpToRel

\* A set of numbers that is not empty has a least one.
LEMMA LeastOf ==
    ASSUME NEW S \in SUBSET Nat, S # {}
    PROVE  \E x \in S : \A y \in S : x <= y
<1>1. PICK x \in S : \A y \in S : ~(<<y, x>> \in OpToRel(<, Nat))
    BY NatLessThanWellFounded, WFMin
<1>2. \A y \in S : ~(y < x)
    BY <1>1, LessInRelation
<1> QED BY <1>2

LEMMA MinIn ==
    ASSUME NEW S \in SUBSET Nat, S # {}
    PROVE  Min(S) \in S /\ \A y \in S : Min(S) <= y
BY LeastOf DEF Min

\* A set of numbers up to a bound, not empty, has a greatest one.
LEMMA Greatest ==
    ASSUME NEW n \in Nat, NEW S \in SUBSET (0..n), S # {}
    PROVE  \E x \in S : \A y \in S : x >= y
<1> DEFINE T == {y \in 0..n : n - y \in S}
<1>1. T \in SUBSET Nat
    OBVIOUS
<1>2. T # {}
    <2>1. PICK x \in S : TRUE
        OBVIOUS
    <2>2. n - x \in T
        BY <2>1
    <2> QED BY <2>2
<1>3. PICK t \in T : \A y \in T : t <= y
    <2> HIDE DEF T
    <2> QED BY <1>1, <1>2, LeastOf
<1>4. \A y \in S : n - t >= y
    <2> SUFFICES ASSUME NEW y \in S PROVE n - t >= y
        OBVIOUS
    <2>1. n - y \in T
        OBVIOUS
    <2>2. t <= n - y
        BY <2>1, <1>3
    <2> QED BY <2>2
<1>5. n - t \in S
    BY <1>3
<1> QED BY <1>4, <1>5

LEMMA MaxIn ==
    ASSUME NEW n \in Nat, NEW S \in SUBSET (0..n), S # {}
    PROVE  Max(S) \in S /\ \A y \in S : y <= Max(S)
<1>1. PICK x \in S : \A y \in S : x >= y
    BY Greatest
<1>2. Max(S) \in S /\ \A y \in S : Max(S) >= y
    BY <1>1 DEF Max
<1> QED BY <1>2

\* The calls and the results of two parts are those of the whole.
LEMMA PartsOfConcat ==
    ASSUME NEW s \in Seq(Message), NEW t \in Seq(Message)
    PROVE  /\ Calls(s \o t) = Calls(s) \cup Calls(t)
           /\ Results(s \o t) = Results(s) \cup Results(t)
<1> DEFINE u == s \o t
<1>1. /\ DOMAIN s = 1..Len(s) /\ DOMAIN t = 1..Len(t) /\ DOMAIN u = 1..Len(s) + Len(t)
      /\ Len(s) \in Nat /\ Len(t) \in Nat
    BY ConcatProperties, LenProperties
<1>2. \A i \in DOMAIN s : i \in DOMAIN u /\ u[i] = s[i]
    BY <1>1, ConcatProperties
<1>3. \A i \in DOMAIN t : Len(s) + i \in DOMAIN u /\ u[Len(s) + i] = t[i]
    BY <1>1, ConcatProperties
<1>4. \A i \in DOMAIN u : i \in DOMAIN s \/ i - Len(s) \in DOMAIN t
    BY <1>1
<1>5. \A i \in DOMAIN u : (\E j \in DOMAIN s : u[i] = s[j]) \/ (\E j \in DOMAIN t : u[i] = t[j])
    <2> SUFFICES ASSUME NEW i \in DOMAIN u
                 PROVE (\E j \in DOMAIN s : u[i] = s[j]) \/ (\E j \in DOMAIN t : u[i] = t[j])
        OBVIOUS
    <2>1. CASE i \in DOMAIN s
        BY <2>1, <1>2
    <2>2. CASE i - Len(s) \in DOMAIN t
        <3>1. Len(s) + (i - Len(s)) = i
            BY <1>1
        <3> QED BY <2>2, <3>1, <1>3
    <2> QED BY <1>4, <2>1, <2>2
<1>6. \A i \in DOMAIN s : \E j \in DOMAIN u : u[j] = s[i]
    BY <1>2
<1>7. \A i \in DOMAIN t : \E j \in DOMAIN u : u[j] = t[i]
    BY <1>3
<1> HIDE DEF u
<1>8. Calls(u) = Calls(s) \cup Calls(t)
    BY <1>5, <1>6, <1>7, Zenon DEF Calls
<1>9. Results(u) = Results(s) \cup Results(t)
    <2>1. ASSUME NEW id \in Results(u) PROVE id \in Results(s) \cup Results(t)
        BY <2>1, <1>5, Zenon DEF Results
    <2>2. ASSUME NEW id \in Results(s) \cup Results(t) PROVE id \in Results(u)
        BY <2>2, <1>6, <1>7, Zenon DEF Results
    <2> QED BY <2>1, <2>2
<1> QED BY <1>8, <1>9 DEF u

\* Two self-contained stretches make one.
LEMMA PairSafeConcat ==
    ASSUME NEW s \in Seq(Message), NEW t \in Seq(Message), IsPairSafe(s), IsPairSafe(t)
    PROVE  IsPairSafe(s \o t)
<1>1. Calls(s \o t) = Calls(s) \cup Calls(t) /\ Results(s \o t) = Results(s) \cup Results(t)
    BY PartsOfConcat
<1>2. Calls(s) = Results(s) /\ Calls(t) = Results(t)
    BY DEF IsPairSafe
<1> QED BY <1>1, <1>2, Zenon DEF IsPairSafe

LEMMA MarkerIsPairSafe ==
    ASSUME None \notin CallIds
    PROVE  <<Marker>> \in Seq(Message) /\ IsPairSafe(<<Marker>>)
<1>1. Marker \in Message
    BY DEF Marker, Assistant, Message, Roles
<1>2. DOMAIN <<Marker>> = {1} /\ <<Marker>>[1] = Marker
    OBVIOUS
<1>3. Calls(<<Marker>>) = {}
    BY <1>2 DEF Calls, Marker, Assistant, ToSet
<1>4. Results(<<Marker>>) = {}
    BY <1>2 DEF Results, Marker, Assistant
<1> QED BY <1>1, <1>3, <1>4 DEF IsPairSafe

\* An empty stretch of a transcript has no call and no result.
LEMMA EmptyIsPairSafe == IsPairSafe(<<>>)
BY DEF IsPairSafe, Calls, Results

\* safe_head_end stops at a whole prefix, safe_tail_start at a whole suffix.
LEMMA SafeHead ==
    ASSUME NEW m \in Seq(Message), NEW want \in Nat
    PROVE  /\ SafeHeadEnd(m, want) \in 0..Len(m)
           /\ IsPairSafe(SubSeq(m, 1, SafeHeadEnd(m, want)))
<1> DEFINE n == Min({want, Len(m)})
           S == {end \in 0..n : IsPairSafe(SubSeq(m, 1, end))}
<1>1. Len(m) \in Nat
    BY LenProperties
<1>2. n \in Nat /\ n <= Len(m)
    <2>1. n \in {want, Len(m)}
        BY <1>1, MinIn
    <2>2. n <= Len(m)
        BY <1>1, LeastOf, <2>1 DEF Min
    <2> QED BY <2>1, <2>2, <1>1
<1>3. 0 \in S
    <2>1. SubSeq(m, 1, 0) = <<>>
        BY SubSeqEmpty
    <2>2. IsPairSafe(SubSeq(m, 1, 0))
        BY <2>1, EmptyIsPairSafe
    <2> QED BY <1>2, <2>2
<1>4. Max(S) \in S
    BY <1>2, <1>3, MaxIn
<1>5. SafeHeadEnd(m, want) = Max(S)
    BY DEF SafeHeadEnd
<1> QED BY <1>2, <1>4, <1>5

LEMMA SafeTail ==
    ASSUME NEW m \in Seq(Message), NEW want \in Nat
    PROVE  /\ SafeTailBefore(m, want) \in 0..Len(m)
           /\ IsPairSafe(SubSeq(m, SafeTailBefore(m, want) + 1, Len(m)))
<1> DEFINE wanted == IF want >= Len(m) THEN 0 ELSE Len(m) - want
           S == {start \in wanted..Len(m) : IsPairSafe(SubSeq(m, start + 1, Len(m)))}
<1>1. Len(m) \in Nat
    BY LenProperties
<1>2. wanted \in 0..Len(m)
    BY <1>1
<1>3. Len(m) \in S
    <2>1. SubSeq(m, Len(m) + 1, Len(m)) = <<>>
        BY <1>1, SubSeqEmpty
    <2>2. IsPairSafe(SubSeq(m, Len(m) + 1, Len(m)))
        BY <2>1, EmptyIsPairSafe
    <2> QED BY <1>1, <1>2, <2>2
<1>4. S \in SUBSET Nat
    BY <1>1, <1>2
<1>5. Min(S) \in S
    BY <1>3, <1>4, MinIn
<1>6. SafeTailBefore(m, want) = Min(S)
    BY DEF SafeTailBefore
<1> QED BY <1>1, <1>2, <1>5, <1>6

-----------------------------------------------------------------------------
(* Repair                                                                  *)

\* The equation by which Unanswered defines its function, for the first k calls.
Equation(U, calls, answered, k) ==
    [n \in 0..k |-> IF n = 0 THEN <<>>
                    ELSE IF calls[n] \in answered THEN U[n - 1] ELSE Append(U[n - 1], calls[n])]

\* It has a solution: from one for the first k - 1 calls, one for the first k.
LEMMA UnansweredExists ==
    ASSUME NEW calls \in Seq(CallIds), NEW answered, NEW top \in 0..Len(calls)
    PROVE  \E U : U = Equation(U, calls, answered, top)
<1> USE DEF Equation
<1> DEFINE Of(k, U) == U = Equation(U, calls, answered, k)
           Missing(k) == ~ \E U : Of(k, U)
           C == {k \in 0..Len(calls) : Missing(k)}
<1>0. Len(calls) \in Nat
    BY LenProperties
<1> SUFFICES ASSUME C # {} PROVE FALSE
    OBVIOUS
<1>1. C \in SUBSET Nat
    BY <1>0
<1> HIDE DEF C
<1>2. PICK k \in C : \A y \in C : k <= y
    BY <1>1, LeastOf
<1>3. k \in 0..Len(calls) /\ Missing(k)
    BY DEF C
<1>4. CASE k = 0
    <2>1. Of(0, [n \in 0..0 |-> <<>>])
        OBVIOUS
    <2> QED BY <1>3, <1>4, <2>1
<1>5. CASE k # 0
    <2>1. k - 1 \in 0..Len(calls) /\ k - 1 \notin C
        BY <1>0, <1>1, <1>2, <1>3, <1>5
    <2>2. ~ Missing(k - 1)
        BY <2>1 DEF C
    <2>3. PICK U : Of(k - 1, U)
        BY <2>2
    <2> DEFINE V == [n \in 0..k |-> IF n < k THEN U[n]
                                    ELSE IF calls[k] \in answered THEN U[k - 1]
                                    ELSE Append(U[k - 1], calls[k])]
    <2>4. Of(k, V)
        <3>1. k \in Nat /\ k - 1 \in Nat
            BY <1>0, <1>3, <1>5
        <3>2. \A n \in 0..k : V[n] = IF n = 0 THEN <<>>
                       ELSE IF calls[n] \in answered THEN V[n - 1] ELSE Append(V[n - 1], calls[n])
            <4> SUFFICES ASSUME NEW n \in 0..k
                         PROVE  V[n] = IF n = 0 THEN <<>>
                                       ELSE IF calls[n] \in answered THEN V[n - 1]
                                       ELSE Append(V[n - 1], calls[n])
                OBVIOUS
            <4>1. CASE n = k
                <5>1. V[n - 1] = U[n - 1]
                    BY <3>1, <4>1
                <5> QED BY <1>5, <3>1, <4>1, <5>1
            <4>2. CASE n # k
                <5>1. n \in 0..(k - 1) /\ V[n] = U[n]
                    BY <3>1, <4>2
                <5>2. n # 0 => V[n - 1] = U[n - 1]
                    BY <3>1, <5>1
                <5>3. U[n] = IF n = 0 THEN <<>>
                             ELSE IF calls[n] \in answered THEN U[n - 1]
                             ELSE Append(U[n - 1], calls[n])
                    BY <2>3, <5>1
                <5> QED BY <5>1, <5>2, <5>3
            <4> QED BY <4>1, <4>2
        <3>3. V = [n \in 0..k |-> V[n]]
            OBVIOUS
        <3> QED BY <3>2, <3>3
    <2> QED BY <1>3, <2>4
<1> QED BY <1>4, <1>5

\* What is left of distinct calls is distinct, and is what is not answered.
LEMMA UnansweredFacts ==
    ASSUME NEW calls \in Seq(CallIds), NEW answered, IsInjective(calls)
    PROVE  /\ Unanswered(calls, answered) \in Seq(CallIds)
           /\ ToSet(Unanswered(calls, answered)) = ToSet(calls) \ answered
           /\ IsInjective(Unanswered(calls, answered))
<1> DEFINE L == Len(calls)
           Def(F) == Equation(F, calls, answered, L)
           U == CHOOSE F : F = Def(F)
           Good(n) == /\ U[n] \in Seq(CallIds)
                      /\ \A i \in DOMAIN U[n] : \E j \in 1..n : U[n][i] = calls[j] /\ calls[j] \notin answered
                      /\ \A j \in 1..n : calls[j] \notin answered => \E i \in DOMAIN U[n] : U[n][i] = calls[j]
                      /\ \A i, j \in DOMAIN U[n] : U[n][i] = U[n][j] => i = j
<1>1. L \in Nat /\ DOMAIN calls = 1..L /\ \A i \in 1..L : calls[i] \in CallIds
    BY LenProperties, ElementOfSeq
<1>2. Unanswered(calls, answered) = U[L]
    BY DEF Unanswered, Equation
<1>3. \E F : F = Def(F)
    <2>1. L \in 0..Len(calls)
        BY <1>1
    <2> QED BY <2>1, UnansweredExists
<1> HIDE DEF L
<1>4. U = Def(U)
    <2> HIDE DEF Def
    <2> QED BY Zenon, <1>3 DEF U
<1> HIDE DEF U
<1>5. /\ U[0] = <<>>
      /\ \A n \in 1..L : U[n] = IF calls[n] \in answered THEN U[n - 1]
                                  ELSE Append(U[n - 1], calls[n])
    <2>1. \A n \in 0..L : U[n] = Def(U)[n]
        BY <1>4
    <2>2. 0 \in 0..L /\ \A n \in 1..L : n \in 0..L /\ n # 0
        BY <1>1
    <2> QED BY <2>1, <2>2 DEF Equation
<1>6. \A n \in 0..L : Good(n)
    <2> DEFINE C == {n \in 0..L : ~Good(n)}
    <2> SUFFICES ASSUME C # {} PROVE FALSE
        OBVIOUS
    <2>1. C \in SUBSET Nat
        BY <1>1
    <2> HIDE DEF C
    <2>2. PICK x \in C : \A y \in C : x <= y
        BY <2>1, LeastOf
    <2>3. Good(0)
        BY <1>5
    <2>4. x \in 1..L /\ x \in Nat /\ ~Good(x)
        BY <1>1, <2>3 DEF C
    <2>5. x - 1 \in 0..L /\ x - 1 \notin C
        BY <1>1, <2>1, <2>2, <2>4
    <2>6. Good(x - 1)
        BY <2>5 DEF C
    <2>7. CASE calls[x] \in answered
        <3>1. U[x] = U[x - 1]
            BY <1>5, <2>4, <2>7
        <3>2. \A j \in 1..x : j \in 1..(x - 1) \/ j = x
            BY <2>4
        <3>3. \A j \in 1..(x - 1) : j \in 1..x
            BY <2>4
        <3>4. Good(x)
            BY <2>6, <2>7, <3>1, <3>2, <3>3
        <3> QED BY <2>4, <3>4
    <2>8. CASE calls[x] \notin answered
        <3> DEFINE u == U[x - 1]
                   k == Len(u) + 1
        <3>1. U[x] = Append(u, calls[x])
            BY <1>5, <2>4, <2>8
        <3>2. u \in Seq(CallIds) /\ calls[x] \in CallIds
            BY <1>1, <2>4, <2>6
        <3>3. /\ U[x] \in Seq(CallIds) /\ Len(u) \in Nat /\ DOMAIN U[x] = 1..k /\ DOMAIN u = 1..Len(u)
              /\ U[x][k] = calls[x] /\ \A i \in DOMAIN u : U[x][i] = u[i]
            BY <3>1, <3>2
        <3>4. \A i \in DOMAIN U[x] : i \in DOMAIN u \/ i = k
            BY <3>3
        <3>5. \A i \in DOMAIN u : u[i] # calls[x]
            <4> SUFFICES ASSUME NEW i \in DOMAIN u, u[i] = calls[x] PROVE FALSE
                OBVIOUS
            <4>1. PICK j \in 1..(x - 1) : calls[j] = calls[x]
                BY <2>6
            <4>2. j \in DOMAIN calls /\ x \in DOMAIN calls /\ j # x
                BY <1>1, <2>4
            <4> QED BY <4>1, <4>2 DEF IsInjective
        <3>6. /\ \A j \in 1..x : j \in 1..(x - 1) \/ j = x
              /\ \A j \in 1..(x - 1) : j \in 1..x
              /\ x \in 1..x /\ k \in DOMAIN U[x] /\ \A i \in DOMAIN u : i \in DOMAIN U[x]
            BY <2>4, <3>3
        <3> HIDE DEF u, k
        <3>7. /\ \A i \in DOMAIN u : \E j \in 1..(x - 1) : u[i] = calls[j] /\ calls[j] \notin answered
              /\ \A j \in 1..(x - 1) : calls[j] \notin answered => \E i \in DOMAIN u : u[i] = calls[j]
              /\ \A i, j \in DOMAIN u : u[i] = u[j] => i = j
            BY <2>6 DEF u
        <3>8. \A i \in DOMAIN U[x] : \E j \in 1..x : U[x][i] = calls[j] /\ calls[j] \notin answered
            BY <2>8, <3>3, <3>4, <3>6, <3>7
        <3>9. \A j \in 1..x : calls[j] \notin answered => \E i \in DOMAIN U[x] : U[x][i] = calls[j]
            <4> SUFFICES ASSUME NEW j \in 1..x, calls[j] \notin answered
                         PROVE  \E i \in DOMAIN U[x] : U[x][i] = calls[j]
                OBVIOUS
            <4>1. CASE j = x
                BY <3>3, <3>6, <4>1
            <4>2. CASE j \in 1..(x - 1)
                <5>1. PICK i \in DOMAIN u : u[i] = calls[j]
                    BY <3>7, <4>2
                <5> QED BY <3>3, <3>6, <5>1
            <4> QED BY <3>6, <4>1, <4>2
        <3>10. \A i, j \in DOMAIN U[x] : U[x][i] = U[x][j] => i = j
            BY <3>3, <3>4, <3>5, <3>7
        <3> QED BY <2>4, <3>3, <3>8, <3>9, <3>10
    <2> QED BY <2>7, <2>8
<1>7. Good(L)
    BY <1>1, <1>6
<1> QED BY <1>1, <1>2, <1>7 DEF ToSet, IsInjective

-----------------------------------------------------------------------------
\* compact_at never separates a call from its result: of a transcript in which
\* every call has a result and every result its call, it makes a request that has
\* that property too, whatever the windows, the threshold and the size estimate.
THEOREM CompactionKeepsPairs ==
    ASSUME None \notin CallIds,
           NEW m \in Seq(Message), IsPairSafe(m), NEW threshold \in Nat
    PROVE  IsPairSafe(CompactAt(m, threshold))
<1> DEFINE head == SafeHeadEnd(m, KeepHead)
           tail == SafeTailBefore(m, KeepTail)
           front == SubSeq(m, 1, head)
           back == SubSeq(m, tail + 1, Len(m))
<1>1. CASE threshold = 0 \/ Tokens(m) <= threshold \/ head >= tail
    BY <1>1 DEF CompactAt
<1>2. CASE ~(threshold = 0 \/ Tokens(m) <= threshold \/ head >= tail)
    <2>1. CompactAt(m, threshold) = (front \o <<Marker>>) \o back
        BY <1>2 DEF CompactAt
    <2>2. /\ head \in 0..Len(m) /\ IsPairSafe(front)
          /\ tail \in 0..Len(m) /\ IsPairSafe(back)
        BY KeepAssumption, SafeHead, SafeTail
    <2>3. front \in Seq(Message) /\ back \in Seq(Message)
        <3>1. Len(m) \in Nat /\ \A i \in 1..Len(m) : m[i] \in Message
            BY LenProperties, ElementOfSeq
        <3> HIDE DEF head, tail
        <3>2. (\A i \in 1..head : m[i] \in Message) /\ (\A i \in tail + 1..Len(m) : m[i] \in Message)
            BY <2>2, <3>1
        <3> QED BY <2>2, <3>1, <3>2, SubSeqProperties
    <2> HIDE DEF front, back, head, tail
    <2>4. <<Marker>> \in Seq(Message) /\ IsPairSafe(<<Marker>>)
        BY MarkerIsPairSafe
    <2>5. front \o <<Marker>> \in Seq(Message)
        BY <2>3, <2>4, ConcatProperties
    <2>6. IsPairSafe(front \o <<Marker>>)
        BY <2>2, <2>3, <2>4, PairSafeConcat
    <2>7. IsPairSafe((front \o <<Marker>>) \o back)
        BY <2>2, <2>3, <2>5, <2>6, PairSafeConcat
    <2> QED BY <2>1, <2>7
<1> QED BY <1>1, <1>2

=============================================================================

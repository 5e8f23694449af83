---------------------------- MODULE HostedProofs ----------------------------
(***************************************************************************)
(* What the daemon hosts stays accounted for: the boxes of its runs, the   *)
(* output of its shells and the processes of its MCP servers, for every    *)
(* number of runs, clients, calls and probes and every limit.              *)
(***************************************************************************)
EXTENDS MCHosted, FiniteSetTheorems, WellFoundedInduction, TLAPS

-----------------------------------------------------------------------------
(* Sandboxes: the inductive invariant, in parts                            *)

\* What the engine has is tracked, being destroyed or was in a dropped handler's hands,
\* and a destroy that went on to the shells has removed the container, unless it was.
Findable ==
    /\ \A b \in engine : b \in Tracked \/ b \in DOMAIN destroy \/ b \in abandoned
    /\ \A b \in DOMAIN destroy : destroy[b].at = "close" => b \notin engine \/ b \in abandoned

\* The run that holds the cache's lock has no entry for its checkout yet.
OneOpens ==
    \A r \in Runs : pc[r] \in {"find", "open"} =>
        /\ opening = r
        /\ want[r] \in Checkouts /\ cache[want[r]] = None

\* What a run uses and what the cache has are boxes that were made.
InBoxes ==
    /\ \A r \in Runs : pc[r] = "using" =>
           /\ want[r] \in Checkouts
           /\ using[r] \in SandboxFor /\ using[r].box \in Boxes
    /\ \A c \in Checkouts : cache[c] # None => cache[c].box \in Boxes

\* A running box in use is the one the cache hands out.
UsedIsCached ==
    \A r \in Runs : pc[r] = "using" /\ Running(using[r].box) =>
        /\ cache[want[r]] # None
        /\ cache[want[r]].box = using[r].box

BoxesInv == TypeOK /\ Findable /\ OneOpens /\ InBoxes /\ UsedIsCached

LEMMA BoxesEnough == BoxesInv => BoxesAccountedFor /\ OneBoxPerCheckout
  <1>1. BoxesInv => BoxesAccountedFor
    BY DEF BoxesInv, Findable, BoxesAccountedFor
  <1>2. BoxesInv => OneBoxPerCheckout
    BY DEF BoxesInv, UsedIsCached, OneBoxPerCheckout
  <1> QED
    BY <1>1, <1>2

LEMMA BoxesInit == Init => BoxesInv
  <1> SUFFICES ASSUME Init PROVE BoxesInv
    OBVIOUS
  <1>1. of \in Seq(Checkouts) /\ Len(of) = 0
    BY DEF Init
  <1>2. DOMAIN live = {} /\ DOMAIN destroy = {} /\ Boxes = {}
    BY <1>1 DEF Init, Boxes
  <1>3. /\ live \in [Tracked -> States]
        /\ destroy \in [DOMAIN destroy -> [at : {"stop", "remove", "close"}, by : Callers,
                                           stopped : BOOLEAN]]
    BY <1>2 DEF Init, Tracked
  <1>4. TypeOK
    BY <1>1, <1>2, <1>3, SandboxAssumption DEF Init, TypeOK, Tracked
  <1>5. Findable /\ OneOpens /\ InBoxes /\ UsedIsCached
    BY DEF Init, Findable, OneOpens, InBoxes, UsedIsCached
  <1> QED
    BY <1>4, <1>5 DEF BoxesInv

-----------------------------------------------------------------------------
(* Steps of the manager                                                    *)

\* The types of the manager's variables, and of the runs' and shells'.
ManagerTyped ==
    /\ of \in Seq(Checkouts) /\ Len(of) =< MaxBoxes
    /\ Tracked \subseteq Boxes /\ live \in [Tracked -> States]
    /\ expired \subseteq Boxes /\ engine \subseteq Boxes /\ abandoned \subseteq Boxes
    /\ DOMAIN destroy \subseteq Boxes
    /\ destroy \in [DOMAIN destroy -> [at : {"stop", "remove", "close"}, by : Callers,
                                       stopped : BOOLEAN]]

RunsTyped ==
    /\ cache \in [Checkouts -> SandboxFor \cup {None}]
    /\ opening \in Runs \cup {None}
    /\ released \subseteq Boxes
    /\ pc \in [Runs -> {"idle", "find", "open", "using", "done"}]
    /\ want \in [Runs -> Checkouts \cup {None}]
    /\ using \in [Runs -> SandboxFor \cup {None}]
    /\ entering \subseteq Boxes /\ shells \subseteq Boxes

LEMMA TypeParts ==
    /\ TypeOK <=> ManagerTyped /\ RunsTyped
    /\ TypeOK' <=> ManagerTyped' /\ RunsTyped'
  BY DEF TypeOK, ManagerTyped, RunsTyped

\* As far as the runs go, a step of the manager may make boxes, and may stop some,
\* but no box starts to run again.
LEMMA RunsStay ==
    ASSUME BoxesInv, UNCHANGED <<cache, opening, pc, want, using>>,
           Boxes \subseteq Boxes',
           \A b \in Boxes : Running(b)' => Running(b)
    PROVE  OneOpens' /\ InBoxes' /\ UsedIsCached'
  <1>1. OneOpens' /\ InBoxes'
    BY DEF BoxesInv, OneOpens, InBoxes
  <1>2. UsedIsCached'
    BY DEF BoxesInv, InBoxes, UsedIsCached
  <1> QED
    BY <1>1, <1>2

\* Spawn makes the box with the next number, and tracks it.
LEMMA SpawnFacts ==
    ASSUME BoxesInv, NEW c \in Checkouts, NEW state \in States, Spawn(c, state),
           UNCHANGED <<expired, destroy>>
    PROVE  /\ ManagerTyped' /\ Findable'
           /\ Boxes' = Boxes \cup {Len(of) + 1} /\ Len(of) + 1 \notin Boxes
           /\ Len(of) + 1 \in 1..MaxBoxes
           /\ Tracked' = Tracked \cup {Len(of) + 1}
           /\ \A b \in Boxes : Running(b)' => Running(b)
  <1> DEFINE n == Len(of) + 1
  <1>1. /\ of \in Seq(Checkouts) /\ Len(of) \in Nat /\ Len(of) < MaxBoxes
        /\ of' = Append(of, c) /\ engine' = engine \cup {n} /\ live' = With(live, n, state)
        /\ abandoned' = abandoned
    BY DEF BoxesInv, TypeOK, Spawn, Create
  <1>2. of' \in Seq(Checkouts) /\ Len(of') = n /\ n \in 1..MaxBoxes
    BY <1>1, SandboxAssumption
  <1>3. Boxes' = Boxes \cup {n} /\ n \notin Boxes
    BY <1>1, <1>2 DEF Boxes
  <1>4. /\ DOMAIN live' = DOMAIN live \cup {n} /\ live' \in [DOMAIN live \cup {n} -> States]
        /\ \A b \in DOMAIN live : b # n => live'[b] = live[b]
    BY <1>1 DEF BoxesInv, TypeOK, Tracked, With
  <1> HIDE DEF n
  <1>5. ManagerTyped'
    BY <1>1, <1>2, <1>3, <1>4, SandboxAssumption DEF BoxesInv, TypeOK, ManagerTyped, Tracked
  <1>6. Findable'
    BY <1>1, <1>3, <1>4 DEF BoxesInv, TypeOK, Findable, Tracked
  <1>7. \A b \in Boxes : Running(b)' => Running(b)
    BY <1>3, <1>4 DEF Running, Tracked
  <1> QED
    BY <1>2, <1>3, <1>4, <1>5, <1>6, <1>7 DEF n, Tracked

LEMMA SpawnRouteStep ==
    ASSUME BoxesInv, NEW c \in Checkouts, SpawnRoute(c)
    PROVE  BoxesInv'
  <1>1. PICK state \in States : Spawn(c, state)
    BY DEF SpawnRoute
  <1>2. UNCHANGED <<expired, destroy, cache, opening, released, pc, want, using, entering, shells>>
    BY DEF SpawnRoute, runs, terminals
  <1>3. /\ ManagerTyped' /\ Findable' /\ Boxes \subseteq Boxes'
        /\ \A b \in Boxes : Running(b)' => Running(b)
    BY <1>1, <1>2, SpawnFacts
  <1>4. RunsTyped'
    BY <1>2, <1>3 DEF BoxesInv, TypeOK, RunsTyped
  <1> QED
    BY <1>2, <1>3, <1>4, RunsStay, TypeParts DEF BoxesInv

\* A dropped spawn makes the box, and notes nothing but that it was abandoned.
LEMMA SpawnDroppedStep ==
    ASSUME BoxesInv, NEW c \in Checkouts, SpawnDropped(c)
    PROVE  BoxesInv'
  <1> DEFINE n == Len(of) + 1
  <1>1. /\ of \in Seq(Checkouts) /\ Len(of) \in Nat /\ Len(of) < MaxBoxes
        /\ of' = Append(of, c) /\ engine' = engine \cup {n} /\ abandoned' = abandoned \cup {n}
        /\ UNCHANGED <<live, expired, destroy>>
    BY DEF BoxesInv, TypeOK, SpawnDropped, Create
  <1>2. UNCHANGED <<cache, opening, released, pc, want, using, entering, shells>>
    BY DEF SpawnDropped, runs, terminals
  <1>3. of' \in Seq(Checkouts) /\ Len(of') = n /\ n \in 1..MaxBoxes
    BY <1>1, SandboxAssumption
  <1>4. Boxes' = Boxes \cup {n}
    BY <1>1, <1>3 DEF Boxes
  <1> HIDE DEF n
  <1>5. ManagerTyped'
    BY <1>1, <1>3, <1>4, SandboxAssumption DEF BoxesInv, TypeOK, ManagerTyped, Tracked
  <1>6. Findable'
    BY <1>1 DEF BoxesInv, Findable, Tracked
  <1>7. \A b \in Boxes : Running(b)' => Running(b)
    BY <1>1 DEF Running, Tracked
  <1>8. RunsTyped'
    BY <1>2, <1>4 DEF BoxesInv, TypeOK, RunsTyped
  <1> QED
    BY <1>2, <1>4, <1>5, <1>6, <1>7, <1>8, RunsStay, TypeParts DEF BoxesInv

\* A destroy takes the handle out before it talks to the engine.
LEMMA BeginFacts ==
    ASSUME BoxesInv, NEW b, NEW who \in Callers, Begin(b, who),
           UNCHANGED <<of, expired, engine, abandoned>>
    PROVE  /\ ManagerTyped' /\ Findable' /\ Boxes' = Boxes
           /\ \A x \in Boxes : Running(x)' => Running(x)
  <1> DEFINE d == [at |-> "stop", by |-> who, stopped |-> TRUE]
             D == [at : {"stop", "remove", "close"}, by : Callers, stopped : BOOLEAN]
  <1>1. b \in Tracked /\ live' = Without(live, b) /\ destroy' = With(destroy, b, d)
    BY DEF Begin
  <1>2. d \in D /\ d.at = "stop"
    OBVIOUS
  <1> HIDE DEF d
  <1>3. /\ DOMAIN live' = DOMAIN live \ {b} /\ live' \in [DOMAIN live \ {b} -> States]
        /\ \A x \in DOMAIN live \ {b} : live'[x] = live[x]
    BY <1>1 DEF BoxesInv, TypeOK, Tracked, Without
  <1>4. /\ DOMAIN destroy' = DOMAIN destroy \cup {b}
        /\ destroy' \in [DOMAIN destroy \cup {b} -> D]
        /\ destroy'[b] = d
        /\ \A x \in DOMAIN destroy : x # b => destroy'[x] = destroy[x]
    BY <1>1, <1>2 DEF BoxesInv, TypeOK, With
  <1>5. Boxes' = Boxes
    BY DEF Boxes
  <1>6. ManagerTyped'
    BY <1>1, <1>3, <1>4, <1>5 DEF BoxesInv, TypeOK, ManagerTyped, Tracked
  <1>7. Findable'
    BY <1>2, <1>3, <1>4 DEF BoxesInv, Findable, Tracked
  <1>8. \A x \in Boxes : Running(x)' => Running(x)
    BY <1>3 DEF Running, Tracked
  <1> QED
    BY <1>5, <1>6, <1>7, <1>8

\* The route, the reaper and the task of a dropped lease.
LEMMA DestroyStep ==
    ASSUME BoxesInv, NEW b \in Boxes, DestroyRoute(b) \/ Reap(b) \/ LeaseDestroy(b)
    PROVE  BoxesInv'
  <1>1. /\ UNCHANGED <<of, expired, engine, abandoned>>
        /\ UNCHANGED <<cache, opening, pc, want, using, entering, shells>>
        /\ released' \subseteq released
    BY DEF DestroyRoute, Reap, LeaseDestroy, runs, terminals
  <1>2. (\E who \in Callers : Begin(b, who)) \/ UNCHANGED <<live, destroy>>
    BY DEF DestroyRoute, Reap, LeaseDestroy, Callers
  <1>3. /\ ManagerTyped' /\ Findable' /\ Boxes' = Boxes
        /\ \A x \in Boxes : Running(x)' => Running(x)
    <2>1. CASE UNCHANGED <<live, destroy>>
      BY <1>1, <2>1
         DEF BoxesInv, TypeOK, ManagerTyped, Findable, Boxes, Running, Tracked
    <2> QED
      BY <1>1, <1>2, <2>1, BeginFacts
  <1>4. RunsTyped'
    BY <1>1, <1>3 DEF BoxesInv, TypeOK, RunsTyped
  <1> QED
    BY <1>1, <1>3, <1>4, RunsStay, TypeParts DEF BoxesInv

\* A destroy under way: the engine's stop and remove, then the shells.
LEMMA DestroyGoesOn ==
    ASSUME BoxesInv, NEW b \in Boxes,
           \/ DestroyUntracked(b) \/ Stop(b) \/ Remove(b) \/ RemoveFails(b)
           \/ DestroyDropped(b) \/ CloseShells(b)
    PROVE  BoxesInv'
  <1> DEFINE D == [at : {"stop", "remove", "close"}, by : Callers, stopped : BOOLEAN]
  <1>1. /\ UNCHANGED <<of, expired, cache, opening, released, pc, want, using, entering>>
        /\ shells' \subseteq shells /\ Boxes' = Boxes
    BY DEF DestroyUntracked, Stop, Remove, RemoveFails, DestroyDropped, CloseShells, manager, runs,
           terminals, Boxes
  <1>2. /\ DOMAIN live \subseteq Boxes /\ live \in [DOMAIN live -> States]
        /\ DOMAIN destroy \subseteq Boxes /\ destroy \in [DOMAIN destroy -> D]
        /\ engine \subseteq Boxes /\ abandoned \subseteq Boxes
    BY DEF BoxesInv, TypeOK, Tracked
  <1> SUFFICES /\ ManagerTyped' /\ Findable'
               /\ \A x \in Boxes : Running(x)' => Running(x)
    <2> SUFFICES ASSUME ManagerTyped', Findable', \A x \in Boxes : Running(x)' => Running(x)
                 PROVE  BoxesInv'
      OBVIOUS
    <2>1. RunsTyped'
      BY <1>1 DEF BoxesInv, TypeOK, RunsTyped
    <2> QED
      BY <1>1, <2>1, RunsStay, TypeParts DEF BoxesInv
  <1>3. CASE DestroyUntracked(b)
    <2> DEFINE d == [at |-> "close", by |-> "route", stopped |-> TRUE]
    <2>1. /\ b \notin Tracked /\ b \notin DOMAIN destroy
          /\ destroy' = With(destroy, b, d) /\ UNCHANGED <<live, engine, abandoned>>
      BY <1>3 DEF DestroyUntracked, manager
    <2>2. d \in D
      BY DEF Callers
    <2> HIDE DEF d
    <2>3. /\ DOMAIN destroy' = DOMAIN destroy \cup {b} /\ destroy' \in [DOMAIN destroy' -> D]
          /\ \A x \in DOMAIN destroy : destroy'[x] = destroy[x]
      BY <1>2, <2>1, <2>2 DEF With
    <2>4. b \notin engine \/ b \in abandoned
      BY <2>1 DEF BoxesInv, Findable
    <2>5. ManagerTyped'
      BY <1>1, <2>1, <2>3 DEF BoxesInv, TypeOK, ManagerTyped, Tracked
    <2>6. Findable'
      BY <2>1, <2>3, <2>4 DEF BoxesInv, Findable, Tracked
    <2> QED
      BY <2>1, <2>5, <2>6 DEF Running, Tracked
  <1>4. CASE Stop(b)
    <2>1. PICK ok \in BOOLEAN :
              destroy' = [destroy EXCEPT ![b].at = "remove", ![b].stopped = ok]
      BY <1>4 DEF Stop
    <2>2. b \in DOMAIN destroy /\ UNCHANGED <<live, engine, abandoned>>
      BY <1>4 DEF Stop, manager
    <2>3. /\ DOMAIN destroy' = DOMAIN destroy /\ destroy' \in [DOMAIN destroy' -> D]
          /\ destroy'[b].at = "remove"
          /\ \A x \in DOMAIN destroy : x # b => destroy'[x] = destroy[x]
      BY <1>2, <2>1, <2>2
    <2>4. ManagerTyped'
      BY <1>1, <2>2, <2>3 DEF BoxesInv, TypeOK, ManagerTyped, Tracked
    <2>5. Findable'
      BY <2>2, <2>3 DEF BoxesInv, Findable, Tracked
    <2> QED
      BY <2>2, <2>4, <2>5 DEF Running, Tracked
  <1>5. CASE Remove(b)
    <2>1. /\ b \in DOMAIN destroy /\ engine' = engine \ {b} /\ UNCHANGED <<live, abandoned>>
          /\ \/ destroy' = [destroy EXCEPT ![b].at = "close"]
             \/ destroy' = Without(destroy, b)
      BY <1>5 DEF Remove
    <2>2. /\ DOMAIN destroy \ {b} \subseteq DOMAIN destroy' /\ DOMAIN destroy' \subseteq DOMAIN destroy
          /\ destroy' \in [DOMAIN destroy' -> D]
          /\ \A x \in DOMAIN destroy : x # b => destroy'[x] = destroy[x]
      BY <1>2, <2>1 DEF Without
    <2>3. ManagerTyped'
      BY <1>1, <2>1, <2>2 DEF BoxesInv, TypeOK, ManagerTyped, Tracked
    <2>4. Findable'
      BY <2>1, <2>2 DEF BoxesInv, Findable, Tracked
    <2> QED
      BY <2>1, <2>3, <2>4 DEF Running, Tracked
  <1>6. CASE RemoveFails(b)
    <2>1. /\ b \in DOMAIN destroy /\ live' = With(live, b, "Failed")
          /\ destroy' = Without(destroy, b) /\ UNCHANGED <<engine, abandoned>>
      BY <1>6 DEF RemoveFails
    <2>2. /\ DOMAIN live' = DOMAIN live \cup {b} /\ live' \in [DOMAIN live' -> States]
          /\ live'[b] = "Failed" /\ \A x \in DOMAIN live : x # b => live'[x] = live[x]
      BY <1>2, <2>1 DEF With, States
    <2>3. /\ DOMAIN destroy' = DOMAIN destroy \ {b} /\ destroy' \in [DOMAIN destroy' -> D]
          /\ \A x \in DOMAIN destroy' : destroy'[x] = destroy[x]
      BY <1>2, <2>1 DEF Without
    <2>4. ManagerTyped'
      BY <1>1, <2>1, <2>2, <2>3 DEF BoxesInv, TypeOK, ManagerTyped, Tracked
    <2>5. Findable'
      BY <2>1, <2>2, <2>3 DEF BoxesInv, Findable, Tracked
    <2> QED
      BY <2>2, <2>4, <2>5 DEF Running, Tracked
  <1>7. CASE CloseShells(b)
    <2>1. /\ b \in DOMAIN destroy /\ destroy[b].at = "close"
          /\ destroy' = Without(destroy, b) /\ UNCHANGED <<live, engine, abandoned>>
      BY <1>7 DEF CloseShells, manager
    <2>2. /\ DOMAIN destroy' = DOMAIN destroy \ {b} /\ destroy' \in [DOMAIN destroy' -> D]
          /\ \A x \in DOMAIN destroy' : destroy'[x] = destroy[x]
      BY <1>2, <2>1 DEF Without
    <2>3. ManagerTyped'
      BY <1>1, <2>1, <2>2 DEF BoxesInv, TypeOK, ManagerTyped, Tracked
    <2>4. Findable'
      BY <2>1, <2>2 DEF BoxesInv, Findable, Tracked
    <2> QED
      BY <2>1, <2>3, <2>4 DEF Running, Tracked
  <1>8. CASE DestroyDropped(b)
    <2>1. /\ destroy' = Without(destroy, b) /\ UNCHANGED live
          /\ engine' = engine \/ engine' = engine \ {b}
          /\ abandoned' = abandoned \cup ({b} \cap engine')
      BY <1>8 DEF DestroyDropped
    <2>2. /\ DOMAIN destroy' = DOMAIN destroy \ {b} /\ destroy' \in [DOMAIN destroy' -> D]
          /\ \A x \in DOMAIN destroy' : destroy'[x] = destroy[x]
      BY <1>2, <2>1 DEF Without
    <2>3. ManagerTyped'
      BY <1>1, <1>2, <2>1, <2>2 DEF BoxesInv, TypeOK, ManagerTyped, Tracked
    <2>4. Findable'
      BY <2>1, <2>2 DEF BoxesInv, Findable, Tracked
    <2> QED
      BY <2>1, <2>3, <2>4 DEF Running, Tracked
  <1> QED
    BY <1>3, <1>4, <1>5, <1>6, <1>7, <1>8

\* The clock and the people who open shells.
LEMMA ClockAndShells ==
    ASSUME BoxesInv, NEW b \in Boxes, Expire(b) \/ Enter(b) \/ MakeShell(b)
    PROVE  BoxesInv'
  <1>1. /\ UNCHANGED <<of, live, engine, abandoned, destroy>>
        /\ UNCHANGED <<cache, opening, released, pc, want, using>>
        /\ expired' \subseteq expired \cup {b} /\ entering' \subseteq entering \cup {b}
        /\ shells' \subseteq shells \cup {b} /\ Boxes' = Boxes
    BY DEF Expire, Enter, MakeShell, manager, runs, terminals, Boxes
  <1>2. ManagerTyped' /\ RunsTyped'
    BY <1>1 DEF BoxesInv, TypeOK, ManagerTyped, RunsTyped, Tracked
  <1>3. Findable' /\ \A x \in Boxes : Running(x)' => Running(x)
    BY <1>1 DEF BoxesInv, Findable, Running, Tracked
  <1> QED
    BY <1>1, <1>2, <1>3, RunsStay, TypeParts DEF BoxesInv

-----------------------------------------------------------------------------
(* Steps of the runs                                                       *)

\* The oldest of some boxes is one of them.
LEMMA OldestIn ==
    ASSUME NEW S \in SUBSET Nat, S # {}
    PROVE  Oldest(S) \in S
  <1>1. ASSUME NEW x \in Nat, NEW y \in Nat, x < y PROVE <<x, y>> \in OpToRel(<, Nat)
    BY <1>1 DEF OpToRel
  <1>2. PICK x \in S : \A y \in S : ~(<<y, x>> \in OpToRel(<, Nat))
    BY NatLessThanWellFounded, WFMin
  <1>3. \A y \in S : ~(y < x)
    BY <1>1, <1>2
  <1>4. \A y \in S : x =< y
    BY <1>3
  <1> QED
    BY <1>4 DEF Oldest

\* Steps that leave the manager alone leave its part of the invariant alone.
LEMMA ManagerStays ==
    ASSUME BoxesInv, UNCHANGED <<of, live, expired, engine, abandoned, destroy>>
    PROVE  /\ ManagerTyped' /\ Findable' /\ Boxes' = Boxes
           /\ \A b \in Boxes : Running(b)' => Running(b)
  BY DEF BoxesInv, TypeOK, ManagerTyped, Findable, Boxes, Running, Tracked

LEMMA CacheHitStep ==
    ASSUME BoxesInv, NEW r \in Runs, NEW c \in Checkouts, CacheHit(r, c)
    PROVE  BoxesInv'
  <1>1. /\ opening = None /\ cache[c] # None
        /\ using' = [using EXCEPT ![r] = cache[c]] /\ pc' = [pc EXCEPT ![r] = "using"]
        /\ want' = [want EXCEPT ![r] = c]
        /\ UNCHANGED <<of, live, expired, engine, abandoned, destroy>>
        /\ UNCHANGED <<cache, opening, released, entering, shells>>
    BY DEF CacheHit, Cached, Use, manager, terminals
  <1>2. ManagerTyped' /\ Findable' /\ Boxes' = Boxes /\ \A b \in Boxes : Running(b)' => Running(b)
    BY <1>1, ManagerStays
  <1>3. RunsTyped'
    BY <1>1, <1>2 DEF BoxesInv, TypeOK, RunsTyped
  <1>4. OneOpens'
    BY <1>1, SandboxAssumption DEF BoxesInv, TypeOK, OneOpens
  <1>5. InBoxes'
    BY <1>1, <1>2 DEF BoxesInv, TypeOK, InBoxes
  <1>6. UsedIsCached'
    BY <1>1, <1>2 DEF BoxesInv, TypeOK, InBoxes, UsedIsCached
  <1> QED
    BY <1>2, <1>3, <1>4, <1>5, <1>6, TypeParts DEF BoxesInv

\* A miss: no run is in a running box of this checkout, or it would be cached.
LEMMA CacheMissStep ==
    ASSUME BoxesInv, NEW r \in Runs, NEW c \in Checkouts, CacheMiss(r, c)
    PROVE  BoxesInv'
  <1>1. /\ opening = None /\ (cache[c] = None \/ cache[c].box \notin Tracked)
        /\ cache' = [cache EXCEPT ![c] = None] /\ opening' = r
        /\ pc' = [pc EXCEPT ![r] = "find"] /\ want' = [want EXCEPT ![r] = c]
        /\ released' \subseteq released \cup {cache[c].box}
        /\ cache[c] = None => released' = released
        /\ UNCHANGED <<of, live, expired, engine, abandoned, destroy, using, entering, shells>>
    BY DEF CacheMiss, Cached, Drop, manager, terminals
  <1>2. ManagerTyped' /\ Findable' /\ Boxes' = Boxes /\ \A b \in Boxes : Running(b)' => Running(b)
    BY <1>1, ManagerStays
  <1>3. RunsTyped'
    BY <1>1, <1>2 DEF BoxesInv, TypeOK, InBoxes, RunsTyped
  <1>4. OneOpens'
    BY <1>1, SandboxAssumption DEF BoxesInv, TypeOK, OneOpens
  <1>5. InBoxes'
    BY <1>1, <1>2 DEF BoxesInv, TypeOK, InBoxes
  <1>6. UsedIsCached'
    BY <1>1, <1>2 DEF BoxesInv, TypeOK, InBoxes, UsedIsCached, Running
  <1> QED
    BY <1>2, <1>3, <1>4, <1>5, <1>6, TypeParts DEF BoxesInv

\* The run that held the lock keeps a box, its own or one it found.
LEMMA KeepFacts ==
    ASSUME BoxesInv, NEW r \in Runs, pc[r] \in {"find", "open"}, NEW b \in 1..MaxBoxes, Keep(r, b),
           UNCHANGED <<released, want, entering, shells>>,
           Boxes \subseteq Boxes', b \in Boxes',
           \A x \in Boxes : Running(x)' => Running(x)
    PROVE  RunsTyped' /\ OneOpens' /\ InBoxes' /\ UsedIsCached'
  <1> DEFINE s == [box |-> b, by |-> r]
  <1>1. /\ s \in SandboxFor /\ s # None /\ s.box = b
    BY SandboxAssumption DEF SandboxFor
  <1>2. /\ cache' = [cache EXCEPT ![want[r]] = s] /\ using' = [using EXCEPT ![r] = s]
        /\ pc' = [pc EXCEPT ![r] = "using"] /\ opening' = None
    BY DEF Keep, Use
  <1>3. opening = r /\ want[r] \in Checkouts /\ cache[want[r]] = None
    BY DEF BoxesInv, OneOpens
  <1> HIDE DEF s
  <1>4. RunsTyped'
    BY <1>1, <1>2, <1>3 DEF BoxesInv, TypeOK, RunsTyped
  <1>5. OneOpens'
    BY <1>2, <1>3 DEF BoxesInv, TypeOK, OneOpens
  <1>6. InBoxes'
    BY <1>1, <1>2, <1>3 DEF BoxesInv, TypeOK, InBoxes
  <1>7. UsedIsCached'
    BY <1>1, <1>2, <1>3 DEF BoxesInv, TypeOK, InBoxes, UsedIsCached
  <1> QED
    BY <1>4, <1>5, <1>6, <1>7

LEMMA FindStep ==
    ASSUME BoxesInv, NEW r \in Runs, Find(r)
    PROVE  BoxesInv'
  <1>1. /\ pc[r] = "find"
        /\ UNCHANGED <<of, live, expired, engine, abandoned, destroy>>
        /\ UNCHANGED <<released, want, entering, shells>>
    BY DEF Find, manager, terminals
  <1>2. ManagerTyped' /\ Findable' /\ Boxes' = Boxes /\ \A b \in Boxes : Running(b)' => Running(b)
    BY <1>1, ManagerStays
  <1>3. CASE Matching(want[r]) # {}
    <2> DEFINE b == Oldest(Matching(want[r]))
    <2>1. Matching(want[r]) \subseteq Boxes /\ Boxes \subseteq 1..MaxBoxes /\ Boxes \subseteq Nat
      BY SandboxAssumption DEF BoxesInv, TypeOK, Matching, Boxes
    <2>2. b \in Boxes /\ b \in 1..MaxBoxes
      BY <1>3, <2>1, OldestIn
    <2>3. Keep(r, b)
      BY <1>3 DEF Find
    <2> HIDE DEF b
    <2> QED
      BY <1>1, <1>2, <2>2, <2>3, KeepFacts, TypeParts DEF BoxesInv
  <1>4. CASE Matching(want[r]) = {}
    <2>1. pc' = [pc EXCEPT ![r] = "open"] /\ UNCHANGED <<cache, opening, using>>
      BY <1>4 DEF Find
    <2>2. RunsTyped'
      BY <1>1, <1>2, <2>1 DEF BoxesInv, TypeOK, RunsTyped
    <2>3. OneOpens' /\ InBoxes' /\ UsedIsCached'
      BY <1>1, <1>2, <2>1 DEF BoxesInv, TypeOK, OneOpens, InBoxes, UsedIsCached
    <2> QED
      BY <1>2, <2>2, <2>3, TypeParts DEF BoxesInv
  <1> QED
    BY <1>3, <1>4

LEMMA OpenStep ==
    ASSUME BoxesInv, NEW r \in Runs, Open(r)
    PROVE  BoxesInv'
  <1> DEFINE n == Len(of) + 1
  <1>1. /\ pc[r] = "open" /\ Spawn(want[r], "Running") /\ Keep(r, n)
        /\ UNCHANGED <<expired, destroy, released, want, entering, shells>>
    BY DEF Open, terminals
  <1>2. want[r] \in Checkouts
    BY <1>1 DEF BoxesInv, OneOpens
  <1>3. /\ ManagerTyped' /\ Findable' /\ Boxes \subseteq Boxes' /\ n \in Boxes' /\ n \in 1..MaxBoxes
        /\ \A b \in Boxes : Running(b)' => Running(b)
    BY <1>1, <1>2, SpawnFacts DEF States
  <1> HIDE DEF n
  <1> QED
    BY <1>1, <1>3, KeepFacts, TypeParts DEF BoxesInv

LEMMA OpenFailsStep ==
    ASSUME BoxesInv, NEW r \in Runs, OpenFails(r)
    PROVE  BoxesInv'
  <1>1. /\ pc[r] = "open"
        /\ Spawn(want[r], "Failed") \/ UNCHANGED <<of, live, engine, abandoned>>
        /\ opening' = None /\ pc' = [pc EXCEPT ![r] = "done"]
        /\ UNCHANGED <<expired, destroy, cache, released, want, using, entering, shells>>
    BY DEF OpenFails, terminals
  <1>2. opening = r /\ want[r] \in Checkouts
    BY DEF OpenFails, BoxesInv, OneOpens
  <1>3. /\ ManagerTyped' /\ Findable' /\ Boxes \subseteq Boxes'
        /\ \A b \in Boxes : Running(b)' => Running(b)
    <2>1. CASE Spawn(want[r], "Failed")
      BY <1>1, <1>2, <2>1, SpawnFacts DEF States
    <2>2. CASE UNCHANGED <<of, live, engine, abandoned>>
      BY <1>1, <2>2, ManagerStays
    <2> QED
      BY <1>1, <2>1, <2>2
  <1>4. RunsTyped'
    BY <1>1, <1>3 DEF BoxesInv, TypeOK, RunsTyped
  <1>5. OneOpens'
    BY <1>1, <1>2 DEF BoxesInv, TypeOK, OneOpens
  <1>6. InBoxes' /\ UsedIsCached'
    BY <1>1, <1>3 DEF BoxesInv, TypeOK, InBoxes, UsedIsCached
  <1> QED
    BY <1>3, <1>4, <1>5, <1>6, TypeParts DEF BoxesInv

LEMMA FinishStep ==
    ASSUME BoxesInv, NEW r \in Runs, Finish(r)
    PROVE  BoxesInv'
  <1>1. /\ pc[r] = "using"
        /\ pc' = [pc EXCEPT ![r] = "done"] /\ using' = [using EXCEPT ![r] = None]
        /\ released' \subseteq released \cup {using[r].box}
        /\ UNCHANGED <<of, live, expired, engine, abandoned, destroy>>
        /\ UNCHANGED <<cache, opening, want, entering, shells>>
    BY DEF Finish, Drop, manager, terminals
  <1>2. ManagerTyped' /\ Findable' /\ Boxes' = Boxes /\ \A b \in Boxes : Running(b)' => Running(b)
    BY <1>1, ManagerStays
  <1>3. RunsTyped'
    BY <1>1, <1>2 DEF BoxesInv, TypeOK, InBoxes, RunsTyped
  <1>4. OneOpens' /\ InBoxes' /\ UsedIsCached'
    BY <1>1, <1>2 DEF BoxesInv, TypeOK, OneOpens, InBoxes, UsedIsCached
  <1> QED
    BY <1>2, <1>3, <1>4, TypeParts DEF BoxesInv

LEMMA BoxesStep == BoxesInv /\ [Next]_vars => BoxesInv'
  <1> SUFFICES ASSUME BoxesInv, [Next]_vars PROVE BoxesInv'
    OBVIOUS
  <1>1. CASE UNCHANGED vars
    <2>1. /\ UNCHANGED <<of, live, expired, engine, abandoned, destroy>>
          /\ UNCHANGED <<cache, opening, released, pc, want, using, entering, shells>>
      BY <1>1 DEF vars
    <2>2. ManagerTyped' /\ Findable' /\ Boxes' = Boxes /\ \A b \in Boxes : Running(b)' => Running(b)
      BY <2>1, ManagerStays
    <2>3. RunsTyped'
      BY <2>1, <2>2 DEF BoxesInv, TypeOK, RunsTyped
    <2> QED
      BY <2>1, <2>2, <2>3, RunsStay, TypeParts DEF BoxesInv
  <1>2. ASSUME NEW c \in Checkouts,
               \/ SpawnRoute(c) \/ SpawnDropped(c)
               \/ \E r \in Runs : CacheHit(r, c) \/ CacheMiss(r, c)
        PROVE  BoxesInv'
    BY <1>2, SpawnRouteStep, SpawnDroppedStep, CacheHitStep, CacheMissStep
  <1>3. ASSUME NEW r \in Runs, Find(r) \/ Open(r) \/ OpenFails(r) \/ Finish(r)
        PROVE  BoxesInv'
    BY <1>3, FindStep, OpenStep, OpenFailsStep, FinishStep
  <1>4. ASSUME NEW b \in Boxes,
               \/ Expire(b) \/ DestroyRoute(b) \/ DestroyUntracked(b) \/ Reap(b)
               \/ LeaseDestroy(b) \/ Stop(b) \/ Remove(b) \/ RemoveFails(b) \/ DestroyDropped(b)
               \/ CloseShells(b)
               \/ Enter(b) \/ MakeShell(b)
        PROVE  BoxesInv'
    BY <1>4, DestroyStep, DestroyGoesOn, ClockAndShells
  <1> QED
    BY <1>1, <1>2, <1>3, <1>4 DEF Next

LEMMA BoxesAlways == Spec => []BoxesInv
  BY BoxesInit, BoxesStep, PTL DEF Spec

\* A container on the engine is tracked, about to be removed, or was in the hands of a
\* route's handler when that was dropped: no failure of the engine and no order of
\* destroys, spawns and reaps loses another (runtime.rs, spawn and destroy).
THEOREM BoxesHold == Spec => []BoxesAccountedFor
  BY BoxesAlways, BoxesEnough, PTL

\* Two runs of one checkout never work in two boxes that both still take commands, for
\* every number of runs and whoever destroys what meanwhile (sandbox.rs,
\* SandboxCache::get).
THEOREM OneBoxHolds == Spec => []OneBoxPerCheckout
  BY BoxesAlways, BoxesEnough, PTL

-----------------------------------------------------------------------------
(* Terminal: the inductive invariant                                       *)

\* The reader broadcasts each chunk before it reads the next, and says that the
\* shell exited last; no client is past the frame to come.
ReaderInStep ==
    /\ reader = "read" => sent = printed
    /\ reader = "send" => printed = sent + 1
    /\ exited => reader = "over"
    /\ \A c \in Clients : next[c] =< Shell!Frames + 1

ShellInv == Shell!TypeOK /\ ReaderInStep /\ NoHoleUnlessTold

LEMMA ShellInit == Shell!Init => ShellInv
  <1> SUFFICES ASSUME Shell!Init PROVE ShellInv
    OBVIOUS
  <1>1. /\ registered \in BOOLEAN /\ exited \in BOOLEAN /\ ~exited
        /\ lagged \in [Clients -> BOOLEAN]
    BY DEF Shell!Init
  <1>2. /\ printed = 0 /\ sent = 0 /\ next = [c \in Clients |-> 1] /\ seen = [c \in Clients |-> {}]
        /\ reader = "read" /\ at = [c \in Clients |-> "idle"]
        /\ kind \in {"local", "remote"} /\ shell = "running" /\ stopping = "no"
    BY DEF Shell!Init
  <1>3. Shell!TypeOK
    BY <1>1, <1>2, HostedAssumption DEF Shell!TypeOK
  <1>4. ReaderInStep
    BY <1>1, <1>2 DEF ReaderInStep, Shell!Frames
  <1>5. NoHoleUnlessTold
    BY <1>2 DEF NoHoleUnlessTold, Shell!NoHoleUnlessTold
  <1> QED
    BY <1>3, <1>4, <1>5 DEF ShellInv

\* What the reader and DELETE do to the clients: nothing but more frames.
LEMMA ReaderStep ==
    ASSUME ShellInv,
           \/ Shell!Retain \/ Shell!Broadcast \/ Shell!EndOfFile \/ Shell!Exit
           \/ Shell!Delete \/ Shell!HangUp \/ Shell!Abort
    PROVE  ShellInv'
  <1>1. /\ UNCHANGED <<kind, at, next, seen, lagged>>
        /\ printed \in 0..MaxChunks /\ sent \in 0..printed
        /\ registered \in BOOLEAN /\ exited \in BOOLEAN
    BY DEF ShellInv, Shell!TypeOK, Shell!Retain, Shell!Broadcast, Shell!EndOfFile, Shell!Exit,
           Shell!Delete, Shell!HangUp, Shell!Abort, Shell!clients
  <1>2. /\ printed' \in 0..MaxChunks /\ sent' \in 0..printed'
        /\ reader' = "read" => sent' = printed'
        /\ reader' = "send" => printed' = sent' + 1
        /\ sent' \in {sent, sent + 1} /\ (sent' = sent + 1 => ~exited)
    BY <1>1, HostedAssumption
       DEF ShellInv, ReaderInStep, Shell!Retain, Shell!Broadcast, Shell!EndOfFile, Shell!Exit,
           Shell!Delete, Shell!HangUp, Shell!Abort
  <1>3. /\ exited' \in BOOLEAN /\ registered' \in BOOLEAN
        /\ (exited => exited') /\ (exited' => reader' = "over")
    <2>1. exited' = exited \/ (exited' = TRUE /\ reader' = "over")
      BY DEF Shell!Retain, Shell!Broadcast, Shell!EndOfFile, Shell!Exit, Shell!Delete,
             Shell!HangUp, Shell!Abort
    <2>2. registered' = registered \/ registered' = FALSE
      BY DEF Shell!Retain, Shell!Broadcast, Shell!EndOfFile, Shell!Exit, Shell!Delete,
             Shell!HangUp, Shell!Abort
    <2>3. reader = "over" => reader' = "over"
      BY DEF Shell!Retain, Shell!Broadcast, Shell!EndOfFile, Shell!Exit, Shell!Delete,
             Shell!HangUp, Shell!Abort
    <2>4. exited \in BOOLEAN /\ registered \in BOOLEAN /\ (exited => reader = "over")
      BY DEF ShellInv, Shell!TypeOK, ReaderInStep
    <2>5. CASE exited' = exited
      BY <2>2, <2>3, <2>4, <2>5
    <2>6. CASE exited' = TRUE /\ reader' = "over"
      BY <2>2, <2>4, <2>6
    <2> QED
      BY <2>1, <2>5, <2>6
  <1>4. /\ shell' \in {"running", "ended"} /\ reader' \in {"read", "send", "over", "aborted"}
        /\ stopping' \in {"no", "close", "abort", "done"}
    BY DEF ShellInv, Shell!TypeOK, Shell!Retain, Shell!Broadcast, Shell!EndOfFile, Shell!Exit,
           Shell!Delete, Shell!HangUp, Shell!Abort
  <1>5. Shell!TypeOK'
    BY <1>1, <1>2, <1>3, <1>4 DEF ShellInv, Shell!TypeOK
  <1>6. ReaderInStep'
    <2>1. Shell!Frames \in Nat /\ Shell!Frames' \in Nat /\ Shell!Frames =< Shell!Frames'
      <3>1. sent \in Nat /\ sent' \in Nat /\ sent =< sent' /\ (exited => sent' = sent /\ exited')
        BY <1>1, <1>2, <1>3
      <3>2. CASE exited
        <4>1. exited' /\ sent' = sent
          BY <3>1, <3>2
        <4>2. Shell!Frames = sent + 1
          BY <3>2 DEF Shell!Frames
        <4>3. Shell!Frames' = sent' + 1
          BY <4>1 DEF Shell!Frames
        <4> QED
          BY <3>1, <4>1, <4>2, <4>3
      <3>3. CASE ~exited
        <4>1. Shell!Frames = sent
          BY <3>1, <3>3 DEF Shell!Frames
        <4>2. Shell!Frames' = sent' \/ Shell!Frames' = sent' + 1
          <5>1. CASE exited'
            BY <5>1 DEF Shell!Frames
          <5>2. CASE ~exited'
            <6>1. \A n \in Nat : n + 0 = n
              OBVIOUS
            <6>2. Shell!Frames' = sent' + 0
              BY <5>2 DEF Shell!Frames
            <6> QED
              BY <3>1, <6>1, <6>2, Zenon
          <5> QED
            BY <5>1, <5>2
        <4> QED
          BY <3>1, <4>1, <4>2
      <3> QED
        BY <3>2, <3>3
    <2>2. \A c \in Clients : next'[c] =< Shell!Frames' + 1
      BY <1>1, <2>1 DEF ShellInv, Shell!TypeOK, ReaderInStep
    <2> QED
      BY <1>2, <1>3, <2>2 DEF ReaderInStep
  <1>7. NoHoleUnlessTold'
    BY <1>1, <1>2 DEF ShellInv, Shell!TypeOK, ReaderInStep, Shell!Frames, NoHoleUnlessTold,
                      Shell!NoHoleUnlessTold
  <1> QED
    BY <1>5, <1>6, <1>7 DEF ShellInv

\* What a client does: it subscribes before it takes the scrollback, so nothing
\* falls between the two.
LEMMA ClientStep ==
    ASSUME ShellInv, NEW c \in Clients, Shell!Reading(c) \/ Shell!Detach(c)
    PROVE  ShellInv'
  <1>1. /\ UNCHANGED <<kind, registered, shell, reader, printed, sent, exited, stopping>>
        /\ printed \in 0..MaxChunks /\ sent \in 0..printed /\ sent \in Nat /\ printed \in Nat
        /\ MaxChunks \in Nat
        /\ next \in [Clients -> 1..MaxChunks + 2] /\ seen \in [Clients -> SUBSET (1..MaxChunks)]
        /\ at \in [Clients -> {"idle", "upgraded", "subscribed", "live", "ended"}]
    BY HostedAssumption
       DEF ShellInv, Shell!TypeOK, Shell!Reading, Shell!Upgrade, Shell!Subscribe, Shell!Snapshot,
           Shell!Deliver, Shell!Lag, Shell!Detach, Shell!daemon
  <1>2. Shell!Frames \in Nat /\ Shell!Frames' = Shell!Frames /\ Shell!Frames =< MaxChunks + 1
    <2>1. CASE exited
      BY <1>1, <2>1 DEF Shell!Frames
    <2>2. CASE ~exited
      BY <1>1, <2>2 DEF Shell!Frames
    <2> QED
      BY <2>1, <2>2
  <1>3. Shell!Oldest \in 1..Shell!Frames + 1
    BY <1>2, HostedAssumption DEF Shell!Oldest
  <1>4. /\ \A d \in Clients : next[d] =< Shell!Frames + 1
        /\ NoHoleUnlessTold
    BY DEF ShellInv, ReaderInStep
  <1>5. \/ lagged' = lagged
        \/ lagged' = [lagged EXCEPT ![c] = TRUE]
    BY DEF Shell!Reading, Shell!Upgrade, Shell!Subscribe, Shell!Snapshot,
           Shell!Deliver, Shell!Lag, Shell!Detach
  <1>6. lagged' \in [Clients -> BOOLEAN]
    BY <1>5 DEF ShellInv, Shell!TypeOK
  <1> HIDE DEF Shell!Frames
  <1>7. CASE Shell!Upgrade(c) \/ Shell!Detach(c)
    <2>1. /\ \E l \in {"upgraded", "ended"} : at' = [at EXCEPT ![c] = l]
          /\ UNCHANGED <<next, seen, lagged>>
      BY <1>7 DEF Shell!Upgrade, Shell!Detach, Shell!Move
    <2>2. at' \in [Clients -> {"idle", "upgraded", "subscribed", "live", "ended"}]
      BY <1>1, <2>1
    <2>3. NoHoleUnlessTold'
      BY <1>1, <1>4, <2>1 DEF NoHoleUnlessTold, Shell!NoHoleUnlessTold
    <2>4. Shell!TypeOK'
      BY <1>1, <2>1, <2>2 DEF ShellInv, Shell!TypeOK
    <2>5. ReaderInStep'
      BY <1>1, <1>2, <1>4, <2>1 DEF ShellInv, ReaderInStep
    <2> QED
      BY <2>3, <2>4, <2>5 DEF ShellInv
  <1>8. CASE Shell!Subscribe(c)
    <2>1. /\ \E l \in {"subscribed", "ended"} : at' = [at EXCEPT ![c] = l]
          /\ next' = [next EXCEPT ![c] = Shell!Frames + 1]
          /\ UNCHANGED <<seen, lagged>>
      BY <1>8 DEF Shell!Subscribe, Shell!Move
    <2>2. at' \in [Clients -> {"idle", "upgraded", "subscribed", "live", "ended"}]
      BY <1>1, <2>1
    <2>3. next' \in [Clients -> 1..MaxChunks + 2]
      BY <1>1, <1>2, <2>1
    <2>4. Shell!TypeOK'
      BY <1>1, <2>1, <2>2, <2>3 DEF ShellInv, Shell!TypeOK
    <2>5. ReaderInStep'
      BY <1>1, <1>2, <1>4, <2>1 DEF ShellInv, ReaderInStep
    <2>6. NoHoleUnlessTold'
      BY <1>1, <1>4, <2>1 DEF NoHoleUnlessTold, Shell!NoHoleUnlessTold
    <2> QED
      BY <2>4, <2>5, <2>6 DEF ShellInv
  <1>9. CASE Shell!Snapshot(c)
    <2>1. /\ at' = [at EXCEPT ![c] = "live"] /\ seen' = [seen EXCEPT ![c] = Shell!Scrollback]
          /\ UNCHANGED <<next, lagged>>
      BY <1>9 DEF Shell!Snapshot, Shell!Move
    <2>2. /\ Shell!Scrollback \in SUBSET (1..MaxChunks)
          /\ \A i \in Shell!Scrollback : \A k \in i..sent : k \in Shell!Scrollback
      BY <1>1, HostedAssumption DEF Shell!Scrollback
    <2>3. /\ at' \in [Clients -> {"idle", "upgraded", "subscribed", "live", "ended"}]
          /\ seen' \in [Clients -> SUBSET (1..MaxChunks)]
      BY <1>1, <2>1, <2>2
    <2>4. Shell!TypeOK'
      BY <1>1, <2>1, <2>3 DEF ShellInv, Shell!TypeOK
    <2>5. ReaderInStep'
      BY <1>1, <1>2, <1>4, <2>1 DEF ShellInv, ReaderInStep
    <2>6. NoHoleUnlessTold'
      BY <1>1, <1>4, <2>1, <2>2 DEF NoHoleUnlessTold, Shell!NoHoleUnlessTold
    <2> QED
      BY <2>4, <2>5, <2>6 DEF ShellInv
  <1>10. CASE Shell!Deliver(c)
    <2>1. /\ next[c] =< Shell!Frames
          /\ next' = [next EXCEPT ![c] = next[c] + 1] /\ UNCHANGED lagged
          /\ \/ /\ next[c] =< sent /\ UNCHANGED at
                /\ seen' = [seen EXCEPT ![c] = seen[c] \cup {next[c]}]
             \/ at' = [at EXCEPT ![c] = "ended"] /\ UNCHANGED seen
      BY <1>10 DEF Shell!Deliver, Shell!Move
    <2>2. next' \in [Clients -> 1..MaxChunks + 2]
      BY <1>1, <1>2, <2>1
    <2>3. /\ at' \in [Clients -> {"idle", "upgraded", "subscribed", "live", "ended"}]
          /\ seen' \in [Clients -> SUBSET (1..MaxChunks)]
      BY <1>1, <2>1
    <2>4. Shell!TypeOK'
      BY <1>1, <2>1, <2>2, <2>3 DEF ShellInv, Shell!TypeOK
    <2>5. ReaderInStep'
      BY <1>1, <1>2, <1>4, <2>1 DEF ShellInv, ReaderInStep
    <2>6. NoHoleUnlessTold'
      BY <1>1, <1>4, <2>1 DEF NoHoleUnlessTold, Shell!NoHoleUnlessTold
    <2> QED
      BY <2>4, <2>5, <2>6 DEF ShellInv
  <1>11. CASE Shell!Lag(c)
    <2>1. /\ next' = [next EXCEPT ![c] = Shell!Oldest] /\ lagged' = [lagged EXCEPT ![c] = TRUE]
          /\ UNCHANGED <<at, seen>>
      BY <1>11 DEF Shell!Lag
    <2>2. next' \in [Clients -> 1..MaxChunks + 2]
      BY <1>1, <1>2, <1>3, <2>1
    <2>3. Shell!TypeOK'
      BY <1>1, <1>6, <2>1, <2>2 DEF ShellInv, Shell!TypeOK
    <2>4. ReaderInStep'
      BY <1>1, <1>2, <1>3, <1>4, <2>1 DEF ShellInv, ReaderInStep
    <2>5. NoHoleUnlessTold'
      BY <1>1, <1>4, <2>1 DEF NoHoleUnlessTold, Shell!NoHoleUnlessTold, ShellInv, Shell!TypeOK
    <2> QED
      BY <2>3, <2>4, <2>5 DEF ShellInv
  <1> QED
    BY <1>7, <1>8, <1>9, <1>10, <1>11 DEF Shell!Reading

LEMMA ShellStep == ShellInv /\ [Shell!Next]_(Shell!vars) => ShellInv'
  <1> SUFFICES ASSUME ShellInv, [Shell!Next]_(Shell!vars) PROVE ShellInv'
    OBVIOUS
  <1>1. CASE UNCHANGED Shell!vars
    BY <1>1 DEF Shell!vars, ShellInv, Shell!TypeOK, ReaderInStep, Shell!Frames, NoHoleUnlessTold,
                Shell!NoHoleUnlessTold
  <1>2. CASE Shell!Next
    BY <1>2, ReaderStep, ClientStep DEF Shell!Next
  <1> QED
    BY <1>1, <1>2

\* From the first chunk a client was sent, every chunk up to where it has read was
\* sent to it, or it was told that it lagged (terminal_ws.rs, terminal_ws).
THEOREM NoHoleHolds == Shell!Spec => []NoHoleUnlessTold
  <1>1. ShellInv => NoHoleUnlessTold
    BY DEF ShellInv
  <1> QED
    BY <1>1, ShellInit, ShellStep, PTL DEF Shell!Spec

-----------------------------------------------------------------------------
(* McpHost: the inductive invariant, in parts                              *)

Labels == {"idle", "check", "restart", "connect", "list", "resolve", "send", "flight", "probe",
           "take", "reap", "mark", "refresh", "publish", "done"}
CallLabels == {"check", "restart", "connect", "list", "resolve", "send", "flight"}

\* Connections are children that were started.
Conns == (1..made) \cup {None}

HostTyped ==
    /\ st \in {Host!UpWith(c) : c \in 1..made} \cup {Host!Is(w) : w \in {"Down", "GivenUp", "Disabled"}}
    /\ restarting \in McpCalls \cup {None}
    /\ alive \subseteq 1..made
    /\ made \in 0..MaxChildren
    /\ hostPc \in [Host!Procs -> Labels]
    /\ mine \in [Host!Procs -> Conns]

\* A probe never restarts the server or sends a call; who connects or lists holds
\* the restart mutex, and the connection it replaces is dead.
OneRestarts ==
    /\ \A p \in Host!Procs \ McpCalls : hostPc[p] \notin CallLabels
    /\ \A p \in Host!Procs : hostPc[p] \in {"connect", "list"} =>
           restarting = p /\ st.conn \notin alive

\* A child that runs is the state's, or one brought up or reaped.
Kept == \A c \in alive :
            \/ c = st.conn
            \/ \E p \in Host!Procs : hostPc[p] \in {"list", "reap"} /\ mine[p] = c

FlightsUp == \A p \in Host!Procs : hostPc[p] = "flight" => st = Host!UpWith(mine[p])

\* Who lists tools has the child it connected to.
HasChild == \A p \in Host!Procs : hostPc[p] = "list" => mine[p] \in 1..made

HostInv == HostTyped /\ OneRestarts /\ Kept /\ FlightsUp /\ HasChild

\* The server is Up with a child, or has none.
LEMMA StateShape ==
    ASSUME HostTyped
    PROVE  \/ /\ st.is = "Up" /\ st.conn \in 1..made /\ st = Host!UpWith(st.conn)
           \/ st.is # "Up" /\ st.conn = None
  BY DEF HostTyped, Host!UpWith, Host!Is

LEMMA NoneNotAlive ==
    ASSUME HostInv
    PROVE  None \notin alive
  <1>1. made \in Nat /\ alive \subseteq 1..made
    BY HostedAssumption DEF HostInv, HostTyped
  <1>2. alive \subseteq Nat
    BY <1>1
  <1> QED
    BY <1>2, HostedAssumption

LEMMA HostEnough == HostInv => ChildrenAccountedFor
  <1> SUFFICES ASSUME HostInv PROVE ChildrenAccountedFor
    OBVIOUS
  <1>1. alive \subseteq {st.conn} \cup Host!BeingBroughtUp \cup Host!BeingReaped
    BY DEF HostInv, Kept, Host!BeingBroughtUp, Host!BeingReaped
  <1> DEFINE S == alive \ Host!BeingReaped
  <1>2. \A x, y \in S : x = y
    <2>1. CASE \E p \in Host!Procs : hostPc[p] = "list"
      <3> PICK p \in Host!Procs : hostPc[p] = "list"
        BY <2>1
      <3>1. st.conn \notin alive /\ restarting = p
        BY DEF HostInv, OneRestarts
      <3>2. \A q \in Host!Procs : hostPc[q] = "list" => q = p
        BY <3>1 DEF HostInv, OneRestarts
      <3> QED
        BY <1>1, <3>1, <3>2 DEF Host!BeingBroughtUp
    <2>2. CASE ~\E p \in Host!Procs : hostPc[p] = "list"
      BY <1>1, <2>2 DEF Host!BeingBroughtUp
    <2> QED
      BY <2>1, <2>2
  <1>3. Cardinality(S) =< 1
    <2>1. CASE S = {}
      BY <2>1, FS_EmptySet
    <2>2. CASE S # {}
      <3> PICK x \in S : TRUE
        BY <2>2
      <3>1. S = {x}
        BY <1>2
      <3> QED
        BY <3>1, FS_Singleton
    <2> QED
      BY <2>1, <2>2
  <1>4. \A p \in Host!InFlight : st = Host!UpWith(mine[p])
    BY DEF HostInv, FlightsUp, Host!InFlight
  <1>5. Host!Cardinality(S) = Cardinality(S)
    BY Zenon DEF Host!Cardinality, Cardinality
  <1> QED
    BY <1>1, <1>3, <1>4, <1>5 DEF ChildrenAccountedFor, Host!ChildrenAccountedFor

LEMMA HostInit == Host!Init => HostInv
  <1> SUFFICES ASSUME Host!Init PROVE HostInv
    OBVIOUS
  <1>1. HostTyped
    BY HostedAssumption DEF Host!Init, HostTyped, Labels, Conns
  <1>2. OneRestarts /\ Kept /\ FlightsUp /\ HasChild
    BY DEF Host!Init, OneRestarts, Kept, FlightsUp, HasChild, CallLabels
  <1> QED
    BY <1>1, <1>2 DEF HostInv

\* A call or probe that goes on without touching the server: what it holds may
\* change hands only where nobody is accountable for it.
LEMMA MoveStep ==
    ASSUME HostInv, NEW p \in Host!Procs, NEW l \in Labels \ {"connect", "list", "flight", "reap"},
           hostPc[p] \notin {"connect", "list", "reap"},
           p \notin McpCalls => l \notin CallLabels,
           hostPc' = [hostPc EXCEPT ![p] = l],
           mine' = mine \/ \E c \in Conns : mine' = [mine EXCEPT ![p] = c],
           restarting' = restarting \/ (restarting = None /\ restarting' = p /\ p \in McpCalls),
           UNCHANGED <<st, alive, made>>
    PROVE  HostInv'
  <1>1. /\ hostPc \in [Host!Procs -> Labels] /\ mine \in [Host!Procs -> Conns]
        /\ hostPc' \in [Host!Procs -> Labels] /\ mine' \in [Host!Procs -> Conns]
        /\ hostPc'[p] = l
        /\ \A q \in Host!Procs \ {p} : hostPc'[q] = hostPc[q] /\ mine'[q] = mine[q]
    BY DEF HostInv, HostTyped
  <1>2. HostTyped'
    BY <1>1 DEF HostInv, HostTyped, Conns
  <1>3. OneRestarts'
    BY <1>1, HostedAssumption DEF HostInv, OneRestarts, CallLabels
  <1>4. Kept'
    BY <1>1 DEF HostInv, Kept
  <1>5. FlightsUp' /\ HasChild'
    BY <1>1 DEF HostInv, FlightsUp, HasChild
  <1> QED
    BY <1>2, <1>3, <1>4, <1>5 DEF HostInv

\* The steps that only read the server.
LEMMA ReadingSteps ==
    ASSUME HostInv, NEW p \in Host!Procs,
           \/ (p \in McpCalls /\ Host!Call(p)) \/ Host!CheckUp(p) \/ Host!Unusable(p)
           \/ Host!Resolve(p) \/ Host!Answer(p) \/ Host!Dropped(p) \/ Host!TimeOut(p)
           \/ Host!Refresh(p) \/ Host!Publish(p) \/ Host!Probe(p) \/ Host!ProbeAnswered(p)
           \/ Host!ProbeFailed(p)
    PROVE  HostInv'
  <1>1. UNCHANGED <<st, restarting, alive, made>>
    BY DEF Host!Call, Host!CheckUp, Host!Unusable, Host!Resolve, Host!Answer, Host!Dropped,
           Host!TimeOut, Host!Refresh, Host!Publish, Host!Probe, Host!ProbeAnswered,
           Host!ProbeFailed, Host!Budgeted
  <1>2. st.conn \in Conns /\ None \in Conns
    BY StateShape DEF HostInv, Conns
  <1>3. mine' = mine \/ \E c \in Conns : mine' = [mine EXCEPT ![p] = c]
    BY <1>2
       DEF Host!Call, Host!CheckUp, Host!Unusable, Host!Resolve, Host!Answer, Host!Dropped,
           Host!TimeOut, Host!Refresh, Host!Publish, Host!Probe, Host!ProbeAnswered,
           Host!ProbeFailed
  <1>4. /\ hostPc[p] \notin {"connect", "list", "reap"}
        /\ \/ p \in McpCalls /\ \E l \in {"refresh", "check", "resolve", "restart", "send"} :
                                   hostPc' = [hostPc EXCEPT ![p] = l]
           \/ \E l \in {"refresh", "take", "publish", "done", "probe"} :
                  hostPc' = [hostPc EXCEPT ![p] = l]
    BY DEF HostInv, OneRestarts, CallLabels, Host!Call, Host!CheckUp, Host!Unusable, Host!Resolve,
           Host!Answer, Host!Dropped, Host!TimeOut, Host!Refresh, Host!Publish, Host!Probe,
           Host!ProbeAnswered, Host!ProbeFailed, Host!Goto
  <1>5. PICK l \in {"refresh", "check", "resolve", "restart", "send", "take", "publish", "done", "probe"} :
            hostPc' = [hostPc EXCEPT ![p] = l] /\ (p \notin McpCalls => l \notin CallLabels)
    BY <1>4 DEF CallLabels
  <1>6. l \in Labels \ {"connect", "list", "flight", "reap"}
    BY DEF Labels
  <1> QED
    BY <1>1, <1>3, <1>4, <1>5, <1>6, MoveStep

\* Under the restart mutex.
LEMMA RestartStep ==
    ASSUME HostInv, NEW p \in Host!Procs, Host!Restart(p)
    PROVE  HostInv'
  <1>1. hostPc[p] = "restart" /\ restarting = None /\ UNCHANGED <<st, alive, made, mine>>
    BY DEF Host!Restart, Host!FindUp, Host!SpendRestart, Host!OutOfBudget
  <1>2. p \in McpCalls
    BY <1>1 DEF HostInv, OneRestarts, CallLabels
  <1>3. CASE Host!FindUp(p)
    <2>1. PICK l \in {"resolve", "refresh"} : hostPc' = [hostPc EXCEPT ![p] = l]
      BY <1>3 DEF Host!FindUp, Host!Goto
    <2>2. restarting' = restarting
      BY <1>3 DEF Host!FindUp, Host!Budgeted
    <2> QED
      BY <1>1, <1>2, <2>1, <2>2, MoveStep DEF Labels
  <1>4. CASE Host!OutOfBudget(p)
    <2>1. hostPc' = [hostPc EXCEPT ![p] = "take"] /\ restarting' = p
      BY <1>4 DEF Host!OutOfBudget, Host!Goto
    <2> QED
      BY <1>1, <1>2, <2>1, MoveStep DEF Labels, CallLabels
  <1>5. CASE Host!SpendRestart(p)
    <2>1. /\ hostPc' = [hostPc EXCEPT ![p] = "connect"] /\ restarting' = p /\ ~Host!IsUp
      BY <1>5 DEF Host!SpendRestart, Host!Goto
    <2>2. /\ hostPc \in [Host!Procs -> Labels] /\ hostPc' \in [Host!Procs -> Labels]
          /\ hostPc'[p] = "connect"
          /\ \A q \in Host!Procs \ {p} : hostPc'[q] = hostPc[q]
      BY <2>1 DEF HostInv, HostTyped, Labels
    <2>3. st.conn \notin alive
      BY <2>1, StateShape, HostedAssumption DEF HostInv, HostTyped, Host!IsUp
    <2>4. HostTyped'
      BY <1>1, <1>2, <2>1, <2>2 DEF HostInv, HostTyped, Conns
    <2>5. OneRestarts'
      BY <1>1, <1>2, <2>1, <2>2, <2>3, HostedAssumption DEF HostInv, OneRestarts, CallLabels
    <2>6. Kept' /\ FlightsUp' /\ HasChild'
      BY <1>1, <2>2 DEF HostInv, Kept, FlightsUp, HasChild
    <2> QED
      BY <2>4, <2>5, <2>6 DEF HostInv
  <1> QED
    BY <1>3, <1>4, <1>5 DEF Host!Restart

LEMMA ConnectStep ==
    ASSUME HostInv, NEW p \in Host!Procs, Host!Connect(p)
    PROVE  HostInv'
  <1> DEFINE n == made + 1
  <1>1. /\ hostPc[p] = "connect" /\ made < MaxChildren
        /\ made' = n /\ alive' = alive \cup {n}
        /\ mine' = [mine EXCEPT ![p] = n] /\ hostPc' = [hostPc EXCEPT ![p] = "list"]
        /\ UNCHANGED <<st, restarting>>
    BY DEF Host!Connect, Host!Goto
  <1>2. restarting = p /\ st.conn \notin alive
    BY <1>1 DEF HostInv, OneRestarts
  <1>3. made \in Nat /\ n \in Nat /\ n \notin 1..made /\ 1..n = 1..made \cup {n} /\ n \in 0..MaxChildren
    BY <1>1, HostedAssumption DEF HostInv, HostTyped
  <1>4. st.conn # n
    BY <1>3, StateShape, HostedAssumption DEF HostInv
  <1> HIDE DEF n
  <1>5. /\ hostPc \in [Host!Procs -> Labels] /\ hostPc' \in [Host!Procs -> Labels]
        /\ mine \in [Host!Procs -> Conns] /\ mine' \in [Host!Procs -> Conns']
        /\ hostPc'[p] = "list" /\ mine'[p] = n
        /\ \A q \in Host!Procs \ {p} : hostPc'[q] = hostPc[q] /\ mine'[q] = mine[q]
    BY <1>1, <1>3 DEF HostInv, HostTyped, Labels, Conns
  <1>6. HostTyped'
    BY <1>1, <1>3, <1>5 DEF HostInv, HostTyped
  <1>7. OneRestarts'
    BY <1>1, <1>2, <1>4, <1>5 DEF HostInv, OneRestarts, CallLabels
  <1>8. Kept'
    BY <1>1, <1>5 DEF HostInv, Kept
  <1>9. FlightsUp' /\ HasChild'
    BY <1>1, <1>3, <1>5 DEF HostInv, FlightsUp, HasChild
  <1> QED
    BY <1>6, <1>7, <1>8, <1>9 DEF HostInv

\* A step that writes `st`, with no call in flight, and leaves it without a child.
LEMMA DownStep ==
    ASSUME HostInv, NEW p \in Host!Procs,
           NEW l \in Labels \ {"connect", "list", "flight", "reap"} , l \notin CallLabels,
           Host!NoReaders,
           hostPc' = [hostPc EXCEPT ![p] = l],
           \E w \in {"Down", "GivenUp", "Disabled"} : st' = Host!Is(w),
           mine' = mine \/ mine' = [mine EXCEPT ![p] = None],
           alive' \subseteq alive \ {st.conn},
           hostPc[p] \in {"list", "reap"} => mine[p] \notin alive',
           restarting' = restarting \/ (restarting = p /\ restarting' = None),
           UNCHANGED made
    PROVE  HostInv'
  <1>1. /\ hostPc \in [Host!Procs -> Labels] /\ mine \in [Host!Procs -> Conns]
        /\ hostPc' \in [Host!Procs -> Labels] /\ mine' \in [Host!Procs -> Conns]
        /\ hostPc'[p] = l
        /\ \A q \in Host!Procs \ {p} : hostPc'[q] = hostPc[q] /\ mine'[q] = mine[q]
    BY DEF HostInv, HostTyped, Conns
  <1>2. st'.conn = None
    BY DEF Host!Is
  <1>3. None \notin alive'
    BY NoneNotAlive
  <1>4. HostTyped'
    BY <1>1 DEF HostInv, HostTyped, Conns, Host!Is, Host!UpWith
  <1>5. OneRestarts'
    BY <1>1, <1>2, <1>3 DEF HostInv, OneRestarts, CallLabels
  <1>6. Kept'
    BY <1>1 DEF HostInv, Kept
  <1>7. FlightsUp' /\ HasChild'
    BY <1>1 DEF HostInv, FlightsUp, HasChild, Host!NoReaders, Host!InFlight
  <1> QED
    BY <1>4, <1>5, <1>6, <1>7 DEF HostInv

LEMMA GoesDown ==
    ASSUME HostInv, NEW p \in Host!Procs,
           Host!ConnectFails(p) \/ Host!ListFails(p) \/ Host!Mark(p)
    PROVE  HostInv'
  <1>1. "refresh" \in Labels \ {"connect", "list", "flight", "reap"} /\ "refresh" \notin CallLabels
    BY DEF Labels, CallLabels
  <1>2. /\ Host!NoReaders /\ hostPc' = [hostPc EXCEPT ![p] = "refresh"] /\ UNCHANGED made
        /\ \E w \in {"Down", "GivenUp", "Disabled"} : st' = Host!Is(w)
        /\ mine' = mine \/ mine' = [mine EXCEPT ![p] = None]
        /\ alive' \subseteq alive \ {st.conn}
        /\ hostPc[p] \in {"list", "reap"} => mine[p] \notin alive'
    BY DEF Host!ConnectFails, Host!ListFails, Host!Mark, Host!Replace, Host!Goto
  <1>3. restarting' = restarting \/ (restarting = p /\ restarting' = None)
    BY DEF HostInv, OneRestarts, Host!ConnectFails, Host!ListFails, Host!Mark
  <1> QED
    BY <1>1, <1>2, <1>3, DownStep

\* The child's owner becomes `st`: the one before it was dead, and is forgotten.
LEMMA BringUpStep ==
    ASSUME HostInv, NEW p \in Host!Procs, Host!BringUp(p)
    PROVE  HostInv'
  <1>1. /\ hostPc[p] = "list" /\ Host!NoReaders
        /\ st' = Host!UpWith(mine[p]) /\ alive' = alive \ {st.conn}
        /\ restarting' = None /\ mine' = [mine EXCEPT ![p] = None]
        /\ hostPc' = [hostPc EXCEPT ![p] = "resolve"] /\ UNCHANGED made
    BY DEF Host!BringUp, Host!Replace, Host!Goto
  <1>2. restarting = p /\ p \in McpCalls
    BY <1>1 DEF HostInv, OneRestarts, CallLabels
  <1>3. mine[p] \in 1..made
    BY <1>1 DEF HostInv, HasChild
  <1>4. /\ hostPc \in [Host!Procs -> Labels] /\ mine \in [Host!Procs -> Conns]
        /\ hostPc' \in [Host!Procs -> Labels] /\ mine' \in [Host!Procs -> Conns]
        /\ hostPc'[p] = "resolve"
        /\ \A q \in Host!Procs \ {p} : hostPc'[q] = hostPc[q] /\ mine'[q] = mine[q]
    BY <1>1 DEF HostInv, HostTyped, Conns, Labels
  <1>5. st'.conn = mine[p]
    BY <1>1 DEF Host!UpWith
  <1>6. HostTyped'
    BY <1>1, <1>3, <1>4 DEF HostInv, HostTyped, Conns
  <1>7. OneRestarts'
    BY <1>2, <1>4 DEF HostInv, OneRestarts, CallLabels
  <1>8. Kept'
    BY <1>1, <1>4, <1>5 DEF HostInv, Kept
  <1>9. FlightsUp'
    BY <1>1, <1>4 DEF FlightsUp, Host!NoReaders, Host!InFlight
  <1>10. HasChild'
    BY <1>1, <1>4 DEF HostInv, HasChild
  <1> QED
    BY <1>6, <1>7, <1>8, <1>9, <1>10 DEF HostInv

\* A call is sent on the connection `st` has.
LEMMA SendStep ==
    ASSUME HostInv, NEW p \in Host!Procs, Host!Send(p)
    PROVE  HostInv'
  <1>1. hostPc[p] = "send" /\ UNCHANGED <<st, restarting, alive, made>>
    BY DEF Host!Send, Host!Budgeted
  <1>2. CASE st.is # "Up"
    <2>1. hostPc' = [hostPc EXCEPT ![p] = "take"] /\ mine' = mine
      BY <1>2 DEF Host!Send, Host!Goto
    <2> QED
      BY <1>1, <2>1, MoveStep DEF Labels, CallLabels
  <1>3. CASE st.is = "Up"
    <2>1. hostPc' = [hostPc EXCEPT ![p] = "flight"] /\ mine' = [mine EXCEPT ![p] = st.conn]
      BY <1>3 DEF Host!Send, Host!Goto
    <2>2. st.conn \in Conns /\ st = Host!UpWith(st.conn)
      BY <1>3, StateShape DEF HostInv, Conns
    <2>3. /\ hostPc \in [Host!Procs -> Labels] /\ mine \in [Host!Procs -> Conns]
          /\ hostPc' \in [Host!Procs -> Labels] /\ mine' \in [Host!Procs -> Conns]
          /\ hostPc'[p] = "flight" /\ mine'[p] = st.conn
          /\ \A q \in Host!Procs \ {p} : hostPc'[q] = hostPc[q] /\ mine'[q] = mine[q]
      BY <2>1, <2>2 DEF HostInv, HostTyped, Labels
    <2>4. HostTyped'
      BY <1>1, <2>3 DEF HostInv, HostTyped, Conns
    <2>5. OneRestarts'
      BY <1>1, <2>3 DEF HostInv, OneRestarts, CallLabels
    <2>6. Kept' /\ HasChild'
      BY <1>1, <2>3 DEF HostInv, Kept, HasChild
    <2>7. FlightsUp'
      BY <1>1, <2>2, <2>3 DEF HostInv, FlightsUp
    <2> QED
      BY <2>4, <2>5, <2>6, <2>7 DEF HostInv
  <1> QED
    BY <1>2, <1>3

\* mark_down takes the connection out of `st` and is then accountable for it.
LEMMA TakeStep ==
    ASSUME HostInv, NEW p \in Host!Procs, Host!Take(p)
    PROVE  HostInv'
  <1>1. hostPc[p] = "take" /\ Host!NoReaders /\ UNCHANGED <<restarting, alive, made>>
    BY DEF Host!Take, Host!Budgeted
  <1>2. CASE st.is # "Up"
    <2>1. hostPc' = [hostPc EXCEPT ![p] = "mark"] /\ mine' = mine /\ st' = st
      BY <1>2 DEF Host!Take, Host!Goto
    <2> QED
      BY <1>1, <2>1, MoveStep DEF Labels, CallLabels
  <1>3. CASE st.is = "Up"
    <2>1. /\ hostPc' = [hostPc EXCEPT ![p] = "reap"] /\ mine' = [mine EXCEPT ![p] = st.conn]
          /\ st' = Host!Is("Down")
      BY <1>3 DEF Host!Take, Host!Goto
    <2>2. st.conn \in 1..made /\ st'.conn = None
      BY <1>3, <2>1, StateShape DEF HostInv, Host!Is
    <2>3. /\ hostPc \in [Host!Procs -> Labels] /\ mine \in [Host!Procs -> Conns]
          /\ hostPc' \in [Host!Procs -> Labels] /\ mine' \in [Host!Procs -> Conns]
          /\ hostPc'[p] = "reap" /\ mine'[p] = st.conn
          /\ \A q \in Host!Procs \ {p} : hostPc'[q] = hostPc[q] /\ mine'[q] = mine[q]
      BY <2>1, <2>2 DEF HostInv, HostTyped, Labels, Conns
    <2>4. None \notin alive
      BY NoneNotAlive
    <2>5. HostTyped'
      BY <1>1, <2>1, <2>3 DEF HostInv, HostTyped, Conns
    <2>6. OneRestarts'
      BY <1>1, <2>2, <2>3, <2>4 DEF HostInv, OneRestarts, CallLabels
    <2>7. Kept' /\ HasChild'
      BY <1>1, <2>3 DEF HostInv, Kept, HasChild
    <2>8. FlightsUp'
      BY <1>1, <2>3 DEF FlightsUp, Host!NoReaders, Host!InFlight
    <2> QED
      BY <2>5, <2>6, <2>7, <2>8 DEF HostInv
  <1> QED
    BY <1>2, <1>3

LEMMA ReapStep ==
    ASSUME HostInv, NEW p \in Host!Procs, Host!Reap(p)
    PROVE  HostInv'
  <1>1. /\ hostPc[p] = "reap" /\ alive' = alive \ {mine[p]}
        /\ mine' = [mine EXCEPT ![p] = None] /\ hostPc' = [hostPc EXCEPT ![p] = "mark"]
        /\ UNCHANGED <<st, restarting, made>>
    BY DEF Host!Reap, Host!Goto, Host!Budgeted
  <1>2. /\ hostPc \in [Host!Procs -> Labels] /\ mine \in [Host!Procs -> Conns]
        /\ hostPc' \in [Host!Procs -> Labels] /\ mine' \in [Host!Procs -> Conns]
        /\ hostPc'[p] = "mark"
        /\ \A q \in Host!Procs \ {p} : hostPc'[q] = hostPc[q] /\ mine'[q] = mine[q]
    BY <1>1 DEF HostInv, HostTyped, Conns, Labels
  <1>3. HostTyped'
    BY <1>1, <1>2 DEF HostInv, HostTyped, Conns
  <1>4. OneRestarts'
    BY <1>1, <1>2 DEF HostInv, OneRestarts, CallLabels
  <1>5. Kept' /\ HasChild' /\ FlightsUp'
    BY <1>1, <1>2 DEF HostInv, Kept, HasChild, FlightsUp
  <1> QED
    BY <1>3, <1>4, <1>5 DEF HostInv

\* The child exits by itself; a restart leaves the window; nothing happens.
LEMMA WorldStep ==
    ASSUME HostInv, (\E c \in Host!Children : Host!Exit(c)) \/ Host!AgeOut \/ UNCHANGED Host!vars
    PROVE  HostInv'
  <1>1. UNCHANGED <<st, restarting, made, hostPc, mine>> /\ alive' \subseteq alive
    BY DEF Host!Exit, Host!AgeOut, Host!vars, Host!Budgeted
  <1>2. HostTyped'
    BY <1>1 DEF HostInv, HostTyped, Conns
  <1> QED
    BY <1>1, <1>2 DEF HostInv, OneRestarts, Kept, FlightsUp, HasChild

LEMMA HostStep == HostInv /\ [Host!Next]_(Host!vars) => HostInv'
  <1> SUFFICES ASSUME HostInv, [Host!Next]_(Host!vars) PROVE HostInv'
    OBVIOUS
  <1>1. McpCalls \subseteq Host!Procs /\ Probes \subseteq Host!Procs
    BY DEF Host!Procs
  <1>2. ASSUME NEW p \in McpCalls, Host!Call(p) PROVE HostInv'
    BY <1>1, <1>2, ReadingSteps
  <1>3. ASSUME NEW p \in Probes, Host!Probe(p) PROVE HostInv'
    BY <1>1, <1>3, ReadingSteps
  <1>4. ASSUME NEW p \in Host!Procs, Host!Step(p) PROVE HostInv'
    BY <1>4, ReadingSteps, RestartStep, GoesDown, TakeStep, ReapStep DEF Host!Step
  <1>5. ASSUME NEW p \in Host!Procs,
               \/ Host!Connect(p) \/ Host!BringUp(p) \/ Host!Unusable(p) \/ Host!Send(p)
               \/ Host!Answer(p) \/ Host!Dropped(p) \/ Host!ProbeAnswered(p)
        PROVE  HostInv'
    BY <1>5, ReadingSteps, ConnectStep, BringUpStep, SendStep
  <1> QED
    BY <1>2, <1>3, <1>4, <1>5, WorldStep DEF Host!Next

\* Two calls that find the server down do not start two children, no child runs
\* that nobody will close, and no call in flight loses its connection to a restart
\* (host.rs, ensure_up, mark_down and call).
THEOREM ChildrenHold == Host!Spec => []ChildrenAccountedFor
  <1>1. Host!Spec => []HostInv
    BY HostInit, HostStep, PTL DEF Host!Spec
  <1> QED
    BY <1>1, HostEnough, PTL

=============================================================================

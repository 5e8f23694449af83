----------------------------- MODULE Sandboxes -----------------------------
(***************************************************************************)
(* Sandboxes (hx-sandbox/src/runtime.rs, hx-server/src/sandbox.rs): the    *)
(* manager that spawns, destroys and reaps them under a cap and a TTL, the *)
(* cache that gives the runs of one checkout one box between them, and the *)
(* shells people open inside.  The engine is external: any call to it may  *)
(* fail.  A route's handler is dropped when its client leaves, at whatever *)
(* call it awaits; runs, the reaper and leases are tasks, which go on.     *)
(*                                                                         *)
(* `live` is behind a mutex which spawn holds from the check of the cap to *)
(* the insertion, so a spawn is one step, whether it ends or is dropped; a *)
(* destroy takes the handle out first and talks to the engine after.       *)
(***************************************************************************)
EXTENDS Integers, FiniteSets, Sequences

CONSTANTS
    Runs,           \* chat runs that work in a sandbox
    Checkouts,      \* (profile, workspace) pairs
    MaxConcurrent,  \* sandbox.max_concurrent
    MaxBoxes,       \* bound: boxes created
    Visited,        \* bound: boxes somebody opens a shell in
    None

Callers == {"route", "reaper", "lease"}
States  == {"Running", "Failed"}

VARIABLES
    of,        \* the checkout each box was created for, in order of creation
    live,      \* the manager's handles: the state of every box it tracks
    expired,   \* boxes past their TTL
    engine,    \* the engine's containers
    abandoned, \* history: containers a dropped handler had in hand
    destroy,   \* the destroys under way: stage, caller and stop's result
    cache,     \* SandboxCache.open: the SandboxFor of each checkout
    opening,   \* the run that holds the cache's lock across open
    released,  \* boxes a dropped lease is about to destroy
    pc, want, using,  \* of each run: where it is, its checkout, its SandboxFor
    entering, shells  \* boxes a shell is being opened in, boxes with a shell

vars == <<of, live, expired, engine, abandoned, destroy, cache, opening, released, pc, want, using,
          entering, shells>>

manager   == <<of, live, expired, engine, abandoned>>
runs      == <<cache, opening, released, pc, want, using>>
terminals == <<entering, shells>>

Boxes == 1..Len(of)
Tracked == DOMAIN live
Running(b) == b \in Tracked /\ live[b] = "Running"

\* A SandboxFor is the box and the run that opened it; its last holder's lease
\* destroys the box.
SandboxFor == [box : 1..MaxBoxes, by : Runs]

ASSUME SandboxAssumption == MaxBoxes \in Nat /\ None \notin SandboxFor \cup Runs

Users(s) == {r \in Runs : using[r] = s}

TypeOK ==
    /\ of \in Seq(Checkouts) /\ Len(of) =< MaxBoxes
    /\ Tracked \subseteq Boxes /\ live \in [Tracked -> States]
    /\ expired \subseteq Boxes /\ engine \subseteq Boxes /\ abandoned \subseteq Boxes
    /\ DOMAIN destroy \subseteq Boxes
    /\ destroy \in [DOMAIN destroy -> [at : {"stop", "remove", "close"}, by : Callers,
                                       stopped : BOOLEAN]]
    /\ cache \in [Checkouts -> SandboxFor \cup {None}]
    /\ opening \in Runs \cup {None}
    /\ released \subseteq Boxes
    /\ pc \in [Runs -> {"idle", "find", "open", "using", "done"}]
    /\ want \in [Runs -> Checkouts \cup {None}]
    /\ using \in [Runs -> SandboxFor \cup {None}]
    /\ entering \subseteq Boxes /\ shells \subseteq Boxes

Init ==
    /\ of = <<>>
    /\ live = [b \in {} |-> None]
    /\ expired = {} /\ engine = {} /\ abandoned = {}
    /\ destroy = [b \in {} |-> None]
    /\ cache = [c \in Checkouts |-> None]
    /\ opening = None
    /\ released = {}
    /\ pc = [r \in Runs |-> "idle"]
    /\ want = [r \in Runs |-> None]
    /\ using = [r \in Runs |-> None]
    /\ entering = {} /\ shells = {}

\* The map f with b |-> v, and without b.
With(f, b, v) == [x \in DOMAIN f \cup {b} |-> IF x = b THEN v ELSE f[x]]
Without(f, b) == [x \in DOMAIN f \ {b} |-> f[x]]

-----------------------------------------------------------------------------
(* SandboxManager::spawn                                                   *)

\* Under the cap, the engine creates a container.
Create(c) ==
    /\ Cardinality(Tracked) < MaxConcurrent
    /\ Len(of) < MaxBoxes
    /\ of' = Append(of, c)
    /\ engine' = engine \cup {Len(of) + 1}

\* Created, and started or not: a box that did not start and whose rollback
\* failed too is tracked as Failed, for the reaper.  A refusal at the cap, a
\* failed create and a rollback that worked change nothing.
Spawn(c, state) ==
    /\ Create(c)
    /\ live' = With(live, Len(of) + 1, state)
    /\ UNCHANGED abandoned

\* POST /v1/sandboxes
SpawnRoute(c) ==
    /\ \E state \in States : Spawn(c, state)
    /\ UNCHANGED <<expired, destroy, runs, terminals>>

\* Its client leaves between the container's creation and the insertion: nothing tears
\* the container down, and nothing tracks it.
SpawnDropped(c) ==
    /\ Create(c)
    /\ abandoned' = abandoned \cup {Len(of) + 1}
    /\ UNCHANGED <<live, expired, destroy, runs, terminals>>

Expire(b) ==
    /\ Running(b) /\ b \notin expired
    /\ expired' = expired \cup {b}
    /\ UNCHANGED <<of, live, engine, abandoned, destroy, runs, terminals>>

-----------------------------------------------------------------------------
(* SandboxManager::destroy, for each of its three callers                  *)

Begin(b, who) ==
    /\ b \in Tracked
    /\ live' = Without(live, b)
    /\ destroy' = With(destroy, b, [at |-> "stop", by |-> who, stopped |-> TRUE])

DestroyRoute(b) ==
    /\ Begin(b, "route")
    /\ UNCHANGED <<of, expired, engine, abandoned, runs, terminals>>

\* Destroying what is not tracked is no error, and the route goes on to close
\* the box's shells.
DestroyUntracked(b) ==
    /\ b \notin Tracked /\ b \notin DOMAIN destroy
    /\ b \in shells
    /\ destroy' = With(destroy, b, [at |-> "close", by |-> "route", stopped |-> TRUE])
    /\ UNCHANGED <<manager, runs, terminals>>

\* Mutant of Reap: only the TTL is looked at.
ReapExpiredOnly(b) ==
    /\ b \in expired
    /\ Begin(b, "reaper")
    /\ UNCHANGED <<of, expired, engine, abandoned, runs, terminals>>

Reap(b) ==
    /\ b \in expired \/ (b \in Tracked /\ live[b] = "Failed")
    /\ Begin(b, "reaper")
    /\ UNCHANGED <<of, expired, engine, abandoned, runs, terminals>>

\* The task a dropped lease spawned.
LeaseDestroy(b) ==
    /\ b \in released
    /\ released' = released \ {b}
    /\ IF b \in Tracked THEN Begin(b, "lease") ELSE UNCHANGED <<live, destroy>>
    /\ UNCHANGED <<of, expired, engine, abandoned, cache, opening, pc, want, using, terminals>>

\* The engine's stop; its failure is only remembered.
Stop(b) ==
    /\ b \in DOMAIN destroy /\ destroy[b].at = "stop"
    /\ \E ok \in BOOLEAN : destroy' = [destroy EXCEPT ![b].at = "remove", ![b].stopped = ok]
    /\ UNCHANGED <<manager, runs, terminals>>

\* Only a destroy without any error is followed by close_sandbox, and only on
\* the route and in the reaper.
Remove(b) ==
    /\ b \in DOMAIN destroy /\ destroy[b].at = "remove"
    /\ engine' = engine \ {b}
    /\ destroy' = IF destroy[b].stopped /\ destroy[b].by # "lease"
                    THEN [destroy EXCEPT ![b].at = "close"]
                    ELSE Without(destroy, b)
    /\ UNCHANGED <<of, live, expired, abandoned, runs, terminals>>

\* Mutant of RemoveFails: the handle stays deregistered.
RemoveFailsUntracked(b) ==
    /\ b \in DOMAIN destroy /\ destroy[b].at = "remove"
    /\ destroy' = Without(destroy, b)
    /\ UNCHANGED <<manager, runs, terminals>>

\* The container still exists: its handle goes back, Failed, without a look at
\* the cap.
RemoveFails(b) ==
    /\ b \in DOMAIN destroy /\ destroy[b].at = "remove"
    /\ live' = With(live, b, "Failed")
    /\ destroy' = Without(destroy, b)
    /\ UNCHANGED <<of, engine, expired, abandoned, runs, terminals>>

\* The client of a route's destroy leaves: the handle is out of `live` and the handler
\* goes no further, though the engine may still have removed the container; what was
\* left to do is done by nobody.
DestroyDropped(b) ==
    /\ b \in DOMAIN destroy /\ destroy[b].by = "route"
    /\ destroy' = Without(destroy, b)
    /\ \/ UNCHANGED engine
       \/ destroy[b].at = "remove" /\ engine' = engine \ {b}
    /\ abandoned' = abandoned \cup ({b} \cap engine')
    /\ UNCHANGED <<of, live, expired, runs, terminals>>

\* Terminals::close_sandbox ends every shell in the box.
CloseShells(b) ==
    /\ b \in DOMAIN destroy /\ destroy[b].at = "close"
    /\ shells' = shells \ {b}
    /\ destroy' = Without(destroy, b)
    /\ UNCHANGED <<manager, runs, entering>>

-----------------------------------------------------------------------------
(* SandboxCache::get and SandboxFor::open, for a chat run                  *)

Use(r, s) == using' = [using EXCEPT ![r] = s] /\ pc' = [pc EXCEPT ![r] = "using"]

Cached(c) == cache[c] # None /\ cache[c].box \in Tracked

\* An entry whose box is tracked, whatever its state, is handed out.
CacheHit(r, c) ==
    /\ pc[r] = "idle" /\ opening = None
    /\ Cached(c)
    /\ Use(r, cache[c])
    /\ want' = [want EXCEPT ![r] = c]
    /\ UNCHANGED <<manager, destroy, cache, opening, released, terminals>>

\* The lease of a SandboxFor that nobody holds any more.
Drop(s, holders) == released' = IF s # None /\ holders = {} THEN released \cup {s.box} ELSE released

\* Mutant of CacheMiss: the lock is let go before open.
CacheMissUnlocked(r, c) ==
    /\ pc[r] = "idle" /\ opening = None
    /\ ~Cached(c)
    /\ cache' = [cache EXCEPT ![c] = None]
    /\ Drop(cache[c], Users(cache[c]))
    /\ want' = [want EXCEPT ![r] = c]
    /\ pc' = [pc EXCEPT ![r] = "find"]
    /\ UNCHANGED <<manager, destroy, opening, using, terminals>>

\* An entry whose box is gone is dropped; the lock is kept across open.
CacheMiss(r, c) ==
    /\ pc[r] = "idle" /\ opening = None
    /\ ~Cached(c)
    /\ cache' = [cache EXCEPT ![c] = None]
    /\ Drop(cache[c], Users(cache[c]))
    /\ opening' = r
    /\ want' = [want EXCEPT ![r] = c]
    /\ pc' = [pc EXCEPT ![r] = "find"]
    /\ UNCHANGED <<manager, destroy, using, terminals>>

Matching(c) == {b \in Tracked : of[b] = c}
Oldest(bs) == CHOOSE b \in bs : \A x \in bs : b =< x

Keep(r, b) ==
    /\ cache' = [cache EXCEPT ![want[r]] = [box |-> b, by |-> r]]
    /\ Use(r, [box |-> b, by |-> r])
    /\ opening' = None

\* find_existing: the oldest box of this checkout, whatever its state.
Find(r) ==
    /\ pc[r] = "find"
    /\ IF Matching(want[r]) # {}
         THEN Keep(r, Oldest(Matching(want[r])))
         ELSE pc' = [pc EXCEPT ![r] = "open"] /\ UNCHANGED <<cache, opening, using>>
    /\ UNCHANGED <<manager, destroy, released, want, terminals>>

Open(r) ==
    /\ pc[r] = "open"
    /\ Spawn(want[r], "Running")
    /\ Keep(r, Len(of) + 1)
    /\ UNCHANGED <<expired, destroy, released, want, terminals>>

\* spawn failed, and so does the run; a half-made box may be left to the reaper.
OpenFails(r) ==
    /\ pc[r] = "open"
    /\ Spawn(want[r], "Failed") \/ UNCHANGED <<of, live, engine, abandoned>>
    /\ opening' = None
    /\ pc' = [pc EXCEPT ![r] = "done"]
    /\ UNCHANGED <<expired, destroy, cache, released, want, using, terminals>>

\* The run ends and lets go of its SandboxFor.
Finish(r) ==
    /\ pc[r] = "using"
    /\ pc' = [pc EXCEPT ![r] = "done"]
    /\ using' = [using EXCEPT ![r] = None]
    /\ IF cache[want[r]] = using[r] THEN UNCHANGED released
                                    ELSE Drop(using[r], Users(using[r]) \ {r})
    /\ UNCHANGED <<manager, destroy, cache, opening, want, terminals>>

-----------------------------------------------------------------------------
(* A shell in a box: attach wants it Running, then the terminal is made    *)

Enter(b) ==
    /\ Running(b) /\ b \in Visited \ shells
    /\ entering' = entering \cup {b}
    /\ UNCHANGED <<manager, destroy, runs, shells>>

MakeShell(b) ==
    /\ b \in entering
    /\ entering' = entering \ {b}
    /\ shells' = shells \cup {b}
    /\ UNCHANGED <<manager, destroy, runs>>

-----------------------------------------------------------------------------

Next ==
    \/ \E c \in Checkouts :
           \/ SpawnRoute(c) \/ SpawnDropped(c)
           \/ \E r \in Runs : CacheHit(r, c) \/ CacheMiss(r, c)
    \/ \E r \in Runs : Find(r) \/ Open(r) \/ OpenFails(r) \/ Finish(r)
    \/ \E b \in Boxes :
           \/ Expire(b) \/ DestroyRoute(b) \/ DestroyUntracked(b) \/ Reap(b)
           \/ LeaseDestroy(b) \/ Stop(b) \/ Remove(b) \/ RemoveFails(b) \/ DestroyDropped(b)
           \/ CloseShells(b)
           \/ Enter(b) \/ MakeShell(b)

\* The reaper ticks, a destroy that is not dropped goes on, and the engine does not fail
\* for ever.
Fairness ==
    \A b \in 1..MaxBoxes :
        /\ WF_vars(b \in Boxes /\ Reap(b))
        /\ WF_vars(b \in Boxes /\ Stop(b))
        /\ SF_vars(b \in Boxes /\ Remove(b))

Spec == Init /\ [][Next]_vars /\ Fairness

-----------------------------------------------------------------------------

\* "A container that exists but is not tracked is invisible to the reaper and lives
\* forever": whatever the engine fails at, and whoever else destroys, spawns or reaps at
\* the same time, a container on the engine is tracked or about to be removed, but for
\* those in the hands of a handler that was dropped.
BoxesAccountedFor ==
    \A b \in engine : b \in Tracked \/ b \in DOMAIN destroy \/ b \in abandoned

\* Two runs in one checkout share a boundary: whatever routes, reaper and leases destroy
\* meanwhile, they never work in two boxes that both still take commands.
OneBoxPerCheckout ==
    \A r, q \in Runs :
        pc[r] = "using" /\ pc[q] = "using" /\ want[r] = want[q]
        /\ Running(using[r].box) /\ Running(using[q].box) => using[r].box = using[q].box

\* A box past its TTL, or one that could not be removed, goes for good, unless a route
\* was taking it down and its client left.
DeadBoxesAreReaped ==
    \A b \in 1..MaxBoxes :
        (b \in Tracked /\ (b \in expired \/ ~Running(b))) ~> (b \notin engine \/ b \in abandoned)

=============================================================================

------------------------------ MODULE UrlCache ------------------------------
(***************************************************************************)
(* The cache of fetched pages (hx-search/src/cache.rs) under concurrent    *)
(* fetches (research.rs, HttpFetcher::fetch): one document per key on      *)
(* disk, revalidated with the origin, evicted oldest first.  Nothing locks *)
(* the directory: fetches read, replace and remove each other's documents, *)
(* and the daemon may die between any two file operations.                 *)
(*                                                                         *)
(* A body is the version of the page it is.  A document is written to a    *)
(* temporary file of its own and renamed, so it appears whole at Rename.   *)
(***************************************************************************)
EXTENDS Integers, FiniteSets

CONSTANTS
    Fetchers,        \* tasks that fetch one page after another
    Keys,
    Versions,        \* 1..n: what the origin may hold, in order
    Huge,            \* <<key, version>>: bodies over the body cap
    Untagged,        \* versions sent without a validator
    MaxAge,          \* [Versions -> Nat \cup {None}]: lifetimes, as their headers say
    MaxEntries,
    MaxRedirects,
    MaxChanging,     \* bound: pages that change
    MaxNow,          \* bound: the clock
    MaxDeaths,       \* bound: deaths of the daemon
    None

VARIABLES
    disk,      \* the document filed under each key
    origin,    \* the version the origin holds of each page
    now,       \* the cache's clock
    fetch,     \* each fetcher's fetch
    deaths,
    unswept    \* stores the daemon died in since a store last swept the directory

vars == <<disk, origin, now, fetch, deaths, unswept>>

\* History, in a fetch: `began` is the copy its lookup found, `told` what the origin
\* sent it or, asked, confirmed.
Unstarted == [pc |-> "idle", key |-> None, stored |-> None, hops |-> 0, reply |-> None,
              at |-> 0, look |-> {}, seen |-> {}, victims |-> {}, began |-> None,
              told |-> None, body |-> None]

Init ==
    /\ disk = [k \in Keys |-> None]
    /\ origin = [k \in Keys |-> 1]
    /\ now = 0
    /\ fetch = [f \in Fetchers |-> Unstarted]
    /\ deaths = 0
    /\ unswept = 0

-----------------------------------------------------------------------------
(* The origin and the clock.                                               *)

Update(k) ==
    /\ origin[k] + 1 \in Versions
    /\ Cardinality({o \in Keys : origin[o] > 1}) < MaxChanging \/ origin[k] > 1
    /\ origin' = [origin EXCEPT ![k] = @ + 1]
    /\ UNCHANGED <<disk, now, fetch, deaths, unswept>>

Tick ==
    /\ now < MaxNow
    /\ now' = now + 1
    /\ UNCHANGED <<disk, origin, fetch, deaths, unswept>>

-----------------------------------------------------------------------------
(* A fetch, as far as the answer.                                          *)

IsFresh(entry) == MaxAge[entry.body] # None /\ now < entry.at + MaxAge[entry.body]

\* A fetch that returns a body of the origin's, and one that returns an error, a
\* fresh copy, TooLarge or Miss304, of which nothing is remembered.
Returned(f, body) ==
    fetch' = [fetch EXCEPT ![f] = [Unstarted EXCEPT !.pc = "done", !.began = fetch[f].began,
                                                    !.told = fetch[f].reply.of, !.body = body]]
Ended(f) == fetch' = [fetch EXCEPT ![f] = Unstarted]

\* The target is admitted and the key looked up; a fresh copy is the answer.
Begin(f, k) ==
    /\ fetch[f].pc \in {"idle", "done"}
    /\ fetch' = [fetch EXCEPT ![f] =
           IF disk[k] # None /\ IsFresh(disk[k])
             THEN Unstarted
             ELSE [Unstarted EXCEPT !.pc = "asking", !.key = k, !.stored = disk[k],
                                    !.began = IF disk[k] = None THEN None ELSE disk[k].body]]
    /\ UNCHANGED <<disk, origin, now, deaths, unswept>>

\* The validators of the stored copy, if it came with any, go out on the first hop.
Conditional(f) ==
    fetch[f].hops = 0 /\ fetch[f].stored # None /\ fetch[f].stored.body \notin Untagged

\* The request reaches the origin: it says, if it is asked, that the copy still
\* stands, or sends what it holds.
Reply(f) ==
    LET held == origin[fetch[f].key]
        stands == Conditional(f) /\ fetch[f].stored.body = held
    IN /\ fetch[f].pc = "asking"
       /\ fetch' = [fetch EXCEPT ![f].pc = "answered",
              ![f].reply = [status |-> IF stands THEN "304" ELSE "body", of |-> held]]
       /\ UNCHANGED <<disk, origin, now, deaths, unswept>>

\* An origin that says "unchanged" although it was not asked, of no version.
ReplyUnasked(f) ==
    /\ fetch[f].pc = "asking"
    /\ ~Conditional(f)
    /\ fetch' = [fetch EXCEPT ![f].pc = "answered", ![f].reply = [status |-> "304", of |-> None]]
    /\ UNCHANGED <<disk, origin, now, deaths, unswept>>

\* A redirect: its target is admitted, and asked without the stored copy's validators;
\* the copy is of no more use.
Redirect(f) ==
    /\ fetch[f].pc = "asking"
    /\ fetch[f].hops < MaxRedirects
    /\ fetch' = [fetch EXCEPT ![f].hops = @ + 1, ![f].stored = None]
    /\ UNCHANGED <<disk, origin, now, deaths, unswept>>

\* The fetch fails (the transport, the status, a redirect that is refused, leads
\* nowhere or is one too many), or its caller's timeout drops it, while it waits for
\* the origin; what follows the body is not awaited and runs to its end.
Fail(f) ==
    /\ fetch[f].pc \in {"asking", "answered", "reading"}
    /\ Ended(f)
    /\ UNCHANGED <<disk, origin, now, deaths, unswept>>

\* Mutant of NotModified: the stored copy is read again.
NotModifiedReloads(f) ==
    /\ fetch[f].pc = "answered" /\ fetch[f].reply.status = "304"
    /\ IF fetch[f].hops > 0 THEN Ended(f)
       ELSE IF disk[fetch[f].key] = None THEN Ended(f)
       ELSE Returned(f, disk[fetch[f].key].body)
    /\ UNCHANGED <<disk, origin, now, deaths, unswept>>

\* Past a redirect a 304 is an error.  On the first hop it stands for the copy the
\* lookup found, whether or not the request could ask about that copy.
NotModified(f) ==
    /\ fetch[f].pc = "answered" /\ fetch[f].reply.status = "304"
    /\ IF fetch[f].hops > 0 THEN Ended(f)
       ELSE IF fetch[f].stored = None THEN Ended(f)
       ELSE Returned(f, fetch[f].stored.body)
    /\ UNCHANGED <<disk, origin, now, deaths, unswept>>

\* The headers are in: the copy's age counts from here.
Headers(f) ==
    /\ fetch[f].pc = "answered" /\ fetch[f].reply.status = "body"
    /\ fetch' = [fetch EXCEPT ![f].pc = "reading", ![f].at = now,
                              ![f].hops = 0, ![f].stored = None]
    /\ UNCHANGED <<disk, origin, now, deaths, unswept>>

-----------------------------------------------------------------------------
(* store and evict_to_cap: no await, but another thread's fetch may come   *)
(* between any two file operations.                                        *)

\* A body over the cap is not read to its end, and what was filed is dropped.
TooLarge(f) ==
    /\ fetch[f].pc = "reading" /\ <<fetch[f].key, fetch[f].reply.of>> \in Huge
    /\ disk' = [disk EXCEPT ![fetch[f].key] = None]
    /\ Ended(f)
    /\ UNCHANGED <<origin, now, deaths, unswept>>

\* The body is in, and is not over the cap.
Read(f) == fetch[f].pc = "reading" /\ <<fetch[f].key, fetch[f].reply.of>> \notin Huge

\* The document replaces whatever is filed by now.
Rename(f) ==
    /\ MaxEntries > 0
    /\ Read(f)
    /\ disk' = [disk EXCEPT ![fetch[f].key] = [body |-> fetch[f].reply.of, at |-> fetch[f].at]]
    /\ fetch' = [fetch EXCEPT ![f].pc = "sweeping", ![f].look = Keys,
                              ![f].key = None, ![f].at = 0]
    /\ UNCHANGED <<origin, now, deaths, unswept>>

\* With room for no entry the one filed is dropped; a document that cannot be
\* written loses only the caching.
Unstored(f) ==
    /\ Read(f)
    /\ disk' = IF MaxEntries = 0 THEN [disk EXCEPT ![fetch[f].key] = None] ELSE disk
    /\ Returned(f, fetch[f].reply.of)
    /\ UNCHANGED <<origin, now, deaths, unswept>>

\* entries_on_disk opens one document after the other.
Look(f, k) ==
    /\ fetch[f].pc = "sweeping" /\ k \in fetch[f].look
    /\ fetch' = [fetch EXCEPT ![f].look = @ \ {k},
                              ![f].seen = IF disk[k] = None THEN @ ELSE @ \cup {[key |-> k, at |-> disk[k].at]}]
    /\ UNCHANGED <<disk, origin, now, deaths, unswept>>

\* The oldest of what was seen, as many as there are too many; the directory's
\* order decides between equals.
Oldest(seen, excess) ==
    {gone \in SUBSET seen :
        /\ Cardinality(gone) = excess
        /\ \A g \in gone, s \in seen \ gone : g.at <= s.at}

\* Mutant of Excess: one entry more than the cap is let pass.
ExcessOff(seen) == IF Cardinality(seen) <= MaxEntries + 1 THEN 0 ELSE Cardinality(seen) - MaxEntries

Excess(seen) == IF Cardinality(seen) <= MaxEntries THEN 0 ELSE Cardinality(seen) - MaxEntries

\* What is left to evict; with nothing left the fetch returns.
Evicting(f, victims) ==
    IF victims = {}
      THEN Returned(f, fetch[f].reply.of) /\ unswept' = 0
      ELSE /\ fetch' = [fetch EXCEPT ![f].pc = "evicting", ![f].seen = {}, ![f].victims = victims]
           /\ UNCHANGED unswept

Choose(f) ==
    /\ fetch[f].pc = "sweeping" /\ fetch[f].look = {}
    /\ \E gone \in Oldest(fetch[f].seen, Excess(fetch[f].seen)) : Evicting(f, {g.key : g \in gone})
    /\ UNCHANGED <<disk, origin, now, deaths>>

\* A victim goes by its name, whatever is filed there by now.
Evict(f, k) ==
    /\ fetch[f].pc = "evicting" /\ k \in fetch[f].victims
    /\ disk' = [disk EXCEPT ![k] = None]
    /\ Evicting(f, fetch[f].victims \ {k})
    /\ UNCHANGED <<origin, now, deaths>>

Sweeping == {f \in Fetchers : fetch[f].pc \in {"sweeping", "evicting"}}

\* The daemon dies: its fetches are gone, the directory stays.
Die ==
    /\ deaths < MaxDeaths
    /\ deaths' = deaths + 1
    /\ fetch' = [f \in Fetchers |-> IF fetch[f].pc \in {"idle", "done"} THEN fetch[f]
                                   ELSE Unstarted]
    /\ fetch' # fetch
    /\ unswept' = unswept + Cardinality(Sweeping)
    /\ UNCHANGED <<disk, origin, now>>

Next ==
    \/ \E f \in Fetchers :
           \/ \E k \in Keys : Begin(f, k) \/ Look(f, k) \/ Evict(f, k)
           \/ Reply(f) \/ ReplyUnasked(f) \/ Redirect(f) \/ Fail(f) \/ NotModified(f) \/ Headers(f)
           \/ TooLarge(f) \/ Rename(f) \/ Unstored(f) \/ Choose(f)
    \/ \E k \in Keys : Update(k)
    \/ Tick
    \/ Die

Spec == Init /\ [][Next]_vars

-----------------------------------------------------------------------------
\* cache.rs, "the one thing that is never done is returning a body the origin did
\* not send": whatever other fetches file, drop or evict while this one waits, what
\* it returns is the version the origin sent it or, asked about it, confirmed.  The
\* one exception is a copy without a validator, of which an origin says unasked that
\* it is unchanged: then it is the copy this fetch began from, however old by now,
\* and none that another fetch has filed.
BodiesAreTheOrigins ==
    \A f \in Fetchers : fetch[f].pc = "done" =>
        \/ fetch[f].told # None /\ fetch[f].body = fetch[f].told
        \/ fetch[f].told = None /\ fetch[f].body = fetch[f].began /\ fetch[f].began \in Untagged

\* "Drop the oldest entries until the cap holds", with nothing locked: the entries
\* above the cap are at most the stores still sweeping, or cut off by a death and
\* not yet swept up after.
CacheWithinCap ==
    Cardinality({k \in Keys : disk[k] # None}) <= MaxEntries + Cardinality(Sweeping) + unswept

=============================================================================

----------------------------- MODULE MCOutbound -----------------------------
(***************************************************************************)
(* Model calls against one limiter (ProviderCalls), and the same three     *)
(* calls through the routing table (ModelRouter): two named pools over two *)
(* providers, "fast" preferring provider a and falling back to b, "deep"   *)
(* listing b alone; a has two keys and a ceiling of its own, b one key.    *)
(* Each strategy of a is a configuration.  And page fetches that end with  *)
(* a person (HumanPane), in one browser profile, asking two operators in   *)
(* turn.  And deletions of two files with one name (Trash).  And two       *)
(* fetchers of two pages through the cache (UrlCache), of which one changes *)
(* once, the second's new version being over the body cap.                 *)
(*                                                                         *)
(* The five share no state, so a behaviour is of one of them: `focus`     *)
(* says of which, and the others stay as they began.                       *)
(***************************************************************************)
EXTENDS MCProviderCalls, CredentialPool

VARIABLES focus, pools, providers, routerNow, routerPc, routerAt, ticket

routerVars == <<pools, providers, routerNow, routerPc, routerAt, ticket>>

Key(l, weight, cost) ==
    [limiter |-> l, healthy |-> TRUE, current |-> 0, weight |-> weight, priority |-> 0, cost |-> cost]

CONSTANTS RouterPools, RouterProviders, RouterRoutes, RouterPoolStart, RouterStarts,
          RouterEstimates, RouterUsages, RouterMaxNow

MCRouterPools == {"fast", "deep"}
MCRouterProviders == {"a", "b"}
MCRouterRoutes == [n \in MCRouterPools |-> IF n = "fast" THEN <<"a", "b", "a">> ELSE <<"b">>]

MCRouterPoolStart == [n \in MCRouterPools |->
    IF n = "fast" THEN Configured(None, None, None, 3, 2) ELSE None]

ProviderA(strategy) ==
    [strategy |-> strategy, cursor |-> 0,
     limiter |-> Configured(NewBucket(3, 1, 0), None, None, None, None),
     slots |-> <<Key(Configured(None, NewBucket(2, 2, 0), None, None, 1), 2, 2),
                 Key(Configured(NewBucket(2, 1, 0), None, None, 2, None), 1, 1)>>]

ProviderB ==
    [strategy |-> "Priority", cursor |-> 0, limiter |-> None,
     slots |-> <<Key(Configured(None, None, NewBucket(2, 1, 0), None, 1), 1, 1)>>]

MCRouterStarts ==
    {[v \in MCRouterProviders |-> IF v = "a" THEN ProviderA(strategy) ELSE ProviderB] :
        strategy \in Strategies}
MCRouterEstimates == {[tokens |-> 2, usd |-> 1]}
MCRouterUsages == {[tokens |-> 1, usd |-> 1]}

Router == INSTANCE ModelRouter WITH
    Estimates <- RouterEstimates, Usages <- RouterUsages,
    PoolNames <- RouterPools, Routes <- RouterRoutes, Providers <- RouterProviders,
    PoolStart <- RouterPoolStart, ProviderStarts <- RouterStarts,
    MaxNow <- RouterMaxNow,
    now <- routerNow, pc <- routerPc, at <- routerAt

\* Limiters as from_config makes them, with nothing reserved and no bucket overfull.
Fresh ==
    {l \in LimiterState :
        l.inFlight = 0 /\ \A b \in {l.rpm, l.tpm, l.rpd} \ {None} : b.tokens <= b.cap}

\* The table is a table: routes lead to providers, and everything starts unused.
ASSUME RouterAssumption ==
    /\ RouterEstimates \subseteq Lease /\ RouterUsages \subseteq Lease
    /\ RouterRoutes \in [RouterPools -> Seq(RouterProviders)]
    /\ RouterPoolStart \in [RouterPools -> Fresh \cup {None}]
    /\ RouterStarts \subseteq [RouterProviders -> Pool]
    /\ \A tables \in RouterStarts : \A v \in RouterProviders :
           /\ tables[v].limiter \in Fresh \cup {None}
           /\ \A i \in Positions(tables[v]) : tables[v].slots[i].limiter \in Fresh
    /\ None \notin LimiterState

CONSTANTS Fetches, Profile, MachineRungs, Roster, Reached, Requests, Says, Remembered

MCProfile == [f \in Fetches |-> "p"]
MCRoster == <<"yoav", "dana">>
MCSays == [a \in Requests |-> IF a = "yes" THEN "Solved" ELSE "Abandoned"]

VARIABLES panePc, rung, screens, browsers, pending, finished, minted, rotation, asked, paneChan,
          paneResult, announced, resolved, killing, req, cut

paneVars == <<panePc, rung, screens, browsers, pending, finished, minted, rotation, asked, paneChan,
              paneResult, announced, resolved, killing, req, cut>>

Pane == INSTANCE HumanPane WITH
    pc <- panePc, cursor <- rotation, operator <- asked, chan <- paneChan, result <- paneResult

CONSTANTS Deletes, Paths, MaxName, MaxFiles

VARIABLES home, files, info, deletePc, path, taken, dest, holds, born, swept

trashVars == <<home, files, info, deletePc, path, taken, dest, holds, born, swept>>

Bin == INSTANCE Trash WITH pc <- deletePc

CONSTANTS Fetchers, page1, page2, Keys, Versions, Huge, Untagged, MaxAge, MaxEntries,
          MaxRedirects, MaxChanging, CacheMaxNow, MaxDeaths

MCKeys == {page1, page2}
MCHuge == {<<page2, 2>>}
MCMaxAge == [v \in Versions |-> IF v = 1 THEN 1 ELSE None]

VARIABLES disk, origin, cacheNow, fetch, deaths, unswept

cacheVars == <<disk, origin, cacheNow, fetch, deaths, unswept>>

Cache == INSTANCE UrlCache WITH MaxNow <- CacheMaxNow, now <- cacheNow

\* Names, files, fetches and answers are none of them the absence of one; a file
\* can be deleted, an answer is one of the two the route takes, and fetchers and
\* pages can be counted.
ASSUME OutboundAssumption ==
    /\ None \notin Nat \cup Paths \cup Fetches \cup {"Solved", "Abandoned", "Delivered"}
    /\ IsFiniteSet(Paths) /\ IsFiniteSet(Fetchers) /\ IsFiniteSet(Keys)
    /\ MaxEntries \in Nat
    /\ MaxName \in Nat \ {0}
    /\ Says \in [Requests -> {"Solved", "Abandoned"}]

-----------------------------------------------------------------------------
MCInit ==
    /\ focus \in {"calls", "router", "pane", "trash", "cache"}
    /\ Init
    /\ Router!Init
    /\ Pane!Init
    /\ Bin!Init
    /\ Cache!Init
    /\ focus # "trash" => born = Cardinality(Paths)
    /\ focus # "router" => providers["a"].strategy = "Priority"

MCNext ==
    /\ \/ focus = "calls"  /\ Next        /\ UNCHANGED <<routerVars, paneVars, trashVars, cacheVars>>
       \/ focus = "router" /\ Router!Next /\ UNCHANGED <<vars, paneVars, trashVars, cacheVars>>
       \/ focus = "pane"   /\ Pane!Next   /\ UNCHANGED <<vars, routerVars, trashVars, cacheVars>>
       \/ focus = "trash"  /\ Bin!Next    /\ UNCHANGED <<vars, routerVars, paneVars, cacheVars>>
       \/ focus = "cache"  /\ Cache!Next  /\ UNCHANGED <<vars, routerVars, paneVars, trashVars>>
    /\ UNCHANGED focus

MCSpec == MCInit /\ [][MCNext]_<<vars, routerVars, paneVars, trashVars, cacheVars, focus>>

\* Reservations balance at every level of the routing table (router.rs).
LeasesBalance == Router!LeasesBalance

\* A refused call costs nobody anything, at any level (router.rs, acquire).
RefusedTakesNothing == Router!RefusedTakesNothing

\* An answer told "delivered" is the one the fetch ends with (pane.rs, answer_by).
AnswerHeard == Pane!AnswerHeard

\* Who was told to hurry is told it is over, and nothing is left (pane.rs, present).
ToldItIsOver == Pane!ToldItIsOver

\* No file is lost to a deletion (trash.rs, call; local.rs, rename).
NothingDestroyed == Bin!NothingDestroyed

\* A page returned is what the origin sent, or confirmed when asked; when unasked, the
\* copy the fetch began from (cache.rs, fetch).
BodiesAreTheOrigins == Cache!BodiesAreTheOrigins

\* The cache's entries stay within the cap but for stores under way (cache.rs, evict_to_cap).
CacheWithinCap == Cache!CacheWithinCap

=============================================================================

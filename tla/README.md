# Verification of hx-harness

hx-harness is an agent harness: a daemon (`hxd`) that lets language models use
tools on behalf of a person, decides which of their calls may run, asks the
person about the rest, and pays for the models. This project models the parts in
which that can go wrong in ways a test would hardly reach: questions racing
deadlines, answers arriving late or twice, grants that lapse in the middle of a
run, calls that share rate limits and money, futures that are dropped at an await,
a daemon killed between a tool's effect and the record of it, watchers that lag
behind or reconnect, containers and child processes whose owner fails half-way.

`PROJECT.json` lists the components, the runs, the definitions' source lines, the
mutants that show each property can fail, the hazards and the findings.

## 1. Inventory

| component | state | operations | talks to | what makes it correct |
|---|---|---|---|---|
| Approval vocabulary (`hx-core/approval.rs`) | none | order of risk classes, level thresholds, tightening | everybody | a ceiling covers exactly the classes up to it |
| Approval session (`hx-core/approval.rs`) | level, expiry, remembered answers, unattended counter, the outstanding question | `decide`, `resolve`, `timeout`, `set_level`, `revoke`, `take_promotions` | owned by a run or the MCP server, under a mutex | the order of the checks survives every order of calls: deny rules absolute, ask rules ask each time, the ceiling and the check-in hold, a grant dies with its expiry |
| Approval queue (`hx-agent/queue.rs`) | pending questions with their reply channels | `decide_in_with_wait`, `answer`, `pending` | runs park questions, HTTP clients and gateways answer | no yes above a surface's ceiling or out of silence; first answer wins; no ghost entries; every question is decided |
| Phone approvals (`hx-server/phone.rs`) | pending tokens | `decide`, `respond` | external push relay, HTTP `respond` | a yes needs the question's own one-time token within the phone's ceiling; a tap in time decides |
| Call gate (`hx-agent/agent.rs handle_call`, `hx-server/chat.rs`) | the run's session and approver | propose, decide, ask, resolve, run | session, queue, phone, tools | risky calls run only with a person's consent; a no lasts; every call returns |
| Limiter (`hx-provider/limits.rs`) | three token buckets, day, spend, in-flight count | `acquire`, `reconcile`, `release` | held by keys, providers and pools | slots and bill are exact; no ceiling passed by concurrent admission |
| Credential pool, router (`hx-provider/pool.rs`, `router.rs`) | key limiters, health, selection state | `acquire`, `reconcile`, `release`, `mark_unhealthy` | model calls, under the router mutex | a reservation held at three levels is returned at all three; benched keys are not handed out; weights are respected |
| Model call (`hx-agent/model.rs`) | a lease across an await | `complete` | router, provider, the run's deadline | every lease is settled |
| Agent loop (`hx-agent/agent.rs`, `context.rs`) | transcript, turns, deadline | `run`, `handle_call` | model, registry, sink, gate, event writer | every tool call has exactly one result, in order; the store hears of a message before anybody else; limits stop the loop between calls, never inside a turn's |
| Compaction (`hx-agent/compact.rs`) | none (a function on transcripts) | `compact_at`, head and tail selection | agent loop | calls and results stay paired; what the model is to answer is still there |
| Classifier and rules (`hx-core/approval.rs`, `allowlist.rs`) | rule lists, allow files | classify, match, merge | session | a floor no file can remove |
| Capabilities (`hx-core/capability.rs`) | grants, expiry, budgets | attenuate, check | gate | a child never exceeds its parent |
| Model pool (`hx-core/pool.rs`) | weights, down marks | draw, mark down | fan-out | members that are down are not drawn |
| Chat sessions and store (`hx-server/chat.rs`, `state.rs`, `hx-store`) | transcripts, event log, session locks | create, append, load, repair, delete, reply | agent loop, streams | one run per session; a death leaves a transcript that can be repaired; the log never leads it |
| Audit chain (`hx-store/audit.rs`) | digests of the event log | extend, verify | store | a changed row is noticed |
| Event streams (`hx-server/stream.rs`, `stream_ws.rs`, `webhook_bridge.rs`) | the broadcast bus, event numbers, each watcher's place | append, publish, replay, follow | chat, webhook drivers, clients | ascending numbers, own session only; a missing event is explained; a stream that ends has carried its run |
| Gateway (`hx-gateway`) | posted questions, taps, the growing answer message | ask, poll, route, stream the answer | queue, chat, Telegram | a tap resumes the run that asked, from its own conversation; the whole answer ends up on the screen |
| Spawn and fan-out (`hx-server/spawn.rs`, `fanout.rs`) | child runs | spawn, join, cancel | agent loop, pool | every child is accounted for |
| Terminal (`hx-server/terminal.rs`, `terminal_ws.rs`) | shell, reader, scrollback, broadcast channel | spawn, attach, detach, remove | websockets, pty or SSH | no hole in the output without notice; watchers see the end; a removed shell ends |
| MCP host and server (`hx-mcp`) | connection, restart budget, catalogue; one approval session | call, restart, probe, mark down; serve a call | child processes, session | one child at a time, each accounted for; every call returns; no question left over |
| Sandboxes (`hx-sandbox`, `hx-server/sandbox.rs`) | handles, leases, the cache of checkouts, shells inside | spawn, destroy, reap, lease, open a shell | container engine, chat, routes | a container can be found again; the runs of a checkout share one live box; dead boxes go |
| Browser (`hx-browser`, `hx-server/pane.rs`) | ladder, questions waiting for a person, screens | climb, present, answer, close a screen | research, operators' webhooks | an answer acknowledged is the fetch's result; who was told to hurry is told it is over |
| Search (`hx-search`) | the page cache's directory, per-backend state | fetch through the cache, store, evict, aggregate, fuse, research | tools, browser | a page returned is what the origin sent or confirmed; the cache stays within its cap; a slow backend cannot hold a query |
| Secrets (`hx-secrets`) | vault file | unlock, put, rotate | providers | a write is all or nothing |
| Tools (`hx-tools`) | the trash: files and records | delete, and single calls on a host | agent loop, local host | nothing is destroyed |
| Decisions, remote hosts, wire formats, evaluation, applications | | | | see `PROJECT.json` |

Interactions that are hard: the run and the answering surfaces meet on one queue
entry from different tasks; `tokio::time::timeout` polls its future, then the
deadline, and drops the future later; a model call reads the clock once and
settles with that reading after an arbitrary wait; the run's deadline drops a
model call while it holds a reservation; the approver is chosen once per run while
the level can change under it; an event is stored, numbered and published in three
steps by several writers; a container is stopped, removed and forgotten in three steps
that can each fail; a question for a person is judged, taken and answered under three
acquisitions of one lock.

## 2. Modules

| module | models | notes |
|---|---|---|
| `RiskLadder` | `RiskClass`, `AutonomyLevel`, `ApprovalOption` | classes are 0..5, so `covers` is `<=` |
| `ApprovalPromise` | what an approver that waits for a person owes a run | abstract specification |
| `ApprovalQueue` | `ApprovalQueue` | one action per lock section and per poll of the timeout |
| `ApprovalPolicy` | `ApprovalSession` as a value | operators from session to session |
| `ApprovalSession` | that value under every order of its public calls | |
| `CallGate` | `handle_call`, phases 1 to 4, and the approver choice of `chat.rs` | composes `ApprovalPolicy` with what `ApprovalPromise` says of queue and phone |
| `PhoneApprover` | `PhoneApprover` | the relay is external: it may lose, delay, or hang |
| `Limiter` | `TokenBucket`, `Limiter` as values | |
| `ProviderCalls` | `RouterModel::complete` of several runs on one limiter | the run's deadline is `Abandon` |
| `CredentialPool` | `CredentialPool` as a value, five strategies | |
| `ModelRouter` | `ModelRouter` and its callers | composes `CredentialPool` and `Limiter` at three levels |
| `Transcript` | messages, `interrupted_calls`, `compact_at` as values | the token estimate is a parameter |
| `SessionRuns` | chat requests from arrival to reply: session locks, the agent loop, the store, the event writer, the daemon's death | composes the loop with `Transcript`; what the gate decides is `CallGate`'s |
| `ChannelApprovals` | the gateway's approval bridge and `ChannelApprover` | extends `ApprovalQueue`: the same queue, other surfaces beside it |
| `AnswerStream` | `stream_answer` into one Telegram message | the Bot API is external: it refuses, throttles, or does not answer |
| `LiveFeed` | event writers, the bus, the chat stream, the WebSocket room with its handshake | an event is its session and number |
| `McpHost` | `ServerHandle` and `McpHost::health` of one consumed server | the child is external |
| `McpServer` | `McpServer::call` | over `ApprovalPolicy`; nobody to ask |
| `Sandboxes` | `SandboxManager`, `SandboxCache`, leases, routes and their clients' leaving, reaper | the engine is external |
| `Terminal` | one terminal and its watchers | local pty or remote session |
| `HumanPane` | `Ladder::fetch`, the interactive rung, `ScreenPane`, `Challenges`, the two routes | the registry of screens is external |
| `Trash` | `DeleteTool::call` over `LocalHost::rename` | several deletions at once, re-created files, the daemon's death |
| `UrlCache` | `UrlCache::fetch`, `store`, `evict_to_cap` | the origin is external; nothing locks the directory |
| `AnswersProofs`, `ConsentProofs` over `ApprovalPolicyProofs`, `OutboundProofs`, `LiveFeedProofs`, `HostedProofs`, `SessionRunsProofs` over `TranscriptProofs` | | the theorems |
| `MCAnswers`, `MCConsent`, `MCOutbound`, `MCHosted`, `MCLiveFeed`, other `MC*` | | the instances TLC checks |

Parts that share no state share a run: the composite's variable `focus` says which part
a behaviour is about, and the others stay in one initial state. Fairness of a part that
stays idle is satisfied trivially and constrains nothing; that it does constrain the
part in focus is shown by the liveness mutants, which TLC refutes under these very
configurations. `MCLiveFeed` does the same with the two kinds of watcher, which read one
store and one bus and change neither: the writers go on in both halves, and a behaviour has
either a stream or a room. Where parts do share state, one module extends or instantiates the
other (`ChannelApprovals` over `ApprovalQueue`, `CallGate` and `McpServer` over
`ApprovalPolicy`, `ModelRouter` over `CredentialPool` over `Limiter`, `SessionRuns` over
`Transcript`).

### How state and actions correspond to the code

**Queue.** `pending` is the map under the mutex, `chan[a]` the oneshot channel,
`pc[a]` the place in `decide_in_with_wait`. `Park` is the insert; `Wake` and
`Expire` are the two outcomes of a poll; `DropReceiver` is the end of the
`timeout` expression, until which a send still succeeds; `Settle` is the removal
and the return. `Answer` is the whole critical section of `answer`; the answers it
refuses change nothing and are the absence of a step. `acked` is a history
variable: what a caller was told had reached the run. Chat runs are spawned tasks,
so a client that goes away does not cancel a question.

**Session.** `Layer` is the chain of checks in `decide`, in its order, and names
the check that settled the action; `AfterDecide` is what `decide` leaves behind,
expiry included. An action stands for what the checks read of a request: its
risk, the key an answer is remembered under, which rule lists match. Keys are
shared between actions as `rule_key` shares them.

**Gate.** `Propose` is phases 1 and 2, `Decide` phase 3's verdict, `Resolved` the
answer put through `resolve` in the same step as it is received (a run handles one
call at a time and owns its session). Every approver outcome is an action:
`AlwaysAllow`, `RefusingApprover`, `PhoneTap`, `QueueAnswer`, `Silence`.

**Phone.** `Ask` inserts the token, `PushReturns` and `PushTimesOut` end the
bounded push, `Wake`/`Expire`/`DropReceiver` are as in the queue; `Respond` is
`respond`, which takes the entry only for its own token and within the ceiling.

**Limiter and calls.** A limiter is a record; `AfterAcquire` is `acquire` in its
two phases, a refusal's refills included. Time is in ticks, `DayLength` of them a
day; a bucket's refill per tick is a whole number. `ProviderCalls.at[c]` is the
one clock reading of call `c`, used for acquire and for settlement. `Abandon` is
the deadline in `AgentLoop::run`; `Send` separates errors before the request left
from errors after.

**Pool and router.** A pool is a record of slots, strategy, cursor; `PickOrder`
and `AfterPick` are `pick_order`, the order given as the place of each slot: how many
come `Before` it. `FirstUsable` is the usable slot with the least place, which is where
the code's loop stops; `Try` is one round of the loop over routes. `Rollback` undoes the provider's reservation
when no key can serve. `ModelRouter!Acquire` is `acquire` whole: pool ceiling,
routes in order, rollback.

**Chats.** `run[r]` is the task a request spawned, its `pc` the place in
`run_chat_with_session_notify` and `AgentLoop::run`. `Arrive` is the validation and
the lookup in the lock table, pruning included (`SessionLock`; a lock is named
after the request that made it); `Lock` is the await. `Open` and `Repair` are the
two transactions of `close_interrupted`; `Prompt`, `Setup`, `BeginTurn`,
`ModelAnswers`, `FileAnswer`, `StartCall`, `HandleCall`, `FileResult` follow the
code. A step never contains an emit that precedes a write, so a death can fall
between any two of them. `channel[r]` is the bounded channel to `write_events`
(`Write`), for which `Reply` waits. `Crash` keeps the store and nothing else.
A run belongs to the daemon, so a client that goes away is no step. The cancel
route looks its run up in a table nothing fills at this commit, and the loop has
no signal to look at: it is not modelled.

**Channel.** `AskVia`, `PostReturns` and `AwaitAnswer` are `ChannelApprover::decide`:
the ceiling, the post, the wait on the queue with the conversation as scope. `Route` and
`RouteAnswer` are the bridge's two looks at the queue. A post that failed may be on the
screen (`PostLands`); buttons are tapped late or again, and a tap is polled at most
once. `Arrives` says what of the conversation a tap carries: for a button its chat,
without the thread (`telegram.rs:392`).

**Answer stream.** A text is its length, since every text written is a prefix of the
answer. `write` is the one write in flight beside the token loop, with its attempts; the
end joins it, edits once more, and falls back to a new message. `ghosts` are calls
without an answer that land later; `overtaken` marks the behaviours in which one did so
over a longer text, which no sender could undo.

**Feed.** A writer numbers its event in the store (`AppendEvent`) and then publishes it,
so two writers can publish in the other order. A receiver is a place on the bus; it has
lagged when more than `BusCap` events follow. `feed[r]` is the state of the chat
stream's poll function (filter, buffer, the session's report and the
reply on their own channels), `room[c]` the WebSocket client with its replay floor.
`Connect` is the handshake: the room starts from the number the client names, or from 0 if
nothing readable came in time. `before` is history: how much the client had been sent by its
earlier connections. `Finish` joins the writer of events and then answers, with a reply or
with the error of a run that may have written any number of events before it failed.

**MCP host and server.** `st` is the state behind the read-write lock. A call holds a
read guard while in flight, so `Take` and the writes of a restart wait for it; a probe
clones the peer and holds nothing. `restarting` is the mutex of `ensure_up`. In
`McpServer`, `Decide` and `TimeOut` are the two acquisitions of the session's lock.

**Sandboxes.** `spawn` holds the map's lock throughout and is one step; `destroy` is
`Begin`, `Stop`, `Remove`, with the handle out of the map in between and put back as
failed when removal fails. Only the routes' handlers are futures that a leaving client
drops (`SpawnDropped`, `DestroyDropped`): a chat run is spawned (`routes.rs:651`,
`stream.rs:101`), so are the reaper and the task of a dropped lease. `abandoned` is history:
the containers such a handler had in hand. `opening` is the cache's lock, held across `open`. A
`SandboxFor` belongs to all runs that got it; the last one's lease destroys the box.
`Terminals::close_sandbox` and `create_in_sandbox` are called by code in `src/` and
defined in none of it: they are external.

**Terminal.** Chunk *n* is frame *n* of the broadcast, the frame after the last says
`Exited`. `Retain` and `Broadcast` are two steps of the reader, `Subscribe` and
`Snapshot` two of an attaching client. `Held` says who keeps a local terminal open.

**Pane.** A challenge and its screen have the fetch's name. The budget, and the bound
around the whole fetch, drop `present` at an await: `Launch` and `CutShort` for the
awaits without a guard, `Expire`, `GuardRemoves` and `GuardForgets` for the wait, whose
receiver is dropped before its guard. `Check`, `TakeEntry` and `Deliver` are the three
steps of an answer, `KillScreen` and `ScreenClosed` the two of the route that closes a
screen. Announcement and resolution are spawned pushes: what is modelled is that they
are sent, not when they arrive.

**Trash.** All paths end in one name, so names in the trash are numbers. `Look`,
`ListFiles`, `ListInfo` and `WriteRecord` are `call`; `Link` and `Unlink` are `rename`,
`OpenSource`, `CreateNew` and `Copy` its fallback.

**Page cache.** A body is a version of its page. A fetch awaits the origin between
`Begin` and `Reply`, `Headers` and the body, and may be dropped there (`Fail`); from the
body on nothing is awaited, but other threads' fetches come between its file operations:
`Rename`, `Look` (one document opened) and `Evict` (one removed, by name). The temporary
file has a name of its own and is seen by nobody before the rename. `Conditional` says when
validators go out: on the first hop, if the copy came with any. An origin that was not asked
may still say 304 (`ReplyUnasked`): past a redirect that is an error, on the first hop it
stands for the copy the lookup found. `told`, `began` and `unswept` are history: what the
origin answered with, the copy the fetch found, and sweeps a death cut off.

## 3. Runs

Passing runs:

| run | shows | bounds and why they are enough |
|---|---|---|
| `answers` | queue: ceiling, listing, first answer, every question decided (refines `ApprovalPromise`); channel: a tap counts for its own conversation only and resumes the run; phone: own token, in-time tap, refines `ApprovalPromise`; answer stream: the whole text is on the screen | 2 questions at 3 risks with ceilings below, at and above them (questions meet only on the map), 2 chats, 2 taps, 2 pushes with tokens that may be mixed up, an answer of 4 characters in chunks of 1 and 2, 2 attempts a write, 1 late call |
| `consent` | consent, lasting denials and the return of every call at the gate; the order of the checks, the unattended budget and the end of a grant under every order of a session's calls; no question left by concurrent MCP calls | 4 calls through the gate, the five levels, each approver; 7 actions with shared keys, 2 questions, clock 0..2 with the grant ending at 1, budget 2, counter to 4; 3 MCP calls |
| `outbound` | slots, minute ceiling and bill exact; reservations balance at three levels and a refusal takes nothing; answers to a challenge heard and its end told; nothing destroyed by a deletion; cached pages are the origin's, or what an unasked 304 left standing, and the entry cap holds | 3 calls, 2 days of 2 ticks, one estimate larger than the token bucket, one response dearer than any reservation; 2 pools, 2 providers, 3 keys, each strategy; 2 fetches in one profile, 2 operators of whom one has a webhook, 2 contradicting answers with any token or none, 1 question remembered; 2 deletions of 2 paths, 2 names one of which may be in use, files written anew; 2 fetchers of 2 pages one after another, room for 1 entry, 1 page changes once (its new version over the body cap for one page; the first versions without a validator, so that fetches begin from copies with and without), 1 redirect, clock 0..1 with a lifetime of 1, 1 death |
| `chats` | requests sendable and complete, runs apart, calls on record once and the log behind the transcript (`RecordsAgree`), every request ends | 2 requests on 1 session, 2 turns of up to 2 calls, 3 call ids, 1 death, deletion at any point, every lock entry up for pruning (`MaxLocks` 0). Windows of 2 and 3 messages and a threshold of 4 make compaction cut inside the second run. `KeepTail` exceeds the widest turn's results, as 12 usually does; see below for when it does not |
| `feeds` | ascending and own events only; every gap explained by a lag or an overtaking; a stream that ends has carried its run's events and one answer | 2 sessions, 1 run that replies or fails, 1 webhook driver, 1 client that reconnects twice, any of its handshakes lost, 4 events over a bus of 2 and a buffer of 1: both overflow |
| `hosted` | containers findable and one live box per checkout, dead boxes reaped, but for what a dropped handler had in hand; no hole without notice, watchers see the end; children accounted for, every MCP call returns | 2 runs in 1 checkout, 2 boxes, a shell in the first; 1 watcher, 4 chunks over a scrollback and a channel of 2; 2 calls, 1 probe, 2 restarts, 3 children |

The largest take two or three minutes (`feeds` 1.9 million states, `outbound` 1.0 million,
`consent` 0.5 million, `answers` 0.3 million with four temporal properties, `hosted` 0.2
million with three).

A run stops at its bounds (all calls finished, the clock at its end), so the
configurations switch deadlock checking off; where waiting for ever would be a
defect, a liveness property says so.

Runs that show the code and its own words disagree; each has a finding in
`PROJECT.json` with the line it quotes:

| run | what happens |
|---|---|
| `gate_yolo_ceiling` | the approver chosen for yolo says yes by itself to the prompt the ceiling raises |
| `chats_first_run` | a session's first run holds the lock of all new sessions, a request that names the session holds its id's: the two run at once on one transcript |
| `calls_midnight` | a reading from before midnight sets the limiter's day back and clears the bill |
| `calls_abandoned` | a dropped model call never settles its lease |
| `answers_thread` | a button's tap arrives without its thread, so a question asked in a thread is never found and the tap is consumed |
| `terminal_removed` | the reader of a local terminal keeps the terminal and its pty open, so removing it does not hang up the shell |

Smaller disagreements the models make visible, without a run of their own:

* `queue.rs:64` says of `Answered` that the answer reached the run; between the
  poll that gave up and the drop of the receiver it is acknowledged and lost. The comment
  at `queue.rs:214` knows of this race; the model has it (`Expire`, then `Answer` before
  `DropReceiver`), and no property excludes it. `phone.rs:244` has the same window, and
  `respond` drops the result of the send.
* `approval.rs:1811` calls the ceiling the highest class ever auto-approved; allow
  rules and remembered answers come before it, and before the unattended budget too
  (`CheckInCadence` is what holds).
* `stream.rs` pops one event of those a session's report frees and loses the one it had
  just received. `chat.rs:293` says nothing buffered can be of the session; between
  `create` and the report there is no await, and the model takes the two as one step, but
  another thread's run on the new session would be such an event.
* A slow response overwrites a newer one in the page cache, with the later clock of the
  two if its headers came last; nothing in `cache.rs` claims otherwise.
* `cache.rs:332` says that a body the origin did not send is never returned, and past a
  redirect a 304 that nobody asked for is an error (`cache.rs:398`). On the first hop it is
  not: a copy without validators asks nothing, and a 304 returns it as `Revalidated`
  (`cache.rs:406`). `BodiesAreTheOrigins` says that this is all that can happen: the body is
  what the origin sent or, asked, confirmed, or it is the copy this fetch began from.
* `docs/approvals.md:57` says destructive actions are never remembered; `resolve`
  remembers "for this chat" for any risk.
* Silence is resolved like a person's no and remembered as one, although
  `queue.rs:7` tells the two apart.
* `compact.rs:63` says the tail is always kept; a turn with as many results as the
  window (12) has no self-contained suffix, the tail is empty, and the request ends
  with the marker instead of the results (`LastExchangeSent` with `KeepTail = 2`).
* All requests that start a session wait for each other, on one lock, for whole runs.
* A session deleted between the prompt and the reading of the transcript reads as
  empty, and the model is called with no messages.
* A yolo grant that lapses during a run tightens the level but not the approver.
* A request larger than its token bucket is charged clamped and refunded unclamped.
* Any provider error releases the lease, although `release` is documented for
  requests that never reached the provider.

Of the gateway and the streams:

* A tap between the post of a question and the run's wait is refused and consumed; the
  run ends at its deadline. `telegram_stream.rs` counts its writes one short of what the
  loop can make, and a timed-out edit may land after a later one.
* `stream.rs:134` says nothing follows the reply; an event that reaches the bus late can
  be sent after it. Events that lagged receivers or overtaking writers skipped are not
  recovered (`stream_ws.rs:179`); `GapsExplained` says that nothing else is missing.
* `stream_ws.rs:30` promises resumption "without duplicates or gaps". A handshake that is
  late or cannot be read counts as `since_seq` 0 (`stream_ws.rs:38`, `stream_ws.rs:112`), and
  the client is sent again what it had: `InOrderAndOwn` is therefore about each connection, from the number its
  handshake named.
* The webhook driver appends to its session without the session's lock and keeps the
  state alive across its receive.
* The fan-out benches a model on any error of a child, which is wider than the doc of
  `member_death`.

Of MCP:

* A late `mark_down` turns a server that was given up into one that is down
  (`host.rs:22`), and takes whichever connection is there by then. Two refreshes of the
  catalogue can publish in the other order. A probe holds no guard.
* `server.rs:315` says the question is answered under the same lock; it is a second
  acquisition. A server with an unattended budget refuses for good once it is spent.

Of sandboxes and terminals:

* A failed removal puts the box back, so the cap of `runtime.rs:11` can be exceeded, and
  `find_existing` and the cache hand out boxes that failed. Shells outlive a box whose
  destroy comes from a lease, whose stop failed, or that they entered during its destroy.
  A TTL is enforced by the reaper only.
* `runtime.rs:165` says that whatever was created is torn down if any step fails, since a
  container nobody tracks lives for ever. A client that leaves drops the handler of
  `POST /v1/sandboxes` between the container's creation and its insertion
  (`routes.rs:526`), or that of a destroy with the handle out of the map (`routes.rs:544`,
  `runtime.rs:327`): nothing tears that container down and nothing tracks it. The
  properties name these containers (`abandoned`) and say that there are no others.
* A chunk between subscription and snapshot is seen twice; a client that attaches after
  the exit never hears of it; removing a remote terminal may stop its pump before it.

Of the pane and the trash:

* `screen_closed` does not go through `take`, whose doc says closing the screen does
  (`pane.rs:390`): a late answer is told there is no such challenge instead of that it is
  over. So is one that comes between the two lock sections of `take`.
* A budget that ends while the answered screen closes loses an answer that was
  acknowledged, and sends no resolution (`cut` in `HumanPane`). The guard's comment says
  the notice goes before the browser; it goes after. A screen closed between its launch
  and its question leaves the question waiting for its whole budget. A second browser is
  started in a profile before the conflict is found.
* Two deletions that choose one name overwrite each other's record, although
  `trash.rs:22` promises the path it came from; the move that is refused leaves the other
  file with the wrong path. `rename` unlinks by name after linking: two deletions of one
  path and a file written there in between destroy that file (`swept` in `Trash`). A
  directory can be neither linked nor copied on the local host, so `recursive` always
  fails there. Over SSH the move checks and then renames.

### Fairness

Only what the runtime guarantees: a timer fires (`DeadlinePasses`), a woken task is
polled (`Run`), a lock is obtained and synchronous code returns (`Decide`,
`Acquire`), a bounded push ends. In `chats` each run's own steps and its writer are
weakly fair: the model call ends by its deadline, an approval by its wait, a tool by
its own timeout. Requests, deletions and deaths need not happen. Nobody is ever obliged to answer a question, tap
a phone, or deliver a push. For `calls_abandoned` the provider's `complete` is
assumed to return, which makes the violation about the dropped future and not
about a provider that hangs.

In the newer parts likewise: a post to Telegram ends by its HTTP timeout, the bridge's
driver goes on polling and routing; an MCP call, start and reaping are under timeouts;
a terminal's reader, pump and attached clients are scheduled; the reaper comes round,
and a removal that is tried again and again succeeds some time (strong fairness of
`Remove`: an engine that refuses for ever can be helped by nobody). That a destroy goes on is
assumed only while nobody drops it: `DestroyDropped` may always come first. No child is obliged
to exit and no client to attach. `AnswerStream`, `LiveFeed`, `HumanPane`, `UrlCache` and `Trash`
are checked for safety.

## 4. Proofs

TLAPS proves the following for every value of the constants that the named
assumptions allow. A module of proofs extends the module of a run, so that what it
proves is stated in the very definitions the run checks. Every invariant below is an
induction: the property itself says too little about what is under way, so it is
strengthened by what each actor, at each place it may be, already knows.

* `AnswersProofs`. The queue: `TypeCorrect`, `CeilingHolds`, `ListingExact`,
  `FirstAnswerWins`, and `KeepsThePromise` (every step of the
  queue is a step of `ApprovalPromise` or a stutter). The inductive invariant is
  `TypeOK` and, for each question, `AskInv`: the channel holds exactly what was
  acknowledged; an acknowledged answer has left the list and was within its
  ceiling; a wait that ended with nothing has a passed deadline. `GrantWithinCeiling`
  alone is not inductive: it says nothing of the answer that sits in the channel
  before the run has seen it.
  The channel: `OwnConversationHolds`, `TapResumes`, `ChannelKeepsThePromise`. `ChannelInv`
  carries the queue's invariant through the bridge's steps, and adds what a post has to
  do with its question (`PostInv`) and what the driver, between its lookup and its
  answer, knows of the one it found (`DriverInv`). `TapResumes` has one hypothesis,
  `Threads = {Main}`, which says that nothing is asked in a thread: without it the
  property is false, as the run `answers_thread` shows.
  The phone: `TapDecides`, `PhoneKeepsThePromise`, from `PushInv`, which follows one push and
  its tap as `AskInv` follows a question.
  The streamed answer: `AnswerIsDelivered`. `ScreenInv` says that no message shows more
  than was ever written and that only a late call can have shortened one, `WriteInv`
  what the write in flight will leave, `EndInv` what each way to end well rests on.
  Assumed: `None` is no value, risks and ceilings are on the ladder, chunks have
  lengths (`OnTheLadder`, `NoneIsNoValue`, `ChannelAssumption`, `AnswersAssumption`).
* `ConsentProofs`, over the lemmas of `ApprovalPolicyProofs` on what `decide`, `resolve`,
  `timeout`, `set_level` and the others do to a session. The gate: `ConsentHolds` and
  `DenialHolds`; a yes in memory is a person's and a no of theirs is in memory
  (`MemoryIsTheirs`), and what is about to run was let through for a reason that still
  stands (`RunningIsAllowed`, `NotRefused`). A chat's session: `RulesHold` and
  `LenienceHolds`; the invariant adds that questions in callers' hands have ids no
  other has (`Questions`), that what went unreviewed was counted (`Counted`) and that a
  grant is in force or wholly gone (`GrantTracked`). The MCP server: `NothingIsLeft`, by
  counting the calls that are over. Assumed: `PolicyAssumption`, `GateAssumption`
  (actions have keys and risks, the budget is a number or none) and `ConsentAssumption`
  (levels are levels, finitely many calls to the server).
* `OutboundProofs`. The limiter: `TypeCorrect`, `SlotsExact`, `RpmBounded`, `BillExact`,
  `CeilingDenies`. The invariant adds to the types that the slots are the open leases (`SlotInv`), that no
  reading is ahead of the clock (`ClockInv`), and the account `Paid`: what a bucket
  holds and what it has paid for come from a full bucket and the refills up to its
  last reading (`RpmInv`). `RpmHolds` forgets how much is left and when it was
  refilled, on which the next acquire depends. Assumed (`CallsAssumption`): a fresh
  limiter, finitely many calls, a minute ceiling that is positive if there is one
  (`peek` clamps a request to its bucket, so a ceiling of zero admits everything).
  The bill: `BillIsExact` alone does not say why a day begins without one. `BillInv` adds
  that no call is open from a day to come, that such a day has cost nothing, that what is
  reserved is within the ceiling too, and that readings fall on the days counted. The
  sum over open calls is a function over sets that takes one call at a time; that it
  exists, that which call is taken first does not matter (`SumsTake`) and that it
  depends on those calls alone (`SumsAgree`) is shown for a smallest set that would be a
  counterexample, so that a step of one call changes one term (`TotalTakes`).
  `CeilingDenies` is the comment in `acquire` that the run `calls_midnight` refutes, with
  the condition under which it holds: no call was worked with a reading from before the
  limiter's day.
  The routing table: `BalanceHolds` and `RefusalIsFree`, for any pools, providers, routes,
  strategies and limits. Settling deducts without going below zero, so the balance
  survives it only if each open call's ticket names a key that exists
  (`RouterTickets`), and a rollback gives back what it took only from buckets that hold
  no more than their ceilings (`Sound`, in `RouterTypes`): a reservation larger than its
  bucket is charged clamped and refunded unclamped, and within one `acquire` the ceiling
  is what makes up for it (`BucketRoom`). With that, `RouterInv` is the balance at each level (`PoolsBalance`,
  `KeysBalance`). The routes are tried by a recursive function, followed to the first
  round that would break what is claimed. Assumed (`RouterAssumption`): routes lead to
  providers the table has, which `from_config` resolves, and every limiter starts
  unused with buckets no fuller than their ceilings, as `Limiter::new` makes them.
  `OrderIsStrict` is about the operators alone: under all five strategies, ties
  included, each key has one place of its own, so `FirstUsable` names one key; it takes
  loads measured in a whole `Scale`.
  The trash: `NothingIsDestroyed`, from what a deletion at each step has reserved
  (`Progress`) and that no two copy to one name (`CopiesApart`). The page cache:
  `BodiesHold`; the copy a request began from is the one a 304 is about, and while a request
  is conditional what the origin confirms is that very version. And its cap:
  `CapHolds`. The cap alone is not inductive, since nothing says that a store that returns
  has seen what the others filed: two stores may each have looked before the other's
  document was there, unless one filed last. `CapInv` therefore says of every set of stores
  still sweeping that one of them will leave the cap and, at most, a document for each
  store outside the set. The
  challenge: `AnswerIsHeard` and `ItIsOverAndTold`; a request that is about to send
  has taken the question's entry and no other can (`ClaimsApart`), and each place of a
  fetch says what it has announced and not yet withdrawn (`LeavesNothing`, `ToldOnce`).
  Assumed (`OutboundAssumption`): finitely many paths, fetchers and pages, at least one
  name to try, answers that are Solved or Abandoned.
* `LiveFeedProofs`: `GapsHold`, `OrderHolds`, `StreamsComplete`, from `FeedInv`. `StoreInv`: every number
  the store gave is in its writer's hand or on the bus. `RoomsInv`: what a room has
  sent on its present connection ascends from the number it began with, and between its replay
  and its place on the bus nothing is unaccounted for (`PhaseInv`, `Explained`).
  `StreamsInv`: every event a run wrote is out, in the stream's
  buffer, on the bus ahead of it or in the writer's hand (`Arrives`), and a stream that
  does not know its session yet keeps what may be its own. The buffer's filter is the
  recursive function `Matching`, whose facts are read off its defining equation.
  Assumed: `FeedAssumption` (positive capacities, names that are apart).
* `HostedProofs`: `BoxesHold`, `OneBoxHolds`, `NoHoleHolds`, `ChildrenHold`. `BoxesInv`: what the
  engine has is tracked, being destroyed or was abandoned (`Findable`), one run opens a
  checkout's box at a time (`OneOpens`), and a running box in use is the one the cache hands
  out (`UsedIsCached`), which holds through a miss because whoever misses holds the lock.
  `ShellInv`: the reader's
  two steps, retain and broadcast, are at most one chunk apart. `HostInv`: one restart at
  a time, and a call in flight keeps the connection it flies over. Assumed:
  `SandboxAssumption`, `HostedAssumption` (limits are numbers).
* `TranscriptProofs`: `CompactionKeepsPairs`. The head and the tail exist because a
  set of numbers that is not empty has a least one and a bounded one a greatest; both
  ends are self-contained by the choice of the cut, the marker has no calls, and
  self-contained stretches put together are self-contained (`PairSafeConcat`).
* `SessionRunsProofs`: `OneRunAtATime`, `RecordsHold`, `RequestsSendable`,
  `LastExchangeHolds`, from `RunsInv`, in four parts. `LockInv`: a lock that is held or
  waited for is in the table and has one holder, so that of all the runs of a session
  one at most writes (lemma `Alone`; a chat's first run holds no lock, but nobody else
  has its name yet). `StoreInv`: every stored transcript is `Sound` (a call is made once
  and its results follow it), and `TextInv` is what a run knows of its session at each
  place it may be. `WriterInv`: the messages of the run under way are the end of its
  session (`AtEnd`). `RecordsInv`: what was logged or sent is `Told` by the transcript, and a
  call whose tool acted is stored. None of the four properties is inductive alone: a
  request is sendable because the session it was cut from is sound, and that rests on
  nobody having written in between. `Unanswered` is a recursive function whose facts are
  read off its defining equation. Assumed: `RunsAssumption` (finitely many call ids, names
  that are apart). Two hypotheses: `~Eager`, clients name a chat once its first run is
  over (the run `chats_first_run` shows what happens otherwise), and, for the last
  exchange, a tail that is longer than the widest answer.

Only model-checked: liveness and the liveness half of the refinements, which are out of
the prover's reach. Every invariant and every action property of a passing run is a
theorem. The type invariants of modules without proofs document their state; they are not among the
runs' properties.

## 5. Not modelled, and the plan

What would come next:

1. The agent loop's checks before and after a tool opens its path, and the spend ceiling;
   the audit chain over the log.
2. The pool of browser profiles, search aggregation, the vault's file
   protocol, capabilities, allow files.
3. Theorems: that the weighted strategy gives each key its exact share of one cycle, from
   the accumulators' sum being constant.

Hazards known and without a property: a reservation larger than its bucket is charged
clamped and refunded unclamped; a minute ceiling of zero admits everything; a request
that failed after leaving is settled as if it had not; call ids are compared as sets, so
an id a provider uses twice can pass for a pair; a call refused after its tool ran may
have had its effect; a restarted daemon does not know its containers; a document the page
cache fails to remove (`cache.rs:563` drops the result) stays above the cap until a later
sweep succeeds, while in `UrlCache` a removal succeeds.

Not to be modelled: the model pool of fan-outs and the spawner (built for one request,
drawn from before any child runs, so nothing shares their state; the children are
ordinary runs), evaluation (a sequential driver), vendors' JSON and SSE, SSH and WinRM
wire protocols, HTTP parsing of search backends and page extraction, ciphers and
redaction patterns, the string analysis of the command classifier, configuration, the
command lines and the desktop shell. They are I/O or string processing without state
that these methods tell apart. They, and the tests that sit inside the source files, are
also most of the repository's lines, which is why the map covers a small share of them:
it covers the parts where several actors, failures and deadlines meet.

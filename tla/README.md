# browser-helper in TLA+

Formal models of [browser-helper](../src/README.md): a FastAPI service that lets many
agents drive one Chrome (or a fleet of workers with a Chrome each) over the DevTools
protocol. This directory holds TLA+ modules translated from `src/src`, the TLC runs that
check them on small instances, and theorems that TLAPS proves for every instance.

`PROJECT.json` is the index: components, runs, the mutated definition each property is
tested against, the source lines behind every definition (`map`), the disagreements
found (`findings`), the behaviours that are hard to test (`hazards`) and the theorems.

Contents: 1 the system and what is modelled of it, 2 how the models are built, 3 the
session registry, 4 the fleet, 5 the other components, 6 the runs, 7 fairness, 8 the proofs,
9 what is only model-checked, 10 what is not modelled, 11 observations, 12 what is left.

## 1. Inventory

One asyncio event loop runs nearly everything below `main.py`. A coroutine runs alone
between two awaits, so what can go wrong are interleavings at awaits, failures of awaited
calls, and lists or checks that are used after an await. Three parts have more: the sweep for
orphaned headless browsers is a thread, the memory store serves the worker threads of the
tools and a second process, and the workspace's database may be open in several processes.

| Component | Modules | Modelled | What makes it correct |
|---|---|---|---|
| Session registry (`session_registry.py`, its use in `main.py`) | `SessionRegistry`, `SessionSlots` | all but shutdown (`close_all`) and sessions on a Chrome of their own | the cap holds, the browser survives, no tab without an owner, the lock is released |
| Fleet coordinator (`fleet/`) | `Fleet` | all that the program calls | bounded overcommit, no lost capacity, failover moves sessions away, every allocation ends |
| CDP client (`cdp_client.py`) | `CdpClient`, `Interception`, `ClientEvents`, `CrossFrames`, `TabReads`, `Downloads` | commands and replies; Fetch; dialogs and monitoring; iframes; other tabs; files | every command gets its own answer or ends; no paused request is forgotten; what is reported of a dialog, a frame, a tab or a file is so |
| Page input and waits (`cdp_client.py`, endpoints, MCP tools) | `PageInput`, `PageWaits` | clicks, typing, forms, uploads; waits and navigation | "ok" means the control meant was touched; "seen" means it was there |
| Chrome launch and watchdog (`chrome_manager.py`, `main.py`) | `ChromeLaunch` | all but soft start and logs | one Chrome per profile, unless a scan fails or three launches meet; a dead Chrome is launched again |
| Domain throttle, navigation lock (`domain_throttle.py`, `run_op`) | `Throttle` | all but changing the interval | minimum distance per site but for what `_navigate_lock` adds, bounded wait |
| Request routing (`main.py`) | `Routing` | middleware, minting, healing step by step, several requests of one program at once, reads of a named tab, keep-warm, default client | an operation runs on the tab of its own session |
| Headless sessions (`headless_manager.py`, the sweep) | `Headless` | table, guard, sweep, restart | bounded overshoot of the limit; the sweep spares sessions; old ones are closed |
| Profiles (`profile_manager.py`) | `ProfileStore` | every operation that writes the table, two managers, crash inside `save` | a restart brings back what is listed |
| Proxy pool (`proxy_manager.py`, `proxy_rotation_manager.py`) | `ProxyPool` | breaker, checks, the stateful strategies | a sidelined proxy is not offered; round-robin is even |
| Snapshots, recordings, observing (`agent_runtime.py`, `/agent/observe`) | `AgentRuntime`, `Sightings` | tables, pins, pruning, replay; observations, diffs, pages | a pinned snapshot stays; what is told of a page is true of it |
| Agent acts, flows, tasks (`main.py`) | `AgentActs`, `AgentFlows` | `agent_act`; flows, expectations, search, visual comparison, forms | nothing but the named control is touched; errands report what their steps did |
| WebSocket clients (`main.py`) | `StateBroadcast` | the set, its handlers, the broadcast | success is told as success; who went is forgotten |
| MCP tool session (`mcp_server/tools.py`) | `McpSession`, `HandOff` | the session of the tools; bot checks, hand-offs, emulation | no session is left behind, a swap is announced, the status is true |
| Cloud pool (`browser_providers/session_pool.py`) | `CloudPool` | get, release, scale, expiry | what runs is in the table |
| Memory (`mcp_server/memory/`) | `MemoryStore` | transactions, lock, second process, recall | what is answered is committed |
| Session capture (`session_manager.py`, bundles, auth profiles) | `SavedSessions` | capture, restore, clone, import | a login stays whole |
| Catalogues (`environment_store.py`, `workflow_catalog.py`) | `Catalogs` | all that writes | what was answered is kept |
| Run records (`run_timeline.py`, log, `artifact_store.py`) | `Timeline` | rings, advice, artifacts | both rings agree; nothing that acted is "safe" to repeat |
| Enterprise workspace (`enterprise_workspace.py`) | `Workspace` | leases, takeovers, evaluations | bounded overshoot of quotas; approvals and verdicts fit |
| Behaviour simulation (`behavioral_engine.py`, `behavioral_typing.py`) | `HumanInput` | clicking and typing between pauses | keys land in their field |
| Cloud provider clients, settings, fingerprints, MCP registry, Playwright, monitoring | - | not (section 10) | - |

How they interact: a request goes through `Routing` to a session of `SessionRegistry` (or to
the default client) and, when it navigates, through `Throttle`; its operation is a sequence of
commands of `CdpClient`, described by `PageInput`, `PageWaits`, `CrossFrames`, `TabReads` or
`Downloads` according to what it does to the page; it ends with `StateBroadcast` and an entry
in `Timeline`. The agent endpoints (`AgentRuntime`, `AgentActs`, `AgentFlows`, `Sightings`) and
the MCP server (`McpSession`, `HandOff`) are callers of the same operations. The fleet calls
workers, each of which is one such service. What a component sees of another one is a
nondeterministic environment: a session may end, a command fail, a tab close at any point at
which the other component could do that.

## 2. How the models are built

**Steps.** An action is a stretch of code from the return of an awaited call to the next
await; in a thread or a second process, one system call or one SQL statement. What a coroutine
remembers over an await is a variable or a field of its record: lists that were computed
before, ids that were looked up, the caller's baseline.

**Data** is reduced to what a property tells apart: a tab, a session or a proxy is a model
value or a number, a page is its document and URL number, a text is whether it is there. An id
that Chrome or `uuid` makes may be used again in the model once nothing refers to it. Deadlines
may pass at any moment; only `Throttle` measures time.

**History** variables are named as such in their declarations (`told`, `churned`, `mixed`,
`others`, ...): no guard of the code's reads them. They let a property say "unless another
request acted meanwhile", that is, they name the exact exceptions which the code allows. Each
exception was found by TLC in the property without it.

**Composition.** `MCSessionRegistry` and `MCFleet` add symmetry to one module each.
`MCProgress` (7 components) and `MCComponents` (22) put components side by side that share no
variable: `part` (`MCOnePart`) names the one that runs in a behaviour, `Stays` keeps the others at their
initial state, so the state space is a sum and not a product. Each component runs against every
interleaving of its own requests, tasks and faults; the combination of two of them is not
explored by these runs. Interactions that matter are in one module: closes, sweeps, creations and requests in `SessionRegistry`,
sessions, the shared client and the keep-warm loop in `Routing`, storage, pool, checker and failover in `Fleet`.

**Assumptions.** Every module names what it assumes of its constants (`...Assumption`:
distinct "none" values, positive limits, finite sets where something is counted). TLC evaluates
them in every run, the proofs cite them. No module declares a RECURSIVE operator: what the
list comprehensions of the code keep is `Those(list, set)` of `Lists.tla`, a recursive function,
about which `ListProofs` has the lemmas.

**Bounds.** Constants commented "bound:" exist only to make instances finite. Where a bound
limits a model more than that, its comment says how: `Overlap` (operations in progress when
another one starts), `Rivals` (kinds of a second request in `PageInput`), `Brief` (a request of
short texts in `HumanInput`), `FrameActors`, `Scanners` (callers that also act, or also scan),
`Aging` (sessions that may grow old in `Headless`). In `Routing`: `PerClient` (requests a program
has under way), `Overlapping` (their kinds), `MaxSeats` (sessions minted for a program),
`SharedTabs` and `Hosting` (the tabs the default client is attached to, and those a navigation
may roam to).

## 3. The session registry

`SessionRegistry.tla` is `session_registry.py` with the part of `main.py` that resolves a
request's session, heals its tab and runs the operation.

`pc[s]` is where the life of session `s` has got to: `scan`, `sweep`, `evict`, `open`,
`connect`, `undo` are the awaits of `create()` under the lock, `count`, `anchor`, `mint`,
`close` those of `destroy()` after the pop, `live` is membership of `_sessions`. `op[s]` and
`rpc` do the same for the request and for the reaper. `destroy()` called by a client, by the
eviction inside `create()` and by the reaper is the same set of actions; the caller waits
(`victim`, `reaping`). The orphans a sweep listed (`todo`), the tabs an anchor search may not
adopt (`skip`), the expired sessions (`stale`) and the tab a heal has opened (`newTab`) are what
is remembered over awaits.

A page is "at about:blank" or not; `age` is `now - last_seen`, saturating past every threshold;
one HTTP call is one step, done when its answer is consumed, except that a tab opened by a
create or a heal exists while its WebSocket is still connecting. Faults are a constant: failing
list, open, close and connect requests, and a person who closes a tab. Without any of them
requests still fail when Chrome is gone.

`SessionSlots` is the abstract specification: a limited set of slots that are taken and freed.
`ImplementsSlots` is the refinement with `open <- Live`.

**What the violations show.** Three runs are disagreements between comments and code, all at
awaits that no lock covers. (1) `destroy()` counts tabs at line 558 and closes at 564: two
closes that overlap both see a spare tab, and headed Chrome exits, in spite of "CRITICAL: never
close the LAST page tab"; the watchdog starts it again (`Relaunch`). (2) `cleanup()` sweeps
outside the lock, so a tab opened by a `create()` that has not registered it yet counts as an
orphan, and is closed after the session is live; the next request heals it. (3) The list of
expired sessions is made once; a session used meanwhile is destroyed all the same. Apart from
these: a request whose heal overlaps the destroy of its session leaves a tab that no session
owns (`main.py:2001`); and the docstring of `_evict_lru` says that an evicted session's id stays
valid, while `destroy()` pops it, so `get()` no longer finds it.

## 4. The fleet coordinator

`Fleet.tla` covers `fleet/`: the storage's operations, the pool's `allocate`, the health
checker and the failover manager.

Storage calls never yield (sqlite on the loop's thread, behind a lock that is never contended
for that reason), so a task gives way only while it waits for a worker: `at[p]` is `launch` or
`probe` then. Between two answers a failover works through sessions and a check through nodes;
these are several actions (`transfer`, `check`), and while a task is in one of them no other
task moves (`LoopFree`). The poll loop awaits the failover its own hook calls, as in the code.

| State | Code |
|---|---|
| `reg`, `healthy`, `load` | `fleet_nodes`: row and `deregistered`, `healthy`, `active_sessions` |
| `status`, `place` | `fleet_sessions`: `status`, `node_id` |
| `queue` | `fleet_queue` |
| `last`, `cooling` | the checker's `_last_healthy`, nodes in `_cooldown_until` |
| `sid`, `target`, `failed`, `from`, `rest`, `unprobed` | locals of `allocate`, `failover`, `check_all` and the poll loop |

`Restart` ends the process at any point: the database stays, tasks and the checker's memory go.
The two launch paths are one request; ties of `least_loaded` and the order of listings are
nondeterministic; entries of the queue expire one by one at times of their own. Node affinity,
capacity changes and the deletion of rows are left out: nothing in the program calls the last
two, and affinity is never passed by the API. `run-batch` uses only the session registry. A
crash inside one stretch of storage calls is not modelled.

**What the runs show.** A worker can exceed its capacity, but only by the tasks that passed the
check together, and this does not add up over rounds (`OvercommitBounded`). The counters may
count too little, never too much (`NoLostCapacity`, violated the other way by
`fleet_counters`): a session released while its failover waits for the launch is made active
again by `reassign_session`, which counts only rows it finds active. Nothing calls
`dequeue_ready`, so a queued request only ever expires (`fleet_queue`), although the module's
docstring and the design name a drainer. `EveryTaskEnds` is why `allocate()` needs
`failed_nodes`: with a poller that marks nodes healthy again it would otherwise go round for
ever, and the mutated model does.

## 5. The other components

For each module: what its state stands for, what its actions are, and the property that says
what makes it correct. Exceptions in the properties are spelled out in the modules' comments.

**`CdpClient`** - `ws`, `connected`, `messageId`, `pending` are the client's fields; every socket
ever opened keeps its unread messages (`inbox`), Chrome's unanswered commands (`sent`) and its
listener task, because a reconnect replaces `pending` and starts ids again at 1 while the old
ones live on. The listener that acknowledges a screencast frame is itself a task that waits.
`ClientHolds`: a reply read from the socket of today ends the very command it answers
(`AnswersMatch`), and a client that says it is connected has a reader
(`ConnectedHasListener`). `EveryCommandEnds`.

**`Interception`** - mocks and blocks, the client's `_fetch_enabled` beside Chrome's own state of
the domain, each paused request with its event and its handler task, which answers or cannot: a
fulfil that is refused or times out is swallowed, a mock status that is no number ends the task,
and the request stays paused (`HandlingFails`, `refused`). `HandledRequestEnds`: no request waits
for ever but for two reasons, its event came while there were no mocks, whatever is blocked
(`unanswered`, section 11), or its answer failed.

**`ClientEvents`** - what Chrome sends (`wire`), what the client believes (`client`), which
domains are on (`domains`) and which flags are older than the socket or document (`stale`).
`BeliefsHold`: with nothing under way, the dialog believed open shows, and what is said to be
monitored is reported, unless the flag is stale or its command failed.

**`CrossFrames`** - the page's iframes, `_oopif_sessions` by address (`sids`), the numbers of the
last analysis (`srcs`), what each caller was shown (`listing`). `FramesHold`: while the page
stands, what was shown under a number was read there, and a fill or click reached it.

**`TabReads`** - `scan_all_tabs` in its batches and `deep_scan_tab`, which moves the client.
`ReadsTrue`: a scan answers for every tab with what the tab showed during the scan.

**`Downloads`** - the browser-wide download directory (`target`), the callers' directories, the
files in them. `DownloadsWhole`: an artifact arrived in its caller's directory while it waited,
from itself, a page or a caller that was at work meanwhile; no directory outlives its request.

**`PageInput`** - the page (`spotOf`, `disabled`, `focus`) changes between the script that finds a
control and the command that uses it; a job records what it found and what it did. Eighteen
kinds of operation, with the MCP tools' second try and the visual confirmation. `ReportsHold`:
"ok" means that the control meant was touched, a refusal that nothing was, a confirmation
compares with the caller's own analysis, with the exceptions named there.

**`PageWaits`** - the document, its URL and readiness; waits poll inside it and die with it, are
frozen by a dialog, and end with their own or the command's deadline. `AnswersSeen`: what is
answered "seen" held at some moment of the wait. `ToolTellsTruth`: a tool does not report a
failed wait as success (two do, and are named). `WaitsEnd`.

**`ChromeLaunch`** - the flag, each launcher's place in `launch()` with what its scan has seen,
the processes, the profile's SingletonLock, the manager's handle and saved pid, the supervisor
tasks and the watchdog's ticks. `Stop` sends SIGTERM, and the process ends in its own time
(`ending`, `ChromeEnds`); until then it holds the profile (`OnProfile`). `ChromeHolds`: one Chrome
serves the profile (`OneBrowser`), and the handle of a running Chrome is let go of only together
with its port (`HandleKept`). `OneBrowser` names what lets a second one by (`slipped`): a scan
that missed a living Chrome, because `ps` failed or took too long, or three launches past the
flag together, of which the second removes the lock of the first one's Chrome before the third
starts. This is less than the comments at `chrome_manager.py:86-88` and 387-391 promise, and the
run `chrome_profile` shows that it is not less than the code gives (section 11).
`Relaunched`: left in peace, the watchdog brings a dead Chrome back.

**`Headless`** - table, processes, the guard with its list, the sweep with its list, a restart
that orphans processes. `HeadlessHolds`: the limit is exceeded by no more than there are
requests (`HeadlessBounded`), the sweep kills no browser of a session
(`SweepSparesHeadless`). `OutlivedCloses`.

**`Throttle`** - the throttle's FIFO lock with the sleep under it, the stamp per site, then the
navigation lock. `ThrottleHolds`: no site is let through twice within the interval
(`LetThroughSpaced`); two loads of a site start an interval apart, except that the later one may
come sooner by as long as the earlier one was queued for `_navigate_lock` (`LoadsSpaced`, with
`queued` and `early` to measure it); and nobody waits in the throttle longer than one interval for
each navigation there is (`WaitBounded`).

**`Routing`** - `seat` is the registry with the tab each session names and the one its client is
attached to, `shared` the default client, `jar` the id a program sends, `ask` the requests between
their awaits, several of one program at once. A heal is the steps of `_ensure_browser`: `launch`,
`attach`, `reopen`, `settle`; the session has the new tab before its client is attached to it, so
heals that overlap, or a connect that fails halfway, leave the two on different tabs. `astray` notes
this, and a navigation that roamed: a heal that begins while none is under way clears it, and an
attach clears all of it but a crossing. Tabs
close and sessions end at any moment. `RunsAtHome`: a session's operation runs on a tab opened for
that session unless a navigation roamed, and on the very tab it names unless heals crossed or one
went on halfway; a read of a named tab runs on that tab unless its client moved; the default client
runs only what it may; nobody holds the session of another.

**`ProfileStore`** - the manager's table, the file, and the second manager that
`POST /session/new` makes for itself. `ListedSurvives`: a restart brings back what is listed
unless the last save failed.

**`ProxyPool`** - entries in order, flags, pauses, checks under way, sticky map, the shared
index. `SidelinedStaysOut`: a proxy at the failure threshold is not offered until a success.
`RoundRobinEven`: undisturbed, every available proxy has its turn before one has a second.

**`AgentRuntime`** - both snapshot tables with pins and age, acts under way, recordings and
replays. `PinnedKept`: a pinned snapshot stays until its act ends, unless it is too old.
`ReplayTerminates`, except for the replay of the recording that is active.

**`Sightings`** - `observe` from the tab to the snapshot, the evidence and the comparison, and
the reading of its pages, while others push snapshots out. `SightsTrue`: what is told of a page
is true of it, "nothing changed" of two that are equal, "missing" of what was dropped.

**`AgentActs`** - a reference, the snapshot it comes from, the look before the act, the click and
the verdict. `ActsHold`: the control the snapshot shows is touched and no other, a refusal
touched nothing, nothing is clicked twice unasked, a met expectation was not met before.

**`AgentFlows`** - flows, templates, expectations, search, visual baselines, forms and the
micro-task, step by step. `ErrandsHold`: "ok" means no step failed, after a stop nothing runs,
pictures show their URL, blocked controls are not pressed.

**`StateBroadcast`** - the set of clients, their handlers, the walk of each operation over it.
`MisreportNeedsChurn`: an operation that succeeded is told as a failure only if a client came or
went while it was being told. `GoneForgotten`.

**`McpSession`** - the cached session, the probe, the replacement, notices. `McpHolds`: no session
is left behind unless overlapping calls displaced it (`NoneLeftBehind`), a result from another
tab is announced (`SwapAnnounced`).

**`HandOff`** - the note of a bot check, the hand-off that waits for a person, the emulation,
against what the tabs show. `StatusTrue`: `session_status` says what is so.

**`CloudPool`** - table, warm and expired sessions, calls to the provider under way.
`LostOnlyByExpiry`: what runs is in the table, but for what `_evict_expired` dropped.

**`MemoryStore`** - one connection with its open transaction, the lock, the committed rows, the
other process. A row's time was read before the lock was taken, so any time no other row has. The two
statements of a recall may see different tables: the ids the first has found are any there ever
were. `MemoryHolds`: what is answered stored is committed, what is answered failed is not, a recall
fills its limit from the rows there are and tells none twice.

**`SavedSessions`** - the browser's login as cookies and storage, the archive, the caller's
bundle. `LoginsWhole`: unless something was mixed, both parts are of one login.

**`Catalogs`** - memory and file of both stores, what was answered (`confirmed`), failed writes.
`CatalogsHold`: what was answered is kept over failures and restarts; names are unique; versions
are numbered without gaps.

**`Timeline`** - both rings, the advice, the launchpad, artifacts as content and record.
`TimelineHolds`: the rings agree; "safe to repeat" never acted; an answered artifact is there.

**`Workspace`** - leases under a quota, takeovers, evaluations, each read and then written without
a lock. `WorkspaceHolds`: a tenant is over its highest quota by less than there are operators,
recovery offers what is lost with a checkpoint, approvals are the claimant's unless overtaken,
verdicts fit their trials.

**`HumanInput`** - pauses between mouse and key events, focus, the visible field, keys down.
`KeysLand`: an answered text was sent whole, its characters and clicks land in their field unless
another request interfered, a key stays down only for a request that failed.

## 6. The runs

| Run | Asks | Instance |
|---|---|---|
| `registry_sequential` | `BrowserKept`, `NoStrayTab`, `AnchorKept`, `SweepSparesSessions`, `TypeOK`: is the browser kept, has every page tab an owner, are the anchor and the owned tabs spared by operations that do not overlap? (`SweepSparesSessions` is about the sweep's own list here; the race with a creation is `registry_sweep_race`) | 3 sessions, cap 2, one operation at a time, failing connects, a person who closes tabs; 780,000 states |
| `registry_progress` | `SessionBound`, `ImplementsSlots`: do the checks of `create()` still hold when it inserts, three awaits later? `CreateCompletes`, `ExpiredReaped`, `OrphanSwept` | 2 sessions, cap 1, two operations at a time, failing connects, no requests beside creations and closes; 145,000 states |
| `fleet_safety` | `OvercommitBounded`, `NoLostCapacity`, `FailoverMovesAway` | 2 workers of capacity 1, 2 sessions, a client, an operator and the poller, two tasks at a time; 2.1 million states |
| `fleet_progress` | `TypeOK`, `EveryTaskEnds` | 2 workers of capacity 1, 1 session, a client and the poller, a queue of 1; 66,000 states |
| `components_safety` | the fifteen safety properties of `MCComponents`, 22 components | below; 1.6 million states |
| `components_progress` | `MCProgress`: four safety properties of its own components, `EndsCome`, `ChromeRelaunched`, `LeftoversGo`, types | below; 95,000 states, with liveness |
| `chrome_profile` | `ChromeHolds`: what lets a second Chrome onto the profile? | two requests and the watchdog, two processes, a `ps` and probes that may fail; 4.3 million states |
| `registry_last_tab` (violation) | `BrowserKept` when two closes overlap | cap 2 |
| `registry_sweep_race` (violation) | `SweepSparesSessions` when the reaper overlaps a creation | cap 2 |
| `registry_stale_reap` (violation) | `ReapedWasExpired` when a request overlaps the reaper | cap 2 |
| `fleet_counters` (violation) | `CountersAgree` | as `fleet_progress`, no queue |
| `fleet_queue` (violation) | `QueueServed` | 1 worker, 2 sessions |

Some properties of the component runs are conjunctions over components: `PoolsHold`
(`LostOnlyByExpiry`; `SidelinedStaysOut` and `RoundRobinEven`), `AgentHolds` (`ActsHold`;
`ErrandsHold`), `StoresHold` (`ListedSurvives`; `MemoryHolds`; `CatalogsHold`; `TimelineHolds`;
`LoginsWhole`), `WaitsHold` (`AnswersSeen`, `ToolTellsTruth`), `PagesHold` (`FramesHold`;
`DownloadsWhole`; `ReadsTrue`), `EndsCome` (`EveryCommandEnds`, `HandledRequestEnds`,
`WaitsEnd`, `ReplayTerminates`), `LeftoversGo` (`OutlivedCloses`, `GoneForgotten`).

**Why these bounds are enough to see something.** `Overlap = 2`: two operations at a time give every pairwise race, and
an eviction adds the destroy it awaits. `MaxTabs` leaves a free tab id for everything in
progress (`Reserve`), so it never blocks a step of the code, only the start of a new operation.
`Ttl = ActiveWindow = 1` give the three classes of age the code tells apart. A cap below the
number of sessions makes evictions happen; a third session in the sequential run lets a sweep
meet a live session, a doomed one and one to come. The tab budget is 0 in the runs; a budget
below the cap is covered by the theorem `SessionsBounded`, whose bound includes it. Two workers and the coordinator as a
third host are the least with which a failover can choose, fail and fall back; two sessions on
workers of capacity 1 fill the fleet.

In the component runs every race is one of two requests, and every limit is at 1 or 2, so that
it is reached: one snapshot kept while two acts pin one, a pool of one headless session with two
users, two documents with a navigation between them, three tabs of which one is replaced, a
quota of at most 2 with three leases. The throttle has three navigations, so that one waits
behind a sleeper of another site. `PageWaits` has one wait and one request of the page: what
interferes with a wait is the page. `Routing` has one program with two requests at once on its
session, so that two heals cross, and the keep-warm loop; what else interferes are closing tabs,
ending sessions and roaming. `McpSession` has two sessions, one to lose and one to replace it with.
`Stalls` is FALSE and there are two launchers in `components_progress`, whose question is whether
Chrome comes back; `chrome_profile` has three, and a `ps` and probes that fail. What was proved
(section 8) does not depend on the sizes.

## 7. Fairness

Weak, per task or request, and always on the step that an awaited call's end or deadline forces:

- registry: every awaited call ends, because each carries a timeout (httpx 2 to 10 s, WebSocket
  `open_timeout` 10 s, CDP commands 30 s), and asyncio runs every ready task; the reaper's
  timer fires again.
- CDP: `TimeOut(t)`, the `wait_for` of `_send_command`. Nothing is assumed of Chrome.
- Interception: the reply of a setter's command, the listener and the handler tasks.
- Waits: `PollDue`, `NavigateDue`, `WatchDue`: one of the ends of a poll, a navigation or the
  network watch, all of which have a deadline.
- Headless: the guard's ticks (`GuardDue`) and the end of a close (`SessionCloses`).
- Agent: the steps of a replay. WebSockets: the end of a hello or an action on a dead
  connection, and the disconnect.
- Chrome: each launch goes on (its waits have deadlines), a process that starts comes up or
  dies, the supervisor wakes, the watchdog ticks.

Fairness conditions of `MCProgress` are gated by `part`, so that a component that does not run
owes nothing. The fleet has strong fairness per task: launches and probes time out (5 s), and
the ready queue of asyncio is first in, first out, so a task that is ready again and again
runs. It must be strong because the model blocks other tasks (`LoopFree`) while one is between
two awaits. Clients, people, pages, faults and the clock owe nothing, except that in
`ChromeRelaunched` disturbances must stop for Chrome to come back.

## 8. The proofs

47 theorems in 8 modules, checked from nothing by `tlapm`, are listed; they state every invariant
and action property that a passing run checks, but for the four of `registry_sequential` that are about
tabs (section 9). Each is about a
specification as the runs have it (`Spec`, `ThrottleSpec`, `RouteInit /\ [][RouteNext]_routeVars`,
...), for every value of the constants that the module's own assumption allows; what a theorem
assumes besides is in its ASSUME and below. All proofs have the same shape: the initial states
satisfy the invariant, one lemma or step per action preserves it (with lemmas for what several
actions do alike), the invariant implies the property, and PTL combines these. Every inductive
invariant was also checked by TLC on the instance of its run.

| Proof module | About |
|---|---|
| `ListProofs` | numbers and lists: what the others keep needing |
| `SessionRegistryProofs` | `SessionRegistry` |
| `FleetProofs` | `Fleet` |
| `PoolProofs` | throttle, MCP session, the two pools, and what is stored: profiles, logins, catalogues, run records, memory |
| `PageProofs` | input, waits, frames, other tabs |
| `ComponentsProofs` | routing, hand-offs, downloads, workspace, events, observations, human input |
| `BrowserProofs` | the CDP client, interception, Chrome, headless sessions, WebSocket clients, snapshots, acts, errands |
| `MCComponentsProofs` | the properties of the runs `components_safety` and `components_progress`, from those of the components |

| Theorem | Says, of every instance | Inductive invariant, and why the property alone is not one |
|---|---|---|
| `SessionRegistryProofs`: `TypeCorrect`, `CreationsExclude`, `RegistryInvariant`, `SessionsBounded` | `TypeOK`, `LockHeld`, `SessionBound` | `RegistryInv == TypeOK /\ LockHeld /\ SessionBound`: a creation adds to `Taken`, which is sound only if no other one is past the check; `LockHeld` says so and gives `Taken \subseteq Live \cup {lock}` |
| `RegistryImplementsSlots` | `ImplementsSlots`, step by step with `open <- Live` | rests on `RegistryInv` |
| `FleetProofs`: `TypeCorrect`, `OvercommitIsBounded` | `TypeOK`, `OvercommitBounded` | `FleetInv == TypeOK /\ BusyBound /\ OvercommitBounded`: a step lowers load and launches of a worker or keeps them (`Eased`), picks it when it has a free slot and `BusyBound` bounds the launches (`Picked`), or turns a launch into at most one session (`Answered`) |
| `CapacityIsNotLost`, `FailoverIsAway` | `NoLostCapacity`, `FailoverMovesAway` | steps are split by what happens to a host's active sessions (`Kept`, `Left`, `Came`, `Reset`); `LaunchesElsewhere`: a failover never waits for a launch on the node it empties |
| `ThrottleInvariant`, `ThrottleIsFair` | `ThrottleHolds` | `ThrottleInv`: queue and holder are distinct (`InThrottle`, `PastThrottle`), the holder's remaining sleep with the age of its site makes one interval (`SleepsInterval`), and what each has waited, with what those before it may still need, stays within its allowance (`WithinAllowance`), which is what bounds the wait; of several navigations of a site in the queue of `_navigate_lock` all but the last have waited the interval there (`LoadsPaced`) |
| `McpInvariant`, `McpKeepsItsWord` | `McpHolds` | `McpInv`: a call past the probe has a session (`HasOne`), what is registered is known (`RegisteredKnown`), and of two sessions that may come next at most one is unannounced (`OneInSight`) |
| `InputInvariant`, `AnswersAreTrue` | `ReportsHold` | `InputInv`: for each step of each kind of job what the script found still says of the page (`Progress` in `SoundJob`), and whose analysis a confirmation will compare with (`ComparesOwn`) |
| `TellsWhatHappened` | `MisreportNeedsChurn` | `TellingInv`: an undisturbed walk finds the set as large as it was (`WalkFits`) |
| `HeadlessIsSafe` | `HeadlessHolds` | `HeadlessInv`: orphans are nobody's session (`OrphansApart`), a closing session is being closed (`ClosingClosed`), the guard does not launch |
| `ClientAnswersMatch` | `ClientHolds` | `ClientInv`: the socket of today holds only messages with ids taken since it was opened, for which nobody but their sender waits (`RepliesOfToday`), and who waits by the table of today waits on that socket (`WaitersOfToday`) |
| `HandleStays` | `HandleKept` | types suffice: the supervisor compares the handle before it clears it |
| `OneChrome` | `ChromeHolds` | `OneChromeInv`: a process coming up is waited for (`StartingWatched`), and unless something slipped, at most two launches search (`FewSearch`), of which beside a living Chrome at most one is blind (`OneBlind`), the lock lies there when a second process is about to come up (`LockLies`), and one process serves (`OneServes`) |
| `RequestsRunAtHome` | `RunsAtHome` | `RouteInv`: a client that is not astray is on the tab its session names, and on one of the session's own unless roamed (`AtHome`), each request is sound for its place and the step of its heal (`AskSound`), the tab a heal is about to attach to is one the session has had (`SeatsKnown`), without a crossing one heal is under way per session (`OneHeals`), ids are with their owner (`OwnersOnly`), tabs are apart (`TabsApart`), the loop has one session (`WarmerHasOne`) |
| `StatusIsTrue` | `StatusTrue` | `HandInv`: what is owed is noted, the hand-off named is one that waits (`HandOffNamed`), and emulation whose note is still to be made is told apart from what is on the page (`EmulationKnown`) |
| `WorkspaceIsSound` | `WorkspaceHolds` | `WorkInv`; `QuotaKept`: active leases and the operators that have counted and not inserted are together at most `highest + Cardinality(Operators) - 1`, for the last one to insert adds one to what it has counted or more; `ClaimsRead`, `RecoverySound`, `VerdictSound` |
| `DownloadsAreWhole` | `DownloadsWhole` (in the runs a part of `PagesHold`) | `LoadInv`: two callers at work know of each other (`OverlapsNoted`) |
| `BeliefsAreTrue` | `BeliefsHold` | `EventInv`: the last news under way, or what was last heard, is the dialog that shows (`DialogTold`), a start under way has been obeyed or a stop follows it (`StartsObeyed`), and what a fresh flag says is on is on, unless a stop of it is under way (`NetTold`, `CastTold`, `NotesTold`) |
| `SightsAreTrue` | `SightsTrue` | `SightInv`: what a request has taken is what the tab showed while it looked (`Witnessed`), a snapshot it names is kept or was dropped, and how far a reader has got is what it has read (`ReadSoFar`, in `GazeSound`) |
| `KeysLandWell` | `KeysLand` | `HumanInv`: while nobody has come between (`Untouched`), the caret stands where the characters are to land and what has been typed is what the step says (`TypedSoFar`); a stroke carries whether it was swayed when it fell (`StrokesSound`), for what comes later must not unsettle it |
| `NothingIsLost` | `LostOnlyByExpiry` | `CloudInv`: types and the property; table and provider change together, one session at a time |
| `ProxiesTakeTurns` | `SidelinedStaysOut`, `RoundRobinEven` | `ProxyInv`: the turns given out since the list last changed stand before the index, round the list (`TurnsLaid`); no proxy is listed twice, and none is at once sidelined and enabled |
| `WaitsAreTold` | `AnswersSeen`, `ToolTellsTruth` | `WaitInv`: what a wait has found is what it saw (`WaitStands`), and what it is for is noted as soon as it holds while the wait lasts (`NothingMissed`) |
| `FramesAreTold` | `FramesHold` | `FrameInv`: ids and elements of frames are apart (`FramesApart`); a caller that met no change has, for each step, a frame of the page that still answers to what it noted (`WorkCalm`), also where sessions are shared by address (`CalmShared`) |
| `ReadsAreTrue` | `ReadsTrue` | `ReadInv`: per tab what was read is what it showed meanwhile, and at most `MaxConcurrent` tabs are being read (`ReaderSound`); labels are those of the sub-tabs already clicked |
| `PinnedAreKept` | `PinnedKept` | `RuntimeInv`: a snapshot has as many pins as acts that hold it (`PinsCounted`), so that the unpin of one act leaves it pinned for the others |
| `ActsAreSound` | `ActsHold` | `ActsInv`: for each step of an act what it may have touched, how often it has clicked, and what it has seen appear (`DeedSound`) |
| `ErrandsAreTold` | `ErrandsHold` | `FlowsInv`: for each kind of errand and each step the relation of what it noted to the page (`ErrandSound` with `FlowSound`, `ExpectSound`, `SearchSound`, `VisualSound`, `TaskSound`, `FormSound`) |
| `ProfilesSurvive` | `ListedSurvives` | `ProfileInv`: types and the property |
| `LoginsStayWhole` | `LoginsWhole` | `SavedInv`: while nothing is mixed, a request halfway holds one login's cookies and storage (`KeeperSound`), and the browser is whole but for one that still has its storage to set |
| `CatalogsAreSound` | `CatalogsHold` | `CatalogInv`: what is in memory is what is on the shelf unless a write failed since (`InMemory`), and both hold what was answered stored (`RecipesSound`, `FlowsSound`, versions `Numbered`) |
| `TimelineIsTrue` | `TimelineHolds` | `TimelineInv`: the k-th run kept is the k-th last recorded (`KeptRuns`, `KeptLog`), a file handed out is there or expired (`KeptFiles`) |
| `MemoryIsTrue` | `MemoryHolds` | `MemoryInv`: for each step of a call whether it holds the lock, whether its transaction is open, and what it has stored (`CallSound`); a table has no two rows of one id or time (`Table`), which orders what is recalled; a page as long as limit and hits together leaves enough besides the hits (`RecallFills`) |
| `PoolsAreSound`, `WaitsAreSound`, `PagesAreSound`, `AgentIsSound`, `StoresAreSound` | `PoolsHold`, `WaitsHold`, `PagesHold`, `AgentHolds`, `StoresHold` of the run `components_safety` | none: a behaviour of `MCComponents` is one of each component (`OneRuns`) |
| `ComponentsTyped`, `ProgressTyped` | `ComponentsTypeOK`, `ProgressTypeOK` | the invariants above with what they leave out: bounds of counters and lists (`ActLimits`, `AgentLimits`, ...), for which a list that is trimmed must be shown to fit |

**One hypothesis beyond the modules' assumptions**: `PageHasRoom` says that the controls fit on the
page, which the initial state chooses.

Bounds such as `MaxTabs`, `MaxQuota`, `Rivals` or `Overlap` are constants of the models; a
theorem holds for every value of them, not for a model without them. Of `PageInput` this means: a
request that overlaps another has none of the options but the confirmation.

Induction over data is out of reach here: the induction theorems of the library take an operator.
What the proofs need of lists is had from the least element of a set of numbers instead
(`LeastNumber`, which follows from the well-foundedness of finite sets under inclusion, and
`CountingUp`): `ThoseMembers` and its siblings say which elements `Those` keeps and in what order,
`ShowingDefined` that a function given by recursion exists.

The lemmas worth knowing: `TakenGrows` (what a creation adds), `Joined` and its siblings in
`PoolProofs` (FIFO queues without duplicates), `TrimmedFits` (a list with pinned entries fits),
`RunAdded` (what a ring keeps), `OpensFresh` (ids that nobody refers to),
`QuietStep` (a step of input that leaves the page alone), `HeadlessSizes` (cardinalities of a
table under insertion and removal), `OneToolMoves`, `MintStep` and the other step lemmas that
state what several actions of a component have in common.

## 9. What is only model-checked

- `BrowserKept`, `NoStrayTab`, `AnchorKept` and `SweepSparesSessions` of `registry_sequential`. They
  hold of operations that do not overlap, and nothing in the code keeps operations from overlapping
  (`registry_last_tab` and `registry_sweep_race` show what happens then), so a theorem would need a
  hypothesis the code does not justify.
- Liveness, in `registry_progress`, `fleet_progress` and `components_progress`: fairness and
  ENABLED are beyond the prover.
  What the safety part of those runs checks is proved.
- The five runs that expect a violation: they are counterexamples, not theorems.
- That a model's bounds are no others than the code's: a theorem says "for every `MaxSteps`", and not
  that there is none.

## 10. What is not modelled

Shutdown (`close_all`), sessions on a Chrome of their own, request cancellation (a cancelled
launch of a local browser leaves it running, `browser_providers/session_pool.py:353`), a change of the throttle's
interval, the providers' HTTP calls with costs and health checks, workspace policies and audit
records (plain inserts), settings and capability files (read and written whole), fingerprints
and stealth scripts (random values and text), the MCP tool registry (descriptions), the
Playwright backend, monitoring and hints (I/O and text), text extraction, ranking and image
comparison (reduced to their verdicts), behaviour curves (floating point).

Where a hazard of `PROJECT.json` is covered in part, its note says what no property is about. Besides,
the models contain the following, and no text of the repository claims the contrary, so there is
nothing to state. In `fleet/`: a probe answered late marks a node healthy that a
failover has just marked unhealthy (`health_checker.py:124`); a session id that exists is
refused after the remote launch, and the browser stays on the worker (`session_pool.py:242`); a
crash between the coordinator's own row and its deregistration (`session_pool.py:114`); a
deregistered node keeps its sessions' rows (`storage.py:333`); a launch answered after the
failover has listed the sessions stays on the dead node until it recovers (`failover.py:85`). In
the registry: a heal that races a destroy leaves a tab without an owner (`main.py:2001`).

## 11. Observations

Found while translating the code; the models behave like this, and the properties name it as an
exception where it touches them. They are not listed as findings because no run of its own shows
them, or because the wording of the repository leaves room.

- **CDP client.** A command of the previous socket that times out pops the same id from the new
  table (`cdp_client.py:732`); a listener's late end marks the next connection disconnected (544);
  a clean close leaves pending commands to their timeouts; the listener awaits its own frame
  acknowledgement although the comment at 483 explains why it must not.
- **Interception.** The listener starts a handler only if there are mocks (512): with blocks and no
  mocks a paused request hangs, where the docstring at 3225 has it "failed immediately". A mock whose
  fulfil fails, or whose status is no number, leaves its request paused for good (3183-3218).
  `set_request_mocks([])` switches Fetch off and leaves `_fetch_enabled` set.
- **Events.** Flags of dialogs, monitoring and recording outlive socket and document; a delayed
  automatic answer can answer the next dialog; every reader of the console starts the monitoring
  again, which empties the log.
- **Frames.** Sessions are kept by address, survive navigation and reconnects, and are shared by
  frames of the same address; a form fill counts failed frame fields as filled.
- **Downloads.** The directory is one for the browser, so overlapping downloads get each other's
  files or time out; the MCP tools look for the path one level too high (`tools.py:1215`).
- **Reading tabs.** A deep scan leaves the client on the scanned tab; its busy loop never lets a
  late panel come; inner timeouts answer "ok" with an empty text.
- **Input and waits.** `dropdown_select` and a missing selector of `type_text`, `press_key` and
  `scroll` answer "ok"; `wait_*` answer an outer "ok" on timeout; `assert_` looks one level too high
  (`tools.py:1140`); the visual baseline is shared by the requests of a client.
- **Human input.** A field outside the window is not focused and the text goes elsewhere; errors of
  mouse events are swallowed; a key stays down when its release fails.
- **Chrome.** A `ps` that fails counts as "no Chrome"; a scan that times out leaves
  `_launch_in_progress` set, which the watchdog takes for health (`main.py:1852`). Two Chromes get onto
  one profile after a `ps` that failed or timed out beside a living Chrome (`chrome_manager.py:59-63`), or
  when two launches that waited 30 s for a third both go on (396): the comments at 86-88 and 387-391
  have the scan and the flag rule that out.
- **Throttle.** The comment at `main.py:2239` has the throttle inside the navigation lock, the code
  waits before it. So two navigations of one site can start back to back when the first was queued
  behind a long one, where `domain_throttle.py:4-5` and that comment promise a distance between
  navigations; the WebSocket's `navigate` passes both by.
- **Routing.** Requests that share a session, which the docstring at `main.py:1453-1457` invites, heal
  its client each by itself: two heals that cross leave the client on another tab of the session
  than the one it names, and a heal whose second connect fails leaves the session with the new tab
  and no client on it (`main.py:1997-2003`). An operation without a header whose mint fails runs on the shared default client; a
  navigation may roam onto another's tab by its URL; the middleware prefers the header, the unused
  `_resolve_session` the cookie; `POST /session/new?profile=` answers with the old id in its header.
- **Hand-offs.** An operation resumed after its tab was replaced runs on the destroyed session's
  client and opens a tab nobody owns; a full-page screenshot leaves an override that is not listed;
  a navigation elsewhere counts as a solved bot check.
- **Headless, cloud, proxies.** Parallel launches exceed the limits; an expired cloud session is
  dropped and never closed (`session_pool.py:105`), a warm one may be handed out twice (142);
  the proxies' `load()` is never called, so a restart starts empty and the next add overwrites the file.
- **Profiles.** The second manager's profile is lost at the next save of the first
  (`main.py:2594`); `save()` truncates the file before it writes.
- **Agent.** `agent_act` resolves a reference in the newest snapshot of any session when its own is
  gone; a click whose answer is lost is told as `element_not_found`; the replay of the active
  recording appends to what it iterates over; the look of `mode="ax"` is compared with the wrong table.
- **Flows.** Error responses are objects without `get`, so some steps raise; a failed wait leaves its
  step ok; the navigation of a visual comparison may have failed unseen.
- **Broadcast.** "Set changed size during iteration" (`main.py:1615`) turns a success into a failure.
- **MCP session.** Of two overlapping calls that find the tab gone the second clears the session the
  first has just opened (`tools.py:238`); it then stays until it has been idle for its time.
- **Saved sessions, memory, catalogues.** Auth profiles restore nothing and answer `restored: True`
  (`main.py:4755`); a restore writes the loaded state back after its awaits; a forget's rollback can
  undo another call's transaction; a catalogue's failed write stays in memory and is written later.
- **Workspace.** Count and insert of a lease are apart, so processes exceed the quota together; a late
  evaluation overwrites a newer verdict.

## 12. What is left

`close_all` in `SessionRegistry`, sessions on a Chrome of their own, and two components of
`MCComponents` side by side in one behaviour: acts with frames, and observations with hand-offs, meet
on the same page in the code. Of the proofs, liveness waits for a prover of fairness.

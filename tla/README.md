# Verification of borsa

borsa is a Rust library that puts one façade, `Borsa`, in front of many market
data providers ("connectors"). A request names an instrument and a capability;
the library chooses connectors by configured priority, calls them with fallback
or in a race, merges what they return, and, for streams, keeps one long-running
supervisor per chain of providers that fails over and fails back.

This directory holds TLA+ models of that code, the TLC configurations that check
them, and TLAPS proofs. `PROJECT.json` maps every definition to the lines it
models, and lists runs, mutants, findings, hazards and theorems.

- [The system](#the-system): inventory of components
- [Modules](#modules): what models what, and how state and actions correspond
- [Runs](#runs): what TLC checks, the bounds, what it shows
- [Fairness](#fairness)
- [Proofs](#proofs)
- [Findings](#findings)
- [What is not modelled](#what-is-not-modelled) and the [plan](#plan)

Run a check with `tlc -config SupervisorChains.cfg MC_StreamSupervisor.tla`, a
proof with `tlapm StreamSupervisor_proof.tla`.

## The system

Paths are relative to the repository. "Hard" names the behaviour that a test
would hardly reach; "correct when" the properties wanted of the component.

### Streaming (`borsa/src/router/stream.rs`, `borsa/src/router/streaming/`)

**Stream entry** (`stream.rs`, `planner.rs`, `error.rs`). Groups the requested instruments
by asset kind (or kind and exchange), ranks eligible providers, derives for each
provider the symbols it may stream (`provider_allow`), spawns one supervisor per
group, waits for each group's first result, and returns a `StreamHandle` and the
receiver of one bounded channel (1024 updates). State: channels and task
handles. Hard: a group that fails after another succeeded; early returns that
leave earlier groups behind; a group that is split by primary. Correct when the
call always resolves, a failure leaves no task behind, an open stream covers the
request, each symbol starts with the provider ranked best for it, and strict
policies keep unlisted providers out.

**Supervisor** (`supervisor_sm.rs`, `controller.rs`). A pure state machine
(per-provider `ProviderState`, a scan cursor, a round, a backoff delay, a phase)
and the task that feeds it events (start succeeded or failed, session ended,
backoff tick, shutdown, consumer gone) and executes the actions it returns
(request a start, preempt sessions, schedule a tick, stop and await all).
Interacts with connectors (start attempts are spawned tasks that nobody joins),
sessions (one task
per provider that streams, a stop signal each, one queue of ends) and the
router (initial result, broadcast stop flag). Hard: every interleaving of
attempts, ends, ticks and stops; the scan's cursor arithmetic decides who is
asked. Correct when its provider states agree with the tasks around it, a start
never takes a symbol from a higher provider, preemption is justified and loses
no symbol, no idle provider with work is forgotten, a working provider is
eventually used and a stop completes.

**Sessions and gate** (`session.rs`, `filters.rs`). One task per streaming
provider: a biased `select!` over the broadcast flag, its own stop signal and
the provider's channel; updates pass the allow list and the `MonotonicGate`
(newest timestamp per symbol, reaped after a day) and are sent to the consumer's
channel. The gate is shared by a provider's successive sessions and is reset for
the session's symbols when the provider's stream ended. Hard: backpressure while
a stop arrives; what survives of the gate. Correct when a symbol's timestamps
never decrease between reconnections, no accepted update is lost to a stop, and
a reconnected feed is not silenced.

**Stream handle** (`borsa-core/src/stream.rs`). Owns a task and a one-shot stop
sender; `stop()` sends and awaits, dropping sends and aborts. The router's outer
task turns the signal, or the consumer's departure, into the broadcast flag and
awaits the supervisors. Correct when `stop()` returns with supervisors and
sessions ended, and all connector tasks end, also those that a start attempt
opens late.

### Request routing (`borsa/src/core.rs`, `borsa/src/router/*.rs`)

**Single and multi fetch** (`core.rs`, `macros.rs`, `util.rs`). Selects
connectors with the capability, in policy order; `PriorityWithFallback` tries
them in turn under per-provider timeouts, `Latency` races them and takes the
first success; an overall deadline cuts off both; errors are tagged with the
connector and collapsed (all not-found, all timed out, or a list). Hard: late
answers, cancelled futures, the order in which errors arrive.

**Routing policy** (`borsa-types/src/routing_policy.rs`). Rules for providers and
exchanges by scope (symbol, kind, exchange, global), compiled to ranks and a
`strict` flag. Pure. Hard: rules that replace one another, ties of specificity,
duplicates, unknown keys. Correct when the most specific rule wins and strict
rules exclude.

**History** (`history.rs`, `borsa-core/src/timeseries/`). Chooses a provider
interval for each connector, asks all at once or one after the other, resamples
each answer to the interval asked for, filters by adjustedness, merges first-wins
by timestamp, attributes spans of time to connectors, and brings the result to a
configured cadence. Pure algorithms over candle series, plus a fan-out with
timeouts. Hard: overlapping series that disagree in currency and adjustedness,
days on which a zone changes its offset, who is to blame. Correct when each
candle is the best ranked connector's and is attributed to it, errors say what
every attempt did, and resampling is one candle per bucket.

**Quotes, download, search, info.** Fan-outs of single calls with merging and
error reports. Hard: partial failure, several listings of one symbol. Correct
when each call is accounted for once, and a search returns the preferred listing
of each symbol, whoever answered first.

### Middleware (`borsa-middleware/`, `borsa-core/src/middleware.rs`)

**Quota** (`quota.rs`). Two counters and two start times under a mutex; a window
budget and, with `EvenSpreadHourly`, a budget per slice. Nothing runs when a
window ends: the next call resets. Hard: gaps of many windows, calls at a
boundary, slices and windows together. Correct when lazy resets are
indistinguishable from a budget that is renewed on time. The windows are fixed;
the documentation speaks of a sliding one (see [Refuted statements](#refuted-statements)).

**Blacklist** (`blacklist.rs`). A deadline under a mutex, set by rate-limit
errors; calls are refused until it passes. Hard: a late answer overwrites a
longer deadline.

**Cache** (`cache.rs`). Positive stores (single flight per key) and a negative
store for not-found answers, with lifetimes per capability. Hard: the negative
store is read before and written after the load; a dropped leader; waiters that
inherit the leader's error.

Its keys are made from a request's arguments by hand, one type per capability.
Correct when what it says of an item is true, and was said to a request for the
same thing.

**Builder and validation** (`builder.rs`, `middleware.rs`). A list of layers that
methods add, replace, tune, clear, sort, export and import; `build` validates
what custom layers require and wraps the connector. Hard: custom layers are not
sorted when they are added; the shortcuts go through JSON. Correct when known
layers are there once and in order, whatever the order of calls, and no call
loses what another has set.

### Others

Connector traits and types (declarations), mock connectors (fixtures; the
dynamic mock's streams are tasks and are modelled with the sessions), the
yfinance adapter (calls of an external client and conversions), macros.

## Modules

| module | models |
| --- | --- |
| `StartScan` | `compute_needed_starts`, as the loop it is and in closed form |
| `StreamSupervisor` | one supervisor: state machine, its task, start attempts, session ends, stop flag, consumer |
| `StreamContract` | abstract: what a supervisor promises to router and caller |
| `StreamSession` | how updates travel and how a stream is taken down: connector tasks, sessions, gates, channels, outer task, handle |
| `RoutingPolicy` | rules, ranks, strictness, unknown keys: the loop that finds a rule, and what the best rule is |
| `StreamPlan` | opening a stream: configuration, grouping, planning, early returns, the wait for all supervisors, stop |
| `CallPath` | one request through `fetch_single` and, per connector, cache, blacklist, quota and raw connector, for several callers |
| `Quota` | `should_allow_call` of the quota middleware, with the clock |
| `RateBudget` | abstract: a budget renewed by the clock |
| `LayerConfig` | configurations of the known layers, their JSON, and how it is read back |
| `LayerStack` | `ConnectorBuilder`: a list of layers, its methods, validation, `build` |
| `LayerSettings` | abstract: at most one setting for each known layer |
| `CacheStores` | calls to a connector that the builder made: keys, stores, what is answered and what goes on |
| `Places` | sets in order, sorting and filtering, without recursion |
| `Series` | algorithms on candles: buckets of local time, resampling, merge, cadence |
| `History` | one call of the history router over several connectors |
| `FanOut` | quotes, download, search and info: joined calls and their reports |
| `MC_*` | constant values for TLC; `MC_Quota`, `MC_History` and `MC_FanOut` also state what documents say and the code does not do |
| `*_proof` | theorems and proofs |

How they compose: `StreamSupervisor` extends `StartScan` and implements
`StreamContract`; `StreamPlan` extends `RoutingPolicy` and shows what
`StreamSupervisor` assumes of the plans it is given; `Quota` implements
`RateBudget`; `LayerStack` extends `LayerConfig` and implements `LayerSettings`,
and `CacheStores` extends `LayerStack` with calls to what was built; `FanOut`
extends `History`, which extends `Series`; `LayerConfig` and `Series` take sorting and
filtering from `Places`.

### StartScan

`StartScan` declares `N` and `Symbol`; providers are `0 .. N-1` in priority
order. `IsIdle`, `Covered`, `HeldBefore`, `Needed` and `HasWork` are the helper
methods of the same names in snake case. The loop of `compute_needed_starts`
walks from the scan cursor to the start index, wrapping around, and updates its
picture of the providers as it goes, so what it asks of a provider depends on
what it has just asked of the others. `Visit`, `AtStart`, `LastTurn` and
`AfterLoop` are that loop as a fold over its turns. `Scanned`, `Takes`,
`Requests`, `MarkConnecting` and `MarkSymbols` say in closed form where it ends;
the closed form is what the supervisor's handlers use and the proofs are about,
and `ClosedFormIsLoop` compares the two on all that a supervisor may come to hold.

### StreamSupervisor

The supervisor's task handles one event at a time and awaits nothing within, so
one action stands for a handler and all actions the handler returns, including
the trailing scan.

| code | model |
| --- | --- |
| `ProviderState::{Idle, IdleFromCooldown, Connecting, Active, InCooldown}` with symbols | `pstate`, `subs` |
| `start_index`, `scan_cursor`, `round_exhausted`, `backoff_ms`, `attempted_since_last_tick` | variables of the same names (`attempted`) |
| `phase`, and the task before its first event, while it awaits sessions and after | `phase` |
| `initial_notify` | `notified` |
| spawned start attempts | `starts`: the symbols of each unanswered attempt |
| `session_tasks`, each `stop_tx`, the queue of ends | `live`, `told`, `event_rx` |
| a session in `tx_out.send(u).await`, which polls nothing else | `sending`; `SessionSends`, `UpdateSent` |
| broadcast flag, consumer's receiver | `stop_watch`, `closed` |
| the flag's sender dropped with the flag down | `deserted`; `Desert` |

The connector is part of the environment: an attempt succeeds or fails, a stream
ends at any moment. For the liveness properties `Recoveries` lists
sets of providers, of which the environment makes one (`steady`) stop failing at
some moment, for good. The backoff timer may fire at any
moment: durations and jitter are left out, which allows more behaviours than the
code has. `Plans` is the set of `provider_allow` vectors the router may hand
over; all that is assumed is that the primary may stream every symbol of its
chain, as `stream.rs` arranges.

`Desert` is what happens around a supervisor when the opening call ends early: an
early return (`stream.rs:67`, `78`, `121`) or a caller who drops the future takes
the receiver and the flag's sender with it, and the supervisor, detached, sees
both, possibly in startup. A dropped handle may do the same later. `Polls` says
which sessions still get beyond the first arm of their `select!`.

`StreamContract` forgets cursors, rounds, cooldowns and timers: a stream opens
with its first session or fails with nothing open; providers join, one session
each and for symbols they may stream, and leave; once closing nobody joins.
`StreamSupervisor!Contract` instantiates it with `stage <- Stage`,
`serving <- Serving`.

### StreamSession

Each session is a program counter over the arms of its `select!`: `select`,
`send` (waiting for room), `halt` (stopping the connector), `reset` (the gate),
`notify` (reporting its end). The arms are biased, so what is polled is what
`FlagSeen`, `StopSeen` and `Receiving` say; while it waits for room nothing else
is polled. `watch` has a third value for a flag whose sender was dropped before
it was set. `sent` is a history variable, the newest timestamp forwarded. The
supervisor is reduced to what it does to sessions: set off a start attempt, spawn
a session for what the attempt brought, preempt, hear of an end, close, await.
Any start and any preemption is allowed at any time, more than the real
supervisor does. A start attempt is a detached task (`controller.rs:145`, `212`):
`attempt` and `wanted` keep it from the request (`RequestStart`) through the
connector's answer (`StartAnswered`, `StartFailed`) to the session (`Spawn`).
`AwaitAll` does not wait for it; a stream that arrives when the supervisor has
returned, or lay in `start_rx` then, is `discarded`: its handle is dropped, which
aborts the connector's task (`Discarded`). Connector tasks (`Produce`, `Block`,
`ProviderEnds`) follow the repository's dynamic mock; `Attentive` says whether a
connector heeds a stop while it waits for room, which is up to each connector.

### CallPath

All callers ask for one item; connectors are `0 .. N-1` in the order of the
policy. `verdict` is what each connector has to say of the item (it has it, it
does not, or another permanent error); it may also fail for a passing reason.
`call` says where each call is: `start`, `lookup` (the negative store was empty),
`waiting` (for another caller's load), `loading` (the key is won), `raw` (at the
connector), `handed` (told another's outcome), `storing` (before the write of a
permanent error), `done`. These are the awaits, where a timeout or the end of the
request may drop the call; what lies between two awaits is one step.

| code | model |
| --- | --- |
| `fetch_single` and the two strategies | `Fetch`, `Answer`, `Continue`, `Outcome` |
| `collapse_errors` | `Collapse` |
| `provider_call_with_timeout`, `with_request_deadline` | `Timeout`, `Deadline` |
| `cached_or_load_neg` | `ReadNegative`, then a lookup, then `AfterLoad` and `StoreNegative` |
| `try_get_with` of the positive store | `Hit`, `Wait`, `Load`, `Release`, `Resume`; external code, modelled by its contract: one load per key, outcomes shared, a dropped load is taken over by a waiter |
| `pre_call` of blacklist and quota | `CallConnector`, `Refuse` |
| `map_error` of both | `ConnectorAnswers`, `RateLimited` |

The quota may refuse any call from outside here; when it does is the subject of
`Quota`. `until` counts down to the blacklist's deadline. Three history variables
say what it should be: `promised`, the end of the longest window that the
connector has announced; `ahead`, the callers who were at the connector already
when it did; `cut`, the connectors of which one of these has since been told of a
shorter window, which overwrites the deadline.

### Quota

One step per call, since the mutex is held throughout; `now` counts clock ticks.
`Allow`, `BlockedBySlice` and `BlockedByWindow` are the three returns of
`should_allow_call`; all three include the resets at its beginning (`Reset`,
`InWindow`, `InSlice`). `TicksPerMs` separates the clock's resolution from the
millisecond in which the code computes slices and hints. `RateBudget` renews the
budgets at the tick that ends a window or slice and takes hints from the clock
alone; the mapping reads an elapsed counter as zero. `Gap` is the time between
the two readings of the clock in `new`, by which slices lie off the windows.
`MC_Quota` adds a history of the grants, to compare the fixed windows with a
sliding one.

### RoutingPolicy and StreamPlan

`AddRule` and `SetGlobal` are the builder's `providers_*` calls (a rule with an
equal selector replaces the one before); `BestByLoop` is the loop of `best_rule`,
`ProviderRank` the rank by the most specific rule. A rank is a place in a list,
`Unlisted` (the code's `usize::MAX`) or `Excluded` (`None`).

| code | model |
| --- | --- |
| `BorsaBuilder::build` and its policy | `Configure`, `ConfigureGlobal`, `Build`; `policy`, `capable` |
| `by_group`, the loop over it, the planner | `Open`, `todo`, `View`, `PlanError`, `Supervisors`, `Plan` |
| the early returns in the loop | `Refuse`: senders and receivers are dropped, nothing is aborted |
| `init_receivers`, `collapse_stream_errors` | `AllAnswered`, `Succeed`, `Fail`, `CollapsedError` |
| the call's future is dropped | `Cancel` |
| handle, outer task, consumer | `Stop`, `Leave`, `NoticeLeave`, `Join` |
| supervisors and their sessions, from outside | `task`, `answer`, `session`, `sending` |

`by_group` is a hash map, so groups are planned in any order. What the policy
answers for a group is asked once per symbol and connector and kept in `View`.

### LayerConfig, LayerStack, LayerSettings, CacheStores

A duration is a number of ticks, `TicksPerMs` to the millisecond, so that the
rounding of a detour through JSON is visible. A field that a JSON object lacks is
`None`; `Parse` gives it the default that `descriptor_from_layer` gives it, which
is not always the default of the configuration type. `LayerStack!layers` is the
builder's list; each method is an action. `Build` consumes the builder; what it
returns is the list of layers, or `Refused`. `LayerSettings` keeps a function from
the known layers to a configuration; a shortcut (`Tune`) changes the one field it
names and keeps the others as they are, without rounding, and a trip through an
exported stack changes nothing. That the builder implements it is stated, and
proved, for durations that are whole milliseconds (`WholeMilliseconds`).

`CacheStores` makes calls to what was built. A request is a capability, an
instrument and the other arguments as a record, with exactly the arguments the
trait's method has (`ArgsOf`); `Key` follows the code's key types. `reply.passed`
says which layers the call has reached. Which of moka's entries goes first is
not specified; any may go at any time (`EvictValue`, `EvictError`).

### Series, History, FanOut

Times are integers, `Day` of them to a day, `Day` divisible by the bucket sizes
that matter; a zone is its offset before and after one change. `Bucket` follows
`choose_bucket_*`: with a zone, an offset, or in UTC, with what chrono does about
local times that are skipped or repeated. A price is an amount with a currency.
`Resampled` and `Merged` are folds over candles, as the code's loops are.
`IsResampleOf` is what the properties compare with, and does not use `Bucket`: two
times belong to one bucket (`SameBucket`) if the clock on the wall (`Wall`) gives
their bucket the same local beginning (`Beginning`: a midnight, that of a Monday,
a slot of the day), and the same pass of it where that local time is repeated.
Where the beginning is skipped by the clocks (`Skipped`) the code falls back to a
day of UTC, and the property does not apply (`NoneSkipped`).

In `History` connectors are numbered in the policy's order. `Ask`, `Answer` and
`TimeOut` are one connector's task, `Deadline` cuts off the request, `Finish` is
`finalize_history_results` with all it calls: `Provided` (what
`collect_successes` resampled to the interval asked for; a function of the answer
alone, computed by `Collected` when it arrives), `Used` (order and adjustedness), `Merging`, `Blamed`,
`Attribution`, `Resolved` (the configured cadence). `result` keeps the merged
series beside the returned one, for the properties.

`FanOut` has the other router calls. `calls` are the joined futures in the order
in which they were started; each ends with a value or an error, in any order
(`Return`). `info` has two phases (`Enrich`). A download's calls are history
calls, whose insides are the module extended.

## Runs

Deadlock is checked for the routers' runs, whose calls end in a state that only
stutters. The other systems really stop: streams end, a builder is consumed, and
the bounds of the quota, session and call models end their behaviours.

| run | instance | states | shows |
| --- | --- | --- | --- |
| `supervisor_chains` | 3 providers, 2 symbols, all 16 plans, symbols symmetric | 235,094 | types; provider states match the tasks; the scan leaves no idle work in an open round; the scan's closed form is its loop; starts respect priority; preemption is for a higher provider that shares a symbol and, where plans are uniform, loses none; the contract is implemented |
| `supervisor_recovers` | 2 providers, all plans, either one recovers for good | 28,065 | startup is answered; every symbol a recovered provider may stream comes back; a recovered primary is used again; a stop completes where the consumer makes room |
| `session` | 1 provider, symbols a, b and a foreign x, timestamps 1..2, channels of 1, 3 updates, consumer keeps receiving | 754,224 | order, no accepted update lost, clean gate after a reconnection; `stop()` returns with supervisor and sessions ended; a stream that is stopped or left winds down with every connector task it opened |
| `stream_plan` | 2 connectors, policies of up to 2 entries over 4 selectors, 5 requests of up to 2 symbols, groups or a prediction | 468,034 | an open stream covers the request; primaries may stream all of theirs; the policy is obeyed; every error is true; opening ends, and so does all that a stopped or failed stream began |
| `call_path` | 2 callers (symmetric), 2 connectors, 4 vectors of verdicts, both strategies, positive store on or off, rate limits of one or two ticks at the first connector | 1,523,922 | NotFound and the stores are true, no call is orphaned or missing, a blacklisting lasts as long as announced unless a call ahead of it cuts it |
| `quota` | limit 4, window of 12 ticks in 2 slices that lie a tick off, 3 ticks per ms, clock to 40 | 2,207 | types, a fresh window refuses nobody, the abstract budget is implemented |
| `layers` | every order of builder calls: 2 caches, 1 quota and 2 durations, limits and strategies for the shortcuts, at most 1 custom layer, 1 stack written by hand; 18 requests, 2 entries | 90,498 | known layers once and in order, hits cost no budget; what the cache answers was asked for, but for the locale of searches; the builder implements independent settings |
| `routers` | 3 connectors, 3 requests, 12 configurations, 6 responses; batches of up to 3, 3 connectors of which 2 search, 4 answers, 3 errors | 96,119 | a merge is first-wins and attributed truly; errors and blame are true; resampling is by buckets of local time; every joined call is accounted for; a search returns the preferred listings |
| `startup_hangs`, `stop_blocks`, `drop_spins`, `resample_overlap` | smallest that shows it | | see [Findings](#findings) |

Bounds. Three providers are the least with a middle one, for which "higher" and
"lower" both exist and the scan wraps around; two symbols are the least for
which sessions overlap partly. The scan only compares indices and symbol sets,
so more of either repeats those cases. `MaxBackoff = 1` stops the delay from
multiplying states. A channel of one makes "full"
as frequent as it can be. Three updates suffice for one in each of the
connector's channel, the session's hand and the consumer's channel; two
timestamps for one that goes back; a symbol that the provider may not stream
exercises the filter. A gate is one provider's, and sessions of different
providers share only the consumer's channel, so one provider suffices there (the
proof is for any number).

Two policy entries are the least for a rule that hides another, replaces it or
overrides the global one; four selectors give every comparison of specificity
but that of three fields, and a list with a duplicate and an unknown key give
the rest of `build`. Two symbols are split by primary or not, and are of one
group or of two. A supervisor reconnects at most once, so that a stop finds
sessions that are first, later or absent.

Two callers are a leader and a waiter, or two loads at once where the positive
store is off; two connectors are a first choice and a fallback, and the vectors
of verdicts are those that ask for one, the other, none, and two different
errors. Both lengths of window occur at one connector, so that a longer
blacklisting is cut short where two loads run at once; the other has no rate
limits, since blacklists do not know of each other. A negative store that is off, which only removes steps, is left to the
proof. The quota's clock passes three windows, so gaps of zero, one and two
windows occur, and slices of two calls in a limit of four let slice and window
be exhausted in both orders.

In `layers` a millisecond and a second have two ticks; periods have parts of a
second, durations are whole milliseconds, as `WholeMilliseconds` asks; two entries are one of each store, or two that might be confused;
the requests differ pairwise in one argument. Known layers come in through their
`with_*` methods, as `layer()` is documented for custom ones. In the routers a
day has eight minutes (`Day = 8`); one zone goes back by half a day and another
forward by a quarter within a Monday, neither over a midnight; the six responses overlap, are empty, adjusted or not,
unordered, in another currency, or mixed within a candle; three connectors are
the least of which the middle one can be filtered out, and support different
intervals, so that each kind of plan occurs. Batches of three contain a
repetition and three orders of ends.

Three providers are not enough to see all of the scan's ring. With four, when one
before the cursor fails or ends, an idle provider beyond `start_index` that could
take its symbol is left out of the trailing scan and waits for the next tick;
`NoIdleWork` says so in its formula, which is proved for every number, and without
the part about four TLC finds this behaviour on the plan `{a,b}, {b}, {b}, {a}`.

`StartupResolves` and `EverySymbolRecovers` are claimed for two providers. With
three TLC finds a behaviour in which ticks keep falling between a slow attempt
and its failure, so that the cursor returns to the same two providers and never
reaches the healthy third; since it depends on delays that the model leaves out
it is recorded as a hazard and not as a finding.

Every property has a mutant, a plausible bug in a mapped definition that makes
TLC report the property violated; the mutated forms stand next to the originals
in the modules, marked `mutant:`.

## Fairness

- `StreamSupervisor!FairSpec`: weak fairness of each enabled event of the
  supervisor's task (a `select!` loop that the runtime polls), of the timer, of
  the answer of each start attempt (a connector's call; the code has no timeout
  of its own there, so this assumes that connectors answer), of the sessions
  noticing a stop when they poll it, and of a send that fails because the receiver
  is gone. Not assumed: that anyone stops, that a stream ends, that a start
  succeeds (only for the providers in `steady`, which the environment chooses at
  some moment or never; the properties that need it say so), or that a full
  channel ever has room (`UpdateSent`). `StopCompletes` therefore has the condition
  `ConsumerReceives`, that no session waits for room for ever, and excepts
  sessions that spin because the flag's sender is gone (finding 3).
- `StreamSession!FairSpec`: weak fairness of the outer task, the supervisor, each
  session, a connector that waits for room, and the runtime that drops a discarded
  stream. Nothing obliges providers to send or to answer a start, or the caller to
  stop. `ConsumedSpec` adds that the consumer keeps receiving;
  `stop_blocks` shows that without it `stop()` need not return.
- `StreamPlan!Fairness`: weak fairness of the call's own steps, of the outer task
  and of each supervisor's answer, wind-down and join, and of sessions that see a
  signal when they poll it; a send fails when the receiver is gone. Nothing obliges
  the consumer to make room (`Sent`): `NothingOutlivesStop` has `ConsumerReceives`
  as its condition. That a supervisor answers is `StartupResolves` of `StreamSupervisor`
  (and its exception, finding 1). Nothing obliges the caller, the consumer or the
  providers; the wait for slow supervisors has no timeout in the code.
- The other modules claim safety only.

## Proofs

TLAPS checks the following for all values of the constants allowed by the named
assumptions (`PlansAssumption`, `BoundsAssumption`, `QuotaAssumption`, ...).

**`StreamSupervisor_proof`.** Any number of providers, symbols and plans. The
inductive invariant `IInv` is `TypeOK` with: `Held` (who holds symbols is
Connecting or Active, and only symbols it is allowed), `Attempts` (a Connecting
provider has exactly one unanswered attempt, for just its symbols; others none),
`Sessions` and `ActiveIsKnown` (sessions and unhandled ends belong to Active
providers, and every Active one has one unless the consumer left) and `Starting`
(before initialization is answered nothing is Active and no round is over).
`ViewMatchesTasks` is not inductive alone: that a success finds its provider
Connecting needs `Attempts` before the supervisor opened as well as after, and
that a start never meets a live session needs `Sessions` in the closing phases
too. The scan is handled once, in lemmas about `MarkConnecting` and
`MarkSymbols`; each handler then cites them. From `IInv`: `TypeCorrect`,
`PictureIsTrue`, `StartupHasRound`, `PreemptionJustified`, `StartsByPriority` and
`Implementation` (every step is a step of `StreamContract` or leaves it
unchanged). `PreemptionSound` has an invariant of its own, `UniformInv`: where
every provider may stream every symbol, one that holds any holds all, because a
scan takes all that is uncovered and nothing is covered in part.
`StartsByPriority` is one lemma about what a round leaves behind
(`SettledRespects`), applied to the five handlers that end in one.
`NobodyIsForgotten` proves `NoIdleWork`: a provider that has work after a round had it before and was not
reached by the scan (`RoundLeaves`, by the first candidate for the symbol among those visited
earlier). For chains of up to three providers nobody is out of reach when it
matters: `CursorInv` says that a cursor away from `start_index` has a provider
in its cooldown right behind it, and `ThreeScanned` that this is the only
provider the scan could miss. `ScanIsLoop` says that the closed form these
proofs use is the loop of the code, turn by turn: after each turn the picture is
that of the closed form for the providers visited so far, the first one to take a symbol
being the only one that finds it uncovered.

**`StreamSession_proof`.** Any providers, symbols, capacities and bounds, with
and without timestamp enforcement, attentive connectors or not. `IInv` is
`TypeOK` with `Teardown` (the chain of joins: a stopped handle, a finished outer
task, a returned supervisor, joined sessions, stopped connectors), `Books`
(sessions and pending ends belong to Active providers, so a provider has one
session at a time) and `Gates` (the gate equals what is in hand, is never behind
what was sent, and is zero for a session's symbols between the end of the stream
and the next spawn). `OrderKept` needs the last part: `InOrder` speaks of the
update in hand only, and is kept because every change of a gate is matched by
one of the history. A connector task belongs to a session or to a start attempt,
never to both, which is what `StopLeavesNothing` needs of attempts: what is left
of them when `stop()` has returned is unanswered or already discarded. From
`IInv`: `TypeCorrect`, `StopLeavesNothing`, `OrderKept`, `NothingAcceptedIsLost`,
`CleanReconnect`.

**`Quota_proof`.** Any limit, window, number of slices and clock resolution. The
first part is arithmetic: division with remainder, the multiple of a duration at
or before now, and that the clock reaches the next multiple exactly when the
duration is over. `IInv` is `TypeOK`, `Aligned` and `Nested` (where slices end
together with windows, the slice and its calls lie within the window and its
calls). From it: `TypeCorrect`, `NoDrift`, `FreshWindow` and `Implementation`
(of `RateBudget`).

**`CallPath_proof`.** Any callers, connectors, verdicts, windows and cache
configuration. `IInv` is `StackInv` (what the stores hold is what the connector
says, and the negative ones hold only permanent errors) with `CallInv` (the same
of every result in a call, whether handed over, about to be stored or final; a
request that ended with NotFound has it from every connector; and `Shape`: by
priority the calls before the one under way have failed and those after it are
not made, in a race all are made, and a finished request has none left).
`StoresAreTrue` alone is not inductive, since a result is written to the
negative store, or handed to a waiter, long after it was given; `NoOrphanCall`
needs `Shape` to know that after an error there is a next call or an outcome.
From it: `TypeCorrect`, `NotFoundHolds`, `StoresHold` and `NoCallIsLeft`.
`BlacklistHolds` assumes nothing of the windows. Its invariant `Kept` says that a
deadline is the one promised unless it was cut, and that calls from outside at a
connector whose window runs are among those `ahead`: the blacklist keeps all
others away, so nobody else can learn of a shorter window.

**`StreamPlan_proof`.** Any connectors, symbols, kinds, exchanges, rules, requests
and bounds. `IInv` is `TypeOK` with `Configured` (a policy that passed `build`
names nobody unknown), `Inputs`, `Planned` (the groups still to plan and the
supervisors are apart, together cover the request, and two supervisors of one
group share no symbol), `Answers` (a starting supervisor has not answered, those
of an open stream have answered ok) and `PrimaryCoversAll`.
`PrimariesCoverAll` is the assumption `PlansAssumption` of `StreamSupervisor`:
the planner's choice is made among those that may stream the symbol.
`OpenIsComplete` needs `Planned` across the whole loop: the split by primary is
disjoint and complete because a primary is a function of the symbol, and
complete only because the early returns come first. `RefusalsTrue` is of all four
kinds of error: strict, unsupported, invalid, and those of providers.

**`CacheStores_proof`.** Any layers, configurations and requests. `Inv` says that a
store holds an entry only under the key of the request it was loaded for, one
per key, of a capability that the configuration turns on; it is kept by the
builder because nothing is stored before `build`, which consumes it. The bits of
`HistoryKey` are summed without overlap (`FlagsSeparate`), hence equal keys mean
equal arguments (`KeysSeparate`, `FoundIsAlike`), except for the language and the
region of a search, which no key has; `CacheAnswersMatch` says so.

`LayersOrdered` and `LayersAreSettings` have `BuilderInv`: the builder's list is
`Layered`, each known layer outside those it belongs outside of, hence there once. It
is inductive because `retain`, `insert` and the sort keep the other layers as they
are (`KeptIs`, `AddedIs`, `OrderedIs`, `RewrittenIs`), and what `build` makes
has the layers of the list in its order. The mapped settings depend on the
layers there are and not on their order (`SettingsAre`), so each builder method is
a step of `LayerSettings` or leaves it unchanged. A shortcut and an import keep
settings as they are only if the trip through JSON does: `LayersAreSettings` assumes
`WholeMilliseconds` of the constants.

**`Basics_proof`.** What the other modules need of data. The library's
induction theorems take an operator as a parameter, which the provers here cannot
instantiate; `LeastNatural` (a non-empty set of naturals has a least element,
from `WellFoundedInduction`) is first-order and gives the same by least
counterexample, for the set of lengths at which a statement fails
(`IntervalInduction`). `LoopFunction` says that a
recursive function over `0..n`, which is how the models write a loop, exists and
obeys its equation. `PlacesOfOrder`, `InOrderIs`, `AscendingIs`, `SortedIs` and
`SelectedIs` say what the operators of `Places` return: a permutation in order, and the
chosen elements in theirs.

**`FanOut_proof`.** The history router, the joined calls and search, for any
connectors, requests, configurations, responses, preferences and failures. Most of
it is about loops, each with what holds after so many turns: `MergedTo` for the
merge (each time once, with the candle of the first response that has it; what
is known then of currencies, `adjusted` and actions), `RunsTo` for the
attribution (every time so far lies in a run, and only in runs that name its
owner), `ResamplingIs`, `FlattenIs`, `CountJoined`. For the history call
`CallOK` is inductive: each task's recorded series is what its answer gives
(`TasksOK`), under fallback a connector is asked only after those before it have
ended without candles (`InTurn`), and a result was made when the tasks were
over (`ResultOK`). `OutcomeIsTrue` and `MergeIsAttributed` look at the end on what
tasks left long before, and need all three. For the fan-outs `FanOK` is: what
was asked (`QueryOK`; the second phase of `info` starts from the answers of the
first, `InfoOK`), what each call may have returned (`CallsOK`), and that a
report is made of the calls as they are when none is pending (`ReportOK`). From
them: `OutcomesTrue`, `MergesAttributed`, `FanTypesKept`, `CallsAccounted` and
`SearchesBest`, which needs that the loop of `Deduplicated` returns for each
symbol the least key, at the place of the symbol's first listing.

The assumptions on constants say what the types of the code say: that `None` is
no other value, that a batch, a list of preferences or an error's leaves are
sequences, that a limit is a `usize`, that a configuration has all its fields,
and that a written stack lists a known layer once, as those that `to_stack`
writes do. A stack in which one is listed twice stays outside (see the observations on layers).

Resampling. `ResampleIsByBuckets` is not true for all values of the constants: with
zones and intervals such as those of finding 4 the buckets of sorted candles go back.
`ResamplesByBuckets` says that this is the only way in which it fails: wherever
no bucket's beginning is skipped and buckets come in the order of the candles
(`InOrderOfTime`), each resampling is by buckets. That the code's `Bucket` finds
the buckets of `SameBucket`, which is stated without it, are the lemmas `BucketBegins`
and `SameBucketIs`. The loop's invariant is `GroupedUpTo`: what is finished and what is under
way are, in order, what the definition gives for each bucket so far (`GroupsUpTo`),
volumes summed by `TotalVolume`. `RegularZonesResample` replaces
the premise by one on the constants alone, `RegularZones`: a change of the clocks
brings no local date back and skips no local midnight (`DatesGoOn`; with it daily
and weekly buckets ascend and begin where the week or the day does) and begins a bucket of each number of minutes
that is asked for (`InStep`; with it those do, `MinuteBucketIs`). Responses
without a zone, with an offset or in UTC need nothing. A change in the
middle of the day and on the hour, as most are, meets both for intervals that
divide an hour; one from 02:00 back to 01:00 does not for four hours, and finding 4
is a case of that. The instance of `routers` satisfies
`RegularZones` with both of its zones, `Back` and `Forward`, and `resample_overlap` fails
`InStep`.

Only model-checked: all liveness (`StartupResolves`, `EverySymbolRecovers`,
`PrimaryRecovers`, `StopCompletes`, `StreamWindsDown`, `EverythingEnds`), which
needs fairness and ENABLED and is out of the prover's reach here.

## Findings

Each is a run that TLC ends with a counterexample to a statement of the
repository's documentation or comments; `PROJECT.json` quotes the lines.

1. `startup_hangs`: a chain whose last provider may stream none of its symbols
   never finishes a round, so initialization never reports at all.
2. `stop_blocks`: a session waiting for room in the consumer's channel polls no
   stop, so `stop()` waits for a consumer that no longer receives.
3. `drop_spins`: dropping the handle may abort the outer task before it raises
   the flag; the flag's sender then goes, and the first arm of the sessions'
   `select!` is ready at every turn and does nothing: they spin forever. An early
   return of the opening call, or its cancellation, drops the sender in the same
   way (`StreamPlan!Refuse`, `Cancel`).
4. `resample_overlap`: with an interval that does not divide a repeated hour
   (90 minutes, say), buckets of sorted candles go back, and the resampler
   returns one bucket twice and out of order.

### Refuted statements

More statements of the repository that the code does not keep. The runs above
check what does hold in their place; each statement is a
definition of its own, with a configuration beside it that makes TLC show the
counterexample (`tlc -config StopLeaves.cfg MC_StreamSession.tla`).

| configuration, module | what is said | what the code does |
| --- | --- | --- |
| `QuotaSliding`, `MC_Quota` | "a token-like quota budget over a sliding window" (`borsa-types/src/config.rs:63`, `borsa-middleware/README.md:20`) | windows are fixed; up to twice the limit passes within one window's time around the end of a window (`SlidingBudget`). What holds is `ImplementsRateBudget`. |
| `StopLeaves`, `MC_StreamSession` | "stopping the returned `StreamHandle` terminates all supervised tasks" (`borsa/src/router/stream.rs:364`) | a start attempt is a detached task; `stop()` returns while a connector may still be opening a stream (`StopTerminatesAll`). What holds is `StoppedMeansGone`, and that the late stream ends (`StreamWindsDown`). |
| `BlacklistCut`, `MC_CallPath` | "Honor the provider window when available" (`borsa-middleware/src/blacklist.rs:68-69`) | the deadline is overwritten: a call that was at the connector already and learns of a shorter window cuts a longer one short (`ProviderWindowHonoured`). What holds is `BlacklistHonoured`. |
| `HistoryWeeks`, `MC_History` | "weekly buckets (Monday start) in market local time" (`borsa-core/src/timeseries/resample.rs:405`) | where a Monday's midnight is skipped by the clocks, the start of the bucket falls back to the day of UTC of each candle, and a week falls into several buckets (`WeeksAreLocal`). A skipped midnight of any other day does the same to that day. |
| `SearchLocale`, `MC_CacheStores` | "Yahoo Finance search now supports `lang` and `region`" (`CHANGELOG.md:26`) | the key of a search has neither (`borsa-middleware/src/cache.rs:80-84`, `1422-1426`), so a cached result answers a search in another language (`SearchesAreOfTheirLocale`). |
| `LayersRounding`, `MC_CacheStores` | a shortcut "preserves existing window/strategy" (`borsa-middleware/src/builder.rs:188`, `196`, `204`), `from_stack` "is the inverse of `to_stack`" (`243`) | both go through JSON in whole milliseconds; a window of half a millisecond becomes zero (`ImplementsSettings` without `WholeMilliseconds`). |
| `QuotesDeadline`, `MC_FanOut` | partial success; "`Err` is returned only if joining tasks fails" (`borsa/src/router/quotes.rs:32-38`) | the request deadline ends the batch with one error and drops the quotes that are there (`PartialSuccessKept`). |
| `DownloadWarnings`, `MC_FanOut` | warnings are "`{symbol}: {error}` entries" (`borsa/src/router/download.rs:132-133`) | they are the errors, tagged with the connector; two alike do not say whose they are (`WarningsTellApart`). |

### Observations

Streams: an activation does not reset the backoff,
as the reset asks for `IdleFromCooldown` and a provider that activates is always
`Connecting`; initialization reports failure when the last provider
in the round fails, while another's attempt may still be in flight; the branch of
`handle_backoff_tick` that ends startup cannot be reached (`StartupHasRound`); a
lower provider whose slow start succeeds after a higher one's stays active beside
it; each provider has a gate of its own, so order across a failover is not kept;
a connector that does not heed a stop while it waits for room makes `stop()` hang
(`Attentive = FALSE`).

Requests: an internal call that waits for the load of a call from outside is
handed that call's refusal by blacklist or quota, which no check would have given
to the internal call itself; the middleware's README says that the
router blacklists a provider after a `QuotaExceeded` with a long window, and no
such code exists.

History and fan-outs: the fallback strategy stops at the first connector that
returned candles, even if these cannot be resampled; attribution spans keep the times from
before the final resampling; a mixed currency in the high or low of a candle in
the middle of a bucket goes unnoticed if another candle has the extreme;
connectors with different zones put one day into different buckets; a search
drops results without a symbol.

Layers: the comments on `with_quota` and `with_blacklist` say that the layer is
put outermost, and the sort puts it innermost of the known ones; a custom layer
is outermost when added and innermost after the next `with_*`; `from_stack`, "the
inverse of `to_stack`", drops custom layers,
keeps known layers that a stack lists twice, and reads missing fields with other
defaults than the configuration types have (a limit of 1 for 1000, no lifetimes
per capability); a window of zero divides by zero at the first call; history keys
round periods to seconds; lifetimes for streams and downloads are never read.

## What is not modelled

- Durations and jitter of the backoff: a tick may come at any time instead.
- `StreamHandle::abort` and abort-only handles: used by adapters, not by the
  router.
- Panics, poisoned mutexes, logging and tracing, conversions of provider data.
- Of the call path: connectors without the capability, which are skipped before
  any call; several keys at once, which share only blacklist and quota
  (`CacheStores` has many keys and one call at a time); connectors whose answer
  for an item changes; eviction by capacity, which is an expiry at another moment.
- The methods that macros generate per capability, one by one: they differ in the
  trait they ask for and the label of their errors.
- `estimate_step_seconds` and `merge_candles_by_priority`, which nothing in the
  workspace calls; the per-call timeouts of `HistoryCall`, which replace one
  constant by another; `fast_info`'s refusal of predictions.
- Preferences of exchanges have their ranks and their use in search (`FanOut`);
  their builder methods and serialization are left out, as is that of policies.
- The yfinance adapter (calls of an external client, conversions and a stream
  handle), declarations, macros and fixtures: they keep no state that the
  properties are about.

## Plan

What a next step would take on, in order:

1. Liveness of `CallPath` (every fetch returns, from the fairness of the callers'
   tasks and the timeouts), and an abstract specification of it: the first
   success in policy order, or any success in a race.
2. Composition: `Quota` in place of the refusal at any time in `CallPath`; the
   sessions of `StreamSession` implementing what `StreamSupervisor` assumes of
   them; `StreamSupervisor` in place of the supervisors of `StreamPlan`.
3. A gate and a consumer over several providers, with failover.

# umans-proxy: a verification project

umans-proxy (`src/src/*.rs`) is a proxy in front of one LLM provider. It
accepts OpenAI and Anthropic requests, admits them through a concurrency gate,
gives each one of several API keys, rewrites its payload, sends it upstream
with retries, pipes the answer back and records statistics. Its configuration,
its keys and its limits change while requests are running. This directory
holds TLA+ models of it, the TLC runs that check them, and proofs.

## 1. The system

| part | state | operations | talks to |
|---|---|---|---|
| gate (`gate.rs`) | semaphore, `granted`, `active`, `queued`, `throttled` | `acquire`, drop of `ActiveGuard`, `reconcile`, `bump_throttled` | both pipelines; resized by main, the refresh task, POST /api/config |
| key pool (`keypool.rs`) | entries (key, health, last error, cooldown), cursor | `acquire`, `mark_healthy`, `mark_unhealthy`, `rebuild` | pipelines; rebuilt by the key and config endpoints |
| conversations (`sessions.rs`) | LRU map fingerprint -> key index, session counter | `touch`, `track` | pipelines |
| OpenAI pipeline (`routes/chat.rs`) | one handler future per request | admission, key, retries, streaming | gate, pool, conversations, upstream, stats |
| Anthropic pipeline (`routes/messages.rs`) | one handler future per request | admission, key, one attempt, streaming | same |
| stream pipe (`routes/stream.rs`) | first-chunk flag | first, chunk, complete | pipelines, stats |
| configuration (`config.rs`, `routes/config_api.rs`, `routes/keys_api.rs`) | `ArcSwap<Config>` | load, validate, update, save | gate, pool, saver |
| saver (`persist.rs`), restart (`routes/restart.rs`) | one `Notify` permit, the file | ping, debounce, save, exit | configuration |
| usage (`usage.rs`) | usage, concurrency and effective-limit caches, one fetch guard | fetch, recompute, effective limit | the provider; gate, endpoints |
| statistics (`stats.rs`, `db.rs`) | ring of records, channel, SQLite | record, aggregate, batch flush, cleanup, migrate; every view once in Rust and once in SQL | pipelines, dashboard |
| vision handoff (`vision.rs`, `handoff_cache.rs`) | LRU + TTL cache | collect, analyse, replace | pipelines, upstream |
| catalog (`catalog.rs`, `routes/models_api.rs`) | a snapshot of the provider's models | seeded by the start, replaced by the validation endpoint, resolve | pipelines |
| payload algorithms (`payload.rs`, `schema_norm.rs`, `usage_parse.rs`) | none, or one line buffer | normalise, limit images, parse usage | pipelines |
| start-up (`main.rs`) | - | wire up, bind with retry, refresh loop | all |

The server is a tokio program on several worker threads (`main.rs:39`): handler
futures, the tasks that go on piping a streamed answer, the saver task, the
refresh task and the statistics writer interleave at every await, and between
any two atomic operations when they run on different threads. The gate uses
atomics and a tokio semaphore, the key pool and the conversation map a mutex
each, the configuration an `ArcSwap`.

What is hard here, and where a test would hardly reach:

- **Cancellation.** hyper drops a handler's future at its await when the client
  disconnects: in the gate's queue, during an upstream call, in the pause
  before a retry. The place in the queue, the permit, the guard, the
  statistics all have to survive that (`gate.rs:77`, `chat.rs:51`).
- **Read now, use later.** `acquire()` of the gate reads the queue length long
  before it raises it; `reconcile()` reads `granted` and stores it at the end;
  `ConfigStore::update()` loads and stores without a lock; a request keeps an
  index into a key list that is replaced under it.
- **Resizing under load.** Limits and key lists change while their old values
  are in use.
- **Retries.** Ten attempts, two ways to fail, different rules in the two
  pipelines for what is recorded, counted and rested.
- **Saving.** A debounce, a drain, three file operations and a process that
  exits on request: whatever stops the process, the file must be whole.
- **Caches behind caches.** Usage, concurrency and effective limit are stored
  one after the other by fetches that overlap, by callers of which only some
  size the gate; the record of a request goes to a channel and to a ring, in
  two steps, and each forgets in its own order.
- **The same thing twice.** Statistics are computed in Rust and in SQL, usage
  is read from whole answers and from chunks, images are treated differently
  in the two pipelines.

Every such place is listed under `hazards` in `PROJECT.json`, at its line, with
the properties that watch it.

What makes each part correct:

| part | correctness |
|---|---|
| gate | permits are neither lost nor made up; never more requests active than the limit; first come, first served; no free place while somebody waits; the queue is bounded; whoever waits is served |
| key pool | an unusable key is not handed out; a failed key rests, and not for ever; keys take turns; a cooldown runs down with the clock and by nothing but reports to its slot; a report touches the entry it names |
| conversation map | bounded; the least recently used go first; a conversation finds the key it was last given |
| pipelines | the place is given back on every path; each outcome is recorded once and truly; the rejection counter agrees with that; every request ends |
| configuration, saver | updates do not undo each other; the pool follows the key list; the file is whole and ends up with the last configuration |
| usage, limit | one answer serves all who wait; a report never gives way to an older one; the gate's limit ends up with the provider's plan |
| statistics | what was sent ends up in the table once, or was given up for a reason that can be named; both ways to compute a view agree |
| handoff cache, catalog | bounded, the least recently used go first; images that can be described reach only models that see them |
| payload algorithms | the usage does not depend on how the stream is cut; a normalised schema is no narrower, but for two forms that can be named; the newest images stay |

## 2. The modules

| module | models | uses |
|---|---|---|
| `Semaphore` | tokio's fair semaphore, as `gate.rs` uses it (external) | |
| `FifoGate` | what the gate promises: a FIFO queue in front of a number of places | |
| `Gate` | `gate.rs`, one atomic operation per step | `Semaphore`; implements `FifoGate` |
| `KeyPool` | `keypool.rs`, one operation per step | |
| `KeyUse` | requests that acquire, report and retry while the list is edited | `KeyPool` |
| `ConvMap` | `sessions.rs`, one operation per step | |
| `Pipeline` | `chat.rs`, `messages.rs`, `stream.rs` | `KeyPool`, `ConvMap`, `FifoGate` |
| `Settings` | `config.rs`, `persist.rs`, the two POST handlers that edit the configuration, `restart.rs`, the start in `main.rs` | |
| `Limits` | `usage.rs`, `routes/usage_api.rs`, the first fetch and the refresh task of `main.rs`, the override of POST /api/config | |
| `Stats` | `record()` of `stats.rs`; the writer, the cleanup and the migrations of `db.rs` | |
| `Lists` | filters and sums, as the iterators of Rust and the aggregates of SQL compute them (external) | |
| `StatViews` | the aggregations of `stats.rs` and their SQL in `db.rs` | `Lists` |
| `UsageParse` | `usage_parse.rs` | |
| `SchemaNorm` | `schema_norm.rs` | `Lists` |
| `Transforms` | the three above at work on requests and answers | `StatViews`, `UsageParse`, `SchemaNorm` |
| `HandoffCache` | `handoff_cache.rs` | |
| `Prepare` | a request from its conversation's key to the payload that goes out: `chat.rs`, `messages.rs`, `catalog.rs`, `vision.rs`, the limit on images of `payload.rs` | `ConvMap`, `HandoffCache` |
| `MC*` | instances for TLC | |
| `GateProofs`, `KeyUseProofs`, `PipelineProofs`, `SettingsProofs`, `LimitsProofs`, `StatsProofs`, `PrepareProofs`, `TransformsProofs` | theorems and their proofs, those about `Semaphore` and `KeyPool` with the modules that use them | the module they are named for |

Definitions whose comment begins with "Seeded fault", or ends with "(a seeded
fault)", are what a plausible bug would make of the definition after them. No
specification uses them; they serve to show that each property can fail
(section 4).

### Gate

`permits`, `waiters` and `handed` are the semaphore; `granted`, `active`,
`queued` and `throttled` are the atomics of the struct; `pc[r]` is where
request r is in `acquire()` or in the drop of its guard, `rpc[c]` where a call
of `reconcile()` is. Each `load`, `fetch_add`, `fetch_sub`, `store` and each
call of the semaphore is one action, so the steps of tasks on different
threads interleave as they do on hardware; `Workers` bounds how many requests
are between two awaits at once. Relaxed ordering adds nothing: each variable is
only changed by atomic read-modify-writes, except `granted`, which has one
writer unless calls overlap, which the model allows. The counters wrap at
`WordSize`. `NoLimit` is `None`. Three history variables tell what cannot be
read off the state: `stolen` (admissions on the queue-full path), `missed`
(permits a shrink did not find), `overlapped` (two `reconcile()` calls at
once). Clients may disconnect where the future awaits: only while waiting.

The refinement maps `waiters` to the queue of `FifoGate`, the owners of permits
(`handed` and the holders) to `running`, and all permits in existence to
`limit`: a step of the semaphore is a step of the FIFO queue, all steps on
counters stutter.

### KeyPool and KeyUse

An entry is its key, its health and the rest of its cooldown in units of ten
seconds (cooldowns are 10, 30 and 60 s); `last_error = None` and a long past
error both are `rest = 0`, which is all that `is_usable()` distinguishes.
Positions count from 1. Every operation runs under one mutex and is one step;
`acquire()` is `AcquireKey`, with the round-robin search as "the usable slot
with the least distance from the cursor". `KeyUse` adds the callers: a slot is
held across the upstream call and reported to by index, retries count the
entries under one lock and acquire under the next, and the list is replaced at
any moment. `fresh` and `turns` are history.

### Pipeline

`req[r]` is one handler future (or the task that pipes its stream): its place
in the handler, the preferred slot, the slot in use, the attempt, the last
status. A place is an await point, or the step before the next operation on
shared state, since handlers run in parallel; thus `touch()`, `acquire()` and
`track()` are three steps, as they take three locks. The gate is `FifoGate`,
which `Gate` was shown to implement, with a fixed limit; a full queue is a
nondeterministic outcome whenever no place is free, because the counter it is
read from is not exact (`QueuedExact` says what it is). Upstream answers are
the statuses the code distinguishes: 200, 304, 429, 500, 503, and no answer
(reported as 502). Any other 4xx is handled as 304 is by the OpenAI pipeline,
and as 500 is by the Anthropic one. OpenAI requests retry up to `MaxRetries`,
Anthropic ones do not; the differing rules for health, statistics
and rejections are the operators `Failure`, `Rested`, `Bumped`, `Retried`. A
client may disconnect at every await. The panic of the prompt cut
(`chat.rs:82`) is an action.

### Settings

`cfg` is the snapshot in the `ArcSwap`, with its number in the history `past`;
`post[p]` a POST handler between the load and the store of `update()`, the
rebuilding of the pool and the ping; `permit` the one permit of the `Notify`;
`saver` the task with its debounce, drain, snapshot and the three file
operations, each a step; `tmp` and `file` the two files. `Stop` drops all
memory at any moment, `Start` reads the file and applies the environment. Three fields are
modelled: the upstream key, the key list and the listen address. A post of the
configuration is the set of fields it gives, with their values (`Updated`).

### Limits

`usage`, `conc` and `eff` are the three statics, `guard` the holder of
`FETCH_GUARD`, `task[t]` how far a caller is: it looks at the caches (`fetch`),
queues for the guard (`wait`), asks the provider, stores the concurrency, then
the effective limit, each a step since other threads run in between; the
refresh task then reads the effective limit and sizes the gate, in two steps. The
gate's limit is one register, as `Gate` has `reconcile()` in full. `Main` is the
start until its first fetch has ended and the refresh task afterwards; an
endpoint may be called with or without `fresh`, for the usage or for the
concurrency, and its client may hang up while it waits. `plan` is what the
provider would say now, with its number; ages are counted in fractions of
five minutes. `herd`, `stored` and the floor of a task are history.

### Stats

`record()` is two steps, `Send` (`try_send`) and `Push` (the ring under its
lock), and two requests interleave them. `writer` is the loop of `StatsDB`: it
collects, hands a batch over on size or after five seconds, inserts it in one
transaction, and deletes old rows in every turn of an hour divisible by six. `Stop`
drops channel, batch and ring; `Open` runs the migrations on the file there is,
one without a list of versions included. Time is in hours; a record is its time
and its place in `log`, the history of everything sent; `gone` is the history of
everything given up. The table is a set of rows: no query depends on their
order. `UnderWay` is what was sent and is not in the table, the next to be
inserted first: what is being inserted, the batch, the channel. `Migrations` is
the list this binary has, with one version.

### StatViews, UsageParse, SchemaNorm, Transforms

Pure functions. `StatViews` has the summary, the buckets and the tokens by key
twice, as Rust folds them out of the ring and as SQL sums them; averages are pairs
of sum and count, so that no rounding is in the way. The latency of a key is 0 in
the ring (`stats.rs:257`) and a sum in SQL. `SqlBucket` has what the query of the
buckets selects, `AsRead` what the code reads out of its rows, three columns of which
are the wrong ones, and `ReadFails` when that is an error (`db.rs:246-267`). `UsageParse` reads lines out of bytes, where a line is
two halves and a newline: a chunk may end in a line and inside a character.
`SchemaNorm` is the recursion over schemas. A JSON value is its kind and its
content, and values are built in layers (`Layers`), as deep as `Nesting`; an
object is a function from `Keys`, among them the keywords the code looks at.
`Normals` is `normalize_schema()` by the depth it has left, and `Accepts` is
what a schema accepts of the `Arguments` a tool may be called with, as JSON Schema
has it for the keywords in `Keywords`; what any other keyword refuses is the
constant `Refusals`, given its value and the argument. `OnlyWidens` names the two
forms that the code narrows (section 7). `Transforms`
drives them: a request's tools are normalised, an answer comes in chunks or
whole, or breaks, its record joins the others, and the clock moves.

What is recursive in these modules is a function over an interval of numbers
(places of a sequence, bytes of a chunk, depths), none is a RECURSIVE operator:
the proofs are about the same definitions that TLC evaluates.

Three assumptions on the constants say what the code counts on, and TLC evaluates
them on the instance:
- `ProvidersAssumption`: the comment of `usage_parse.rs:7-8`, that OpenAI's
  prompt tokens include those of its cache, and that of two usage blocks of one
  answer neither has more cached and fewer created tokens than the other.
- `SchemaAssumption`: leaves are neither arrays nor objects, and null is a leaf.
- `ArgumentsAssumption`: arguments are JSON, their parts are arguments, and none is
  null.

### HandoffCache and Prepare

`lru` has the entries, the latest used first, each with its age. `Prepare`
takes requests through `touch()`, `acquire()` and `track()`, the name of the model,
the limit on images and the question whether images have to
be described; then all images are analysed at once, each with a look into
the cache, a call that succeeds or fails, and an entry. An image is its digest, or
`NoUri` where `extract_image_uri()` finds nothing though the part is called an image
(`vision.rs:70-99`, `payload.rs:97-102`): it counts for the limit and is not
collected. Slots rest, the
validation endpoint replaces the catalog and time passes between any two
steps. What follows, the upstream call, is `Pipeline`. `recency`, `used`,
`lapsed`, `slots`, `excused` and `doubled` are history; `lapsed` has the images
whose description was found expired and not renewed since.

## 3. The plan

In this order, the most important first; all modules are written.

1. `Semaphore`, `FifoGate`, `Gate`: admission, the core of the proxy.
2. `KeyPool`, `KeyUse`.
3. `ConvMap`, `Pipeline`: composition of gate, pool, map, retries, statistics.
4. `Settings`: edits, saver, restart.
5. `Limits`: the three caches, the guard, the callers that size the gate.
6. `Stats`: ring, bounded channel, batching writer, migrations.
7. `HandoffCache`, `Prepare`: the caches in front of a request, the catalog.
8. `StatViews`, `UsageParse`, `SchemaNorm`, `Transforms`: the algorithms.

What is left, by weight:

- a query that fails for the engine's reasons and falls back to the ring, and a
  failing cleanup;
- `bind_with_retry`, the usage history endpoint, the lists of models;
- the parsers of durations and of the command line, the fingerprint and the
  prompt as strings.

## 4. The runs

For every property of a passing run, `PROJECT.json` names a seeded fault that
makes the run find it violated.

| run | instance | states | shows |
|---|---|---|---|
| `gate_safety` | 4 requests (2 may disconnect), 2 threads, queue bound 1, limit 1, 2 resizes that may overlap | 993 212 | `PermitAccounting`, `ActiveWithinLimit`, `QueuedExact`, `QueueBounded`, `NoOvertaking`, `ImplementsFifoGate` |
| `gate_live` | 3 requests (1 may disconnect), limit 2, one resize to 1, 3 or the default | 30 698 | `WaitersServed` |
| `keys` | 2 tasks, 2 attempts, lists of 3 (one placeholder) and 1 | 34 048 | `FreshSlotsValid`, `RoundRobinBalanced`, `CooldownHonoured`, `KeysRecover` |
| `pipeline` | 1 OpenAI and 2 Anthropic requests of one conversation, 2 places, 2 keys or none, 2 attempts | 619 139 | `PlacesHeld`, `RecordedOnce`, `ThrottledAgrees` |
| `pipeline_live` | the same with 1 place | 134 362 | `Answered` |
| `settings` | 2 posts, 1 stop, 1 failed save, a key from the environment | 104 565 | `FileWhole`, `SavedWhenQuiet`, `PoolAgrees`, `AbsentFieldsKept`, `ChangesSaved` |
| `limits` | the refresh task, 1 endpoint called again and again, 1 post of an override, 2 plans, 1 change, 1 failure, a time to live of 2 | 327 368 | `OneAnswerServesAll`, `NoReturnToOldReport`, `TwiceTtlAtMost`, `GateFollowsPlan` |
| `stats` | 2 requests at a time, 3 records, ring of 2, channel of 1, batches of 2, retention of 1 hour, cleanup every 2, 1 stop, 1 failed flush, no file or an old one | 599 342 | `TypeOK`, `NothingElseLost`, `RingHoldsLatest`, `ViewsAgree`, `RowsExpire`, `EverySentSettles` |
| `prepare` | 2 tasks, one of them Anthropic; 4 requests of 3 conversations with a map of 2; or one request with three images and one with one, a cache of 2 and 1 tick; or 2 requests with 3 images, one more than is let through and one that cannot be read, and 1 new catalog | 5 258 404 | `RecentKept`, `Affinity`, `ImagesHandled`, `CacheKeepsRecent` |
| `transforms` | answers of up to 3 lines cut anywhere, 3 records over 3 instants, 638 lists of tools | 22 205 | `UsageWhole`, `HitRateAtMostOne`, `ViewsAlike`, `BucketsAlike`, `BucketsAddUp`, `NeverNarrower` |
| `gate_wrap`, `limits_override` | small | | one disagreement each (section 7) |

Why the bounds are enough:

- *Gate.* The queue-full path needs one request in service, one in the queue
  and a third at the door; overshooting needs a fourth and two threads. A
  grow hands over to several waiters, a shrink finds permits free or in use,
  and two resizes overlap in every order. `MaxBumps` bounds only
  `throttled`, which nothing reads. `WordSize = 16` is larger than any value a
  counter can differ from zero by, so it wraps exactly where 2^64 does.
- *Keys.* A list with a placeholder between two keys and a shorter list
  exercise skipping, wrapping and indices out of range; two tasks suffice for a
  report to cross an acquisition or an edit. `rest` runs through every tick.
- *Pipeline.* Three requests on two places queue and are refused; one of each
  kind plus a second Anthropic one lets every pair of paths interleave; two
  attempts distinguish first, last and retried. The two Anthropic requests are
  symmetric. Time passes in one step of a minute (`Wait`); `KeyUse` has every tick.
- *Settings.* Two posts overlap in `update()`, with the saver in any of its
  phases; one stop falls into each step of a save. A second stop would meet
  the same states as the first, since memory is gone.
- *Limits.* The endpoint and the refresh task overlap in every order, and the
  post reads between any two of their steps. One change of plan tells old
  reports from new ones, one failure falls into each place a fetch can fail at.
  The bound is `MaxChanges` and `MaxFails`; ages stop at twice the time to
  live, beyond which nothing looks.
- *Stats.* Two requests at once overtake each other between channel and ring; a
  channel of one is full at the second record, a ring of two at the third, a
  batch of two fills by size and by time. The hours reach from one cleanup over
  the next one to the hour after it, so that a row outlives the one and not the other.
  `MaxLog`, `MaxStops`, `MaxFails` and `MaxTime` bound the rest.
- *Prepare.* Three conversations on a map of two evict, four requests let one
  come back after its eviction, before and after the two others; three images
  of one request and one of another on a cache of two do the same there, with a
  step of the clock in between; both requests ask for the model that cannot see and
  share one image, so that one finds what the other is having described. Of the images
  one is in the system prompt and two are in tool results. Where the limit is at stake
  all three are counted and the middle one cannot be read, one model sees and the other
  does or does not by catalog, and the catalog changes once between any two steps. The
  three kinds of load are separate initial states since map, cache and limit have nothing
  in common; `load` has the bounds.
- *Transforms.* Two lines show a merge, three a merge that must not fall back; one
  stream per history, as streams share nothing. Three instants make a window
  with an inside, an edge and an outside, and windows that begin at a multiple
  of the bucket and others; some records have a time to the first token and some none,
  so that the rows of SQL can and cannot be read. The schemas hold every keyword the
  code rewrites, alternatives of one and two, one inside another, objects closed to
  other properties beside alternatives with properties of their own, constants,
  negations and items, and all of them once more under a property. 560 of the
  638 meet `OnlyWidens`; of the others 14 are really narrowed.

Fairness, and why the code justifies it:

- *Gate.* A task that runs on a worker gets to its next await
  (WF on `SyncStep`); a woken or finishing task gets a worker, however often
  others take it first, as tokio's run queues are FIFO (SF on `Wake`,
  `DropGuard`); requests end since the upstream client has a timeout. No
  request has to arrive, no limit to change, no client to leave.
- *Keys.* Time passes (WF on `Wait`). No request has to do anything.
- *Pipeline.* A runnable handler runs (WF on `Handle`), and what it awaits
  happens or times out (WF on `Answer`): the timeout of the client in
  `upstream.rs` covers the body too.
- *Settings.* The saver and the handlers are scheduled, timers fire, and a
  supervisor starts a process that exits. Posts and stops are finite in number,
  so the saver's drain, which has no bound of its own, ends.
- *Limits.* Tasks are scheduled, and the provider answers or the client's
  timeout does (WF on `FetchStep`); tokio's mutex is handed over in turn, so
  that who waits gets it (SF on `Lock`); the clock moves whatever requests
  come (SF on `Tick`). No plan has to change.
- *Stats.* `select!` picks at random among what is ready, so a branch that is
  ready again and again is taken in the end (SF on `Recv`); the timer fires and
  transactions return (WF on `Timeout`, `Flush`, `Cleanup`).

`CHECK_DEADLOCK FALSE` is set where requests, posts and records come to an end
and the system then really stops (gate, pipeline, settings, prepare,
transforms). A key pool never stops, as its tasks handle request after request; nor
do the clock and the endpoint of `limits` and the writer of `stats`.

## 5. The proofs

TLAPS checks every leaf. Nothing is assumed but the named `ASSUME`s on the
constants, which TLC evaluates in the runs.

**Gate** (`GateProofs`): for any finite set of requests, any
limits, any number of resizes.
- `StateCorrect`: `StateInv`, that is `TypeOK` and `SemLink`. The semaphore's
  queue holds every waiting request once, the queue and the hands together
  hold exactly the requests at `waiting`, and no permit is available while
  somebody waits. The link is needed because `Wake` and `Disconnect` act on a
  request by its `pc` and the semaphore on it by its queue.
- `TypeCorrect`: `TypeOK`; counters stay in their word.
- `PermitsAccounted`: `PermitAccounting`. It is not inductive: in the middle
  of a resize permits and limit disagree. `Accounting` adds that while exactly
  one call of `reconcile()` is under way the number of permits is what it has
  reached so far (`Reached`: the new limit less what is still to be added, or
  plus what is still to be forgotten). The first part of the module has the
  cardinalities: what each semaphore operation does to the number of permits and owners.
- `QueuedRebuilt`, `QueueIsBounded`, `ActiveBounded`: `QueuedExact`,
  `QueueBounded`, `ActiveWithinLimit`. The counters are rebuilt from the
  places of the requests (`CountInv`), modulo the word; `StolenInv` says who may
  have been admitted without being counted in. `CountsKept` is the invariant,
  with one lemma for each action that touches a counter.
- `Refinement`: `ImplementsFifoGate`. Every action of the gate is shown to be
  one step of `FifoGate` or to leave its variables alone (`FifoStep`).
- `NoneOvertaken`: `NoOvertaking`, from that step: what a step of `FifoGate`
  may take from the queue is its head, or whoever leaves.

**Keys** (`KeyUseProofs`): for any keys, lists, tasks and
attempts. `IInv` is the pool's type, the type of `turns` and `CallsOK`: a fresh
call's index is a slot of the present list with that call's, non-empty, key.
From it `TypeCorrect`, `FreshSlots`, and the action properties
`CooldownsHonoured` (`CooldownHonoured`: what each operation leaves of every
cooldown) and `ReportsLocal`. `RoundRobin` (`RoundRobinBalanced`)
needs more (`TurnsOrdered`): counted from the cursor, no slot that has had its
turn comes before a usable one that has not.

**Pipelines** (`PipelineProofs`): for any number of requests, keys,
conversations, places and attempts. `PipelineInv` has four parts.
- `PoolOK`, `ConvOK`: pool and map are typed.
- `ReqsOK`: for each request its place, its last status and its log fit
  together (`Fits`): nothing is recorded before the handler is about to return, then
  exactly what the client is told, and a retry is never in its last attempt; and
  `throttled` is the number of requests that count as rejected (`Counts`). A
  step of one request changes that set by one element or not at all
  (`ReqStep`).
- `GateInv`: the gate's queue and places are well formed (`GateOK`), and the
  gate knows exactly the handlers and the queued requests (`Placed`).

From these follow `TypeCorrect`, `OutcomesRecorded` (`RecordedOnce`), `RejectionsCounted`
(`ThrottledAgrees`) and `PlacesKept` (`PlacesHeld`). The proof goes action by
action; each is one lemma on the requests and one on the gate.

**Settings** (`SettingsProofs`): for any posts, keys, updates and values of the
environment, any number of stops and failed saves. `IInv` has four parts, and
`DownInv` (nothing runs while the process is down) is proved beside it.
- `StateInv`: types, and every configuration bears the number of one in `past`.
- `WholeInv`: what is in the file was in force. With a key in the environment
  this needs an argument: what a start loads is not what the file has, yet
  it cannot be saved before a post stored something, since only a post pings.
- `NoneLostInv`: while the file is behind, there is a ping, a post that owes one,
  or the saver is at work; and if the saver works on an old snapshot, one of
  the first two.
- `AgreeInv`: while posts have not overlapped, one at most is under way, it
  edits what is in force, and the pool lags behind only between its store and
  its rebuilding.

From these follow `TypeCorrect`, `FileIsWhole` (`FileWhole`), `NothingUnsaved`
(`SavedWhenQuiet`), `PoolFollows` (`PoolAgrees`) and `UpdatesAreLocal`
(`AbsentFieldsKept`).

**Limits** (`LimitsProofs`): for any callers, plans, time to live, changes and
failures. `TaskInv` and `OrderInv` order the reports: those in the hands of
tasks and in the concurrency cache are no newer than the one in the usage
cache, and no older than what was there when the task began. `GuardInv`: only
the holder of the guard asks. `HerdInv`: once one caller has been answered,
the report is as young as can be until the clock moves, and nobody who could
take it asks. `AgeInv`: what the concurrency cache holds was young when it
came there. From these `TypeCorrect`, `OneAnswer` (`OneAnswerServesAll`),
`NoneOlder` (`NoReturnToOldReport`) and `TwiceTtl` (`TwiceTtlAtMost`).

**Statistics** (`StatsProofs`): for any number of requests, records, stops and
failed flushes, any size of ring, channel and batch, any retention and period.
`IInv` has five parts.
- `StateOK`: types, what the writer holds in each of its places, and the room
  that the requests under way leave in the log.
- `ContentOK`: a record under way, and a row, is the one the log has at its number.
- `NothingElseLost` is inductive with these two. Receiving, handing over
  and flushing move records within `UnderWay` or from its front to the table, so
  its order alone says that no row is inserted twice.
- `RingOK`: each record is pushed once (`PushedOnce`); at most one record of
  every other request comes into the ring after a record that was sent later
  (`FewOvertake`); and what has left the ring is older than the last
  `MaxRecords` less those (`OldLeave`). When the ring drops its head, every
  position behind it holds a newer number or one that the head overtook,
  of which there are at most as many as other requests: counting them bounds the
  head's number.
- `ExpiryOK`: every hour for a cleanup that the server lived through had one,
  and no row inserted before it was too old then.

From these follow `TypeCorrect` (`TypeOK`), `RecordsKept` (`NothingElseLost`),
`LatestInRing` (`RingHoldsLatest`), `ViewsMatch` (`ViewsAgree`: nothing has left
the ring, and every record since the start is in both) and `RowsGo`
(`RowsExpire`: among `Period` hours in a row one is divisible by `Period`).

**Preparation** (`PrepareProofs`): for any tasks, conversations, slots, images,
catalogs and loads, any size of map and cache. `IInv` has six parts.
- `TypeOK`.
- `MapOK`: the map's order is a beginning of `recency`, longer than what an
  eviction leaves or all of it.
- `SlotsOK`: outside the excuses a conversation was given exactly the slot the
  map remembers, and a request between `touch()` and `track()` goes by it (`Bound`).
- `ImagesOK`: for each place of a request what is known of its images
  (`PartsOK`). That `LimitImages` keeps at most so many, and the newest, is
  counted by ranks: the images with fewer than k before them are k at most.
  What is done with a chat request whose model was asked about under two
  catalogs is left open, as it is in the code.
- `CacheOK`: the cache has no digest twice and does not outgrow its size.
- `Agreeing`, until an image is described twice at a time: what is in the cache
  was used and has not lapsed, the cache is in the order of use, and what was used
  and is not in the cache, nor lapsed, has at least `CacheSize` others before it.
  When an entry makes way, the cache is full and all its entries were used later:
  their positions in `used` are distinct and before that of the entry that went.

From these follow `RecentStay` (`RecentKept`), `SlotStays` (`Affinity`),
`ImagesAreHandled` (`ImagesHandled`) and `CacheStaysRecent` (`CacheKeepsRecent`).

**Payload and statistics** (`TransformsProofs`): for any streams, bodies,
contexts and tools, any keys, values and nesting of JSON, any bounds. The
installed provers cannot instantiate the library's induction theorems, which
take an operator; `Induct` is induction over an interval for the members of a
set, proved from `WFMin`, and `Recursion` says that a function defined by
recursion over an interval exists and is what its definition says. Every
recursive function of the modules gets its equations from it (`SumsDef`,
`PicksDef`, `AfterDef`, `LayersDef`, `NormalsDef`, `AcceptanceDef`).
`IInv` has four parts: the clock is in its range; every record kept is sound
(`Kept`: typed, no later than now, its cached tokens within its input, its mark
true); `StreamInv`: the accumulator has read exactly the bytes of its stream that
are no longer to come; `RequestInv`: a request goes out as it was normalised.
`Invariance` is `Spec => []IInv`, and from it follow
- `UsageIsWhole` (`UsageWhole`). `Reached` says where an accumulator is in a
  line: nothing, one half or both halves in the buffer, and field by field the
  largest count of the whole lines before. Every byte gets it one place
  further (`NextByte`), so every chunk does, wherever it ends (`NextChunk`), and
  `finish()` reads the line that no newline closed (`AtEnd`).
- `HitRateIsAtMostOne` (`HitRateAtMostOne`): of any records of `Kept` no more
  input was cached than came in, so of those of a window and a bucket.
- `ViewsAreAlike` (`ViewsAlike`): the sum over picked elements is the sum of
  values that count for those only (`SelFacts`), which is Rust's filter on one side
  and SQL's CASE on the other.
- `BucketsAreAlike` (`BucketsAlike`): when the window starts at a multiple of the
  bucket, the records of the ring's bucket are those of SQL's group, and the columns
  are the same by the same facts. Records that are counted as cached without a
  time to the first token do not exist, which is why the wrong columns do no
  harm where they can be read: that follows from how records are made (`Kept`).
- `BucketsDoAddUp` (`BucketsAddUp`): buckets are classes of records, and the
  sums of classes add up to the sum over all of them (`ClassesAddUp`). A bucket
  that divides the window has its records before the window's end
  (`QuotientBelow`); SQL's buckets are shown to be in reach of the last instant.
  The percentiles are the least values of two sets of which one holds the other.
- `NeverIsNarrower` (`NeverNarrower`), for the tools that `OnlyWidens` admits
  (`WidensDef` unfolds it along the normalisation). The layers show that no pass nests a
  value deeper, so that normalisation stays within JSON (`NormalsDef`), and that a
  verdict does not depend on how deep it looks (`DeepEnough`), so that a schema
  accepts what all its keywords allow (`AcceptsDef`). Then each pass allows
  what was allowed before: for `oneOf`, that exactly one alternative accepts is
  that the accepting ones sum to one, and the null schemas that are taken out add
  nothing (`OnlyOneKept`); for an alternative that is merged into its parent, that
  `additionalProperties` leaves no fewer properties alone than before
  (`MoreAllowed`), which is where the premise is needed. The depth is an induction (`NeverNarrows`) in steps of
  two, as `properties` is a map of schemas between two schemas, and the passes
  leave such a map alone (`SchemasUnchanged`).

`PrepareProofs` and others begin with what `RemoveAt` does, which the library does
not state, and `StatsProofs` with how appending and moving act on a concatenation.

Looking for the inductive invariants changed two properties. `CacheKeepsRecent`
once said that the last `CacheSize` images used are all in the cache, and the
invariant could not be closed: an image found expired leaves, and the order
of use does not know it. With three images in one request TLC finds the
counterexample; the property now leaves out what has lapsed, and the run has that
request. The order of the rows in the table was part of `NothingElseLost`; no
query depends on it, so the table is a set now, and the property says of
the rows that they are older than what is under way and none is there twice.

The proofs about `Transforms` brought out two conditions. The usage of a stream
is the largest of its blocks field by field, and the hit rate of such a mixture
may exceed 1, when one block has more cached and another more created tokens: the
bound needs that the counts of one answer grow together, which `usage_parse.rs`
counts on (47-50) and `ProvidersAssumption` now says. And a normalised schema may
refuse what the schema accepted, in the two forms of `OnlyWidens`: each conjunct of it
is needed, as TLC finds a narrowed schema when one is dropped.

## 6. What is only model-checked

- All invariants and action properties of the runs are proved. What is left is
  liveness (`WaitersServed`, `KeysRecover`, `Answered`, `ChangesSaved`,
  `GateFollowsPlan`, `EverySentSettles`): fairness and ENABLED are out of the
  prover's reach.
- Some properties except what the code does not keep, and a reader should not take
  them for more: `PermitAccounting` and `ActiveWithinLimit` say nothing once two
  resizes have overlapped, and count the permits a shrink did not find as there;
  `AbsentFieldsKept` and `PoolAgrees` say nothing once two posts have overlapped;
  `SavedWhenQuiet` and `ChangesSaved` nothing of changes that a stop or a failed save
  lost;
  `FreshSlotsValid` nothing of a slot from an older list; `Affinity` nothing of
  requests that overlap between reading and writing back; `ViewsAgree` nothing after
  a full channel; `CacheKeepsRecent` only the size once an image was described twice
  at a time; `NeverNarrower` nothing of two forms of schemas. What then happens is
  in section 7, and under `hazards` with a note.

## 7. Where code and documents disagree

With a run that exhibits it, see `findings` in `PROJECT.json`:

| run | property | in short |
|---|---|---|
| `gate_wrap` | `RejectsOnlyWhenFull` | `gate.rs:58` lowers `queued` without having raised it; the counter wraps and an empty queue counts as full |
| `limits_override` | `OverrideTakesEffect` | the effective limit is computed for an override of 0 and cached (`usage.rs:233`, `:240-245`); an override posted later has no effect on it |

Seen while modelling, without a run of its own. Admission and keys:

- A client that disconnects in the queue leaves `queued` one too high for ever
  (`gate.rs:72-79`); `QueuedExact` states it. `MAX_QUEUE_SIZE` such clients close the queue.
- Two overlapping calls of `reconcile()` (`gate.rs:107`) can resize twice; a
  shrink under load forgets too few permits and never catches up
  (`gate.rs:115`; SPEC 315-316). `missed` and `overlapped` keep the account.
- A failure overwrites what is left of a cooldown, even with less: a 500 ten
  seconds after a 503 ends the minute after twenty seconds (`keypool.rs:121-129`;
  SPEC 3.3 has the same). `CooldownHonoured` says what each operation leaves.
- Reports go to an index, and after an edit of the list hit another key
  (`keypool.rs:121`; SPEC 231-233).
- The place is given back when a stream begins, not when it ends
  (`chat.rs:260`; SPEC 289).
- `throttled` of the gate counts upstream 429 and 503 besides full queues
  (`ThrottledAgrees` says exactly what); `throttled` of `usage.rs` stays 0.
- Endpoints that fetch do not size the gate, though SPEC 6.2 has every fetch do
  so; `GateFollowsPlan` holds because the refresh task comes round.
- Concurrent requests of one conversation need not share a key, and the key a
  retry rotates to is not learned (`sessions.rs:39`, `chat.rs:159`).

Requests and answers:

- A stream that breaks off is not recorded (`stream.rs:38-49`). No comment is
  sent to keep a stream alive (SPEC 9.6).
- Some errors are answered with status 200 and an error body
  (`routes/mod.rs:122`, `:131`).
- The cut of a prompt at byte 80 panics inside a character (`chat.rs:82`,
  `messages.rs:87`).
- A catalog that is replaced between two questions of one request lets images
  through neither limited nor described (`chat.rs:104-122`), to a model that may see
  them or not; `ImagesHandled` allows it to a chat request with a catalog in between,
  and to no other. `ensure_catalog_fresh` is never called (SPEC 8.2).
- An image without a URI where one is expected (`image_url` given as a string,
  another type of source, a missing `url` or `data`) is counted as an image
  (`payload.rs:97-102`) and not collected (`vision.rs:70-99`): it goes out to a model
  that cannot see. `limit_images` counts no images of tool results, so that there may
  be any number of them.
- Descriptions are cached by the image alone, whatever the prompt and the model
  were; `set()` evicts an entry even when the digest is there
  (`handoff_cache.rs:54`), so that another goes that need not.
- `$ref` is never resolved in a schema, the elements of a list are not visited,
  not even alternatives, and null is taken out under `not` too (SPEC 10.2, 10.4).
- An object that is the value of `const` is normalised as if it were a schema
  (`schema_norm.rs:106-113`), which changes the constant: of `{"type": ["string",
  "null"]}` the tool then refuses the only argument it had accepted. A schema
  under `not` is widened like any other, which narrows the negation.
- A last alternative overrides the keys beside it (`schema_norm.rs:168-173`):
  `{properties: {p}, additionalProperties: false, anyOf: [{properties: {q}},
  {type: null}]}` refuses p afterwards, which it had accepted.
  `NeverNarrower` excepts these two, exactly, through `OnlyWidens`; it is stricter than
  needed for a property that is named `const` or `not`. What a keyword with an
  object for a value, other than those of `Keywords`, refuses is not modelled, nor
  are keywords whose verdict depends on other keywords than these
  (`patternProperties`, `contains`, `if` and `then`).

Statistics:

- A batch that fails is dropped without a word: only the error of the join is
  logged (`db.rs:150-152`).
- `hourly_stats` is created and never written (`db.rs:10`, `001_initial.sql`);
  long windows see what the retention leaves of `requests`. The cleanup
  runs in every turn of the loop in an hour divisible by six.
- A stream's record bears the time of its beginning, so that a long one is too
  old for the short windows when it comes, while `recent` goes by completion.
- The latency of a key is 0 where the ring answers (`stats.rs:257-259`) and an
  average where SQL does (`db.rs:377`, `:413`); the keys come in the order of their
  names from the one and of their counts from the other.
- The rows of buckets are read one column off (`db.rs:246-267`): tokens read from the
  cache are those of its creation, and the time to the first token is the number
  of cached tokens. As soon as one row has a time to the first token the last column is
  no integer, the whole query is an error, and a long window shows what the ring has,
  with a warning in the log (`stats.rs:87-96`).
- `bucket=0` divides by zero (`stats.rs:100`).
- A file without a list of migrations is taken to have all of them
  (`db.rs:74`), which is right as long as there is one.

Configuration:

- Of two updates that overlap, one is undone (`config.rs:275`; SPEC 1135).
- A restart exits before the change it was asked for is saved
  (`restart.rs:18`; SPEC 1238); no stop flushes saver or statistics.
- Values from the environment end up in the saved file, at the first save after
  a post (`config.rs:175`).
- A failed save is not tried again, the drain has no bound, and the debounce is
  at least one second (`persist.rs:21-40`).
- A pool started without keys has one entry made of the upstream key, which an edit
  of the key list replaces.
- `POST /api/config` resizes the handoff cache to the constant size it has
  (`config_api.rs:150-157`); only its time to live can change.
- `bind_with_retry` computes the port after 65535 (`main.rs:389`).

## 8. What is not modelled, and why

`PROJECT.json` lists every part with its status. Left for later: failing
queries and cleanups, `bind_with_retry`, the usage history endpoint, which
is a cache of its own in front of the provider, and the parsers of durations and
of the command line. Not planned: HTTP itself, the engine below the SQL,
authentication and masking (comparisons without state), health and dashboard
views (read-only), the wallpaper (a download behind a lock, beside the
purpose), log formatting, telemetry, the mock upstream (a test double), the
browser front end, and the fields of a payload that nothing modelled reads (automatic
thinking, stripping, renaming). Panics other than the one named, memory exhaustion and a
poisoned mutex are left out.

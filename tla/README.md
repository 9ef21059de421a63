# Verification of codebuddy-proxy

TLA+ models of the Go program in `src/`, checked with TLC and, where it is worth
it, proved with TLAPS for every value of the constants.

## 1. The system

The program is one process. It serves an OpenAI-compatible API from a pool of
CodeBuddy accounts and an administration page. Everything concurrent happens
between the goroutines of HTTP requests, the goroutine `flushLoop` of the account
pool, the keep-alive goroutine of each stream, and the goroutine of `main`.

| Component | State | Operations | Talks to |
|---|---|---|---|
| Account pool (`accounts/pool.go`) | `mem`, `loaded`, `dirty` under `mu`; `wakeCh`, `stopCh`, `doneCh`; `accounts.json` and its temporary file under `persistMu` | `Read`, `Select`, `MarkResult`, `Upsert`, `Delete`, `SetEnabled`, `ReplaceAccount`, `Flush`, `Close`, `flushLoop` | called by the gateway and the server |
| Gateway requests (`gateway/service.go`) | statistics under `mu` | `CompleteFromPool`, `refreshSelected`, retry and cooldown rules | pool, OAuth client, provider |
| OAuth session (`gateway/service.go`) | one session (id, token, status, auth state) under `mu` | `StartOAuth`, `PollOAuth`, `OAuthLaunchAuthorized` | OAuth client, pool (`Upsert`), launch and callback handlers |
| Model list (`gateway/models_flight.go`, `models/models.go`) | one cached list with key and expiry, flights by key | `ListModels`, `Do`, `invalidateModelsCache` | pool, provider |
| Configuration (`gateway/service.go`, `config/`) | atomic snapshot, process environment, `.env` | `SetAPIKey`, `SetPoolSite`, `UpsertEnvFile`, `LoadDotEnv`, first-run key | server, `main` |
| Chat stream (`server/server.go`, `httputil/`) | `started`, `done`, counters, buffered writer under one mutex | keep-alive, callbacks, end of stream, `finish` | gateway, client |
| Upstream decoder (`provider/client.go`) | the accumulator of one answer | `readSSE`, `MapSSEEvent`, `push`, `snapshot` | provider's HTTP stream |
| Routing (`provider/client.go`) | none | endpoint and header choice by region | gateway |
| OAuth client, models, billing, conversion | none | one upstream request and its interpretation | gateway, server |
| Admin page, export, strings | none | text | |

### What is hard, and what has to hold

* **Account pool.** Memory is the authority and the file follows. Two kinds of
  writers take snapshots at different times and write them later: `flushLoop`
  and the administrative operations. Wake-ups are merged, drained and timed.
  Writes fail. The process is killed or closed at any point. What must hold:
  the file is always complete; no change loses both its dirty mark and its
  writer; no wake-up is lost; `Close` returns and leaves nothing behind; a user
  has one account with one id, however often they log in or a token is replaced;
  the rotation cursor is always valid.
* **Gateway requests.** A request selects an account, leaves the lock, refreshes
  and calls upstream, and comes back with a copy that may be stale. What must
  hold: an administrator's change is not undone, failover visits no account
  twice and ends, the error returned is the upstream's, cooling accounts are
  used only when all are cooling.
* **OAuth session.** Start and poll leave the lock for an upstream call. What must
  hold: the outcome of one login is never attributed to another, an account is
  imported once.
* **Model list.** Requests share one flight and one cached list while an administrator
  switches the region. What must hold: one fetch per key at a time, whoever is answered
  has the list of the key it chose, who leads with `?fresh` fetches, every waiter returns
  unless the leader panicked.
* **Configuration.** `UpsertEnvFile` reads, edits and renames without a lock. What must
  hold: after a restart the program runs with what the administrator was told is saved,
  the API is never open by accident, region and base URL stay together unless two updates
  overlap.
* **Routing.** What must hold: an account's calls go to a host of its own region,
  whatever region the process runs in.
* **Chat stream.** The callbacks of the upstream reader, the keep-alive goroutine and the
  end of the handler write to one client, who may leave. What must hold: nothing follows
  `[DONE]`, every request is counted exactly once and as what its client saw, no text is
  sent twice or kept back.
* **Decoder.** What must hold: the answer that was streamed is the turn that the
  fragments make up, whatever way the upstream cuts them.

`PROJECT.json` lists these hazards with the lines where they bite.

## 2. Plan

1. `PoolStore`, `AccountPool` - done, with their proofs.
2. `OAuthSession` - done, with its proofs: start, poll, launch and callback around
   upstream calls.
3. `GatewayRequest` - done, with its proofs: over `PoolStore`, request goroutines, a
   concurrent administrator, the region switch, refreshes with a stale copy.
4. `ModelList` - done, with its proofs: cache, flight, invalidation, a leader that
   panics.
5. `Routing`, `EnvConfig` - done, with their proofs: `.env`, environment and snapshot
   across restarts, and the host that each account's calls go to under every
   configuration reached.
6. `SseDecoder`, `StreamProtocol`, `ChatStream` - done, with proofs: one request with its
   upstream, its keep-alive goroutine and its client, shown to implement the protocol
   that the client is promised.

Every safety property that the passing runs check is proved as well; what is left to TLC
alone is liveness (section 4).

Two parts of the first plan were dropped. An abstract durable store that `AccountPool`
implements: what it would promise is what Finding 1 refutes, and `CleanMeansWritten`,
`DiskMatchesMemory` and `CloseFlushes` say what remains of it. A module for the usage
summary: a sum of decimal numbers, without state.

## 3. Modules

### PoolStore

The data of the pool as operators from a store to a store; no variables.
A credential is a value of `Creds` that determines its user (`UserOf`, `NoUser`
for an opaque token) and its region (`SiteOf`). An account's id is a hash that
contains its first credential, so that credential stands for it. Time stamps
that nothing reads back, labels, URLs and error texts are left out.

| Operator | Code |
|---|---|
| `Upsert`, `Matches`, `Relogged` | `Upsert` (583-617): match by id, credential hash or user and site |
| `Delete`, `SetEnabled`, `ReplaceAccount` | the methods of these names |
| `Refreshed` | the record `refreshSelected` and the refresh handler build |
| `Eligible`, `Ready`, `Soonest`, `Chosen`, `AfterSelect` | `Select` (455-538) |
| `MarkResult`, `InCooldown`, `NormalizeStore` | the functions of these names |

### AccountPool

The pool as a concurrent object. One action is one critical section of `mu`, or
one step of `writeDisk`.

| Variable | Code |
|---|---|
| `mem`, `loaded`, `dirty` | the fields of `Pool` |
| `token` | the buffered value of `wakeCh` (capacity 1) |
| `stop`, `final` | `stopCh` is closed; `flushLoop` has seen it |
| `persistMu`, `tmp`, `disk` | the writers' mutex, `accounts.json.tmp`, `accounts.json` |
| `pc`, `snap`, `held` | where a goroutine is, the snapshot it writes, the account it holds a copy of |
| `version`, `newest`, `acked`, `orphan`, `closing` | not in the code: they number the states of memory and remember what was renamed, acknowledged, left dirty by a failed write, and present when `Close` began |

`Login`, `Remove`, `Toggle` and `Refresh` are the synchronous operations: they
change memory, clear `dirty` and leave with a snapshot. `Select`,
`SelectPinned` and `Result` change memory, set `dirty` and wake the loop.
`BeginWrite`, `FillTmp`, `Rename`, `WriteError` and `Redirty` are `writeDisk` and
the error path of its callers. `FlushClean` and `FlushDirty` are the two ways
through `Flush`. `LoopWake`, `LoopTimer` and `LoopStop` are `flushLoop`,
`BeginClose` and `LoopDone` are `Close`. `Exit` ends a process whose `Close` has
returned, with goroutines of requests that outlived the shutdown still in the
middle of their work; `Crash` ends it anywhere. Both are followed by a start,
which loads the file with the first operation.

Left out: `Write`, which no code but tests calls; a file that cannot be read or
parsed at load (the operation fails and nothing changes); loss of power (the
code never calls fsync, a kill of the process does not need it); the time
between 250ms timer and clock (`LoopTimer` may happen at any time).

### AccountPool runs (`MCAccountPool`)

Credentials 1 and 2 belong to one user of region `d`, 3 is opaque and of
region `g`.

| Run | Instance | Shows |
|---|---|---|
| `pool_persist` | 2 callers, 1 credential, 3 versions, 1 failing write, 1 kill | `DiskIsWhole`, `CleanMeansWritten`, `DiskMatchesMemory`, `DirtyWakesLoop`, `CloseFlushes`, and the inductive invariant `ProofInv` |
| `pool_live` | 1 caller, 3 credentials, 2 versions, clock 0..1, 1 failing write, 1 kill, fairness | `TypeOK`, `WellFormedStores`, `IdsAreStable`, `FlushedEventually`, `CloseReturns` |
| `pool_durable` | 2 callers, 2 versions | `SyncIsDurable` is violated, see Findings |
| `pool_retry` | 1 caller, 2 versions, 1 failing write, fairness | `DirtyIsFlushed` is violated, see Findings |

Why the bounds are enough to be interesting: with two callers, the loop and
`Close` four writers can overlap, two of them synchronous; three versions let one
writer's snapshot be older, equal or newer than another's and than memory; a
failure can fall between any two of them; a kill leaves each of the files in each
of its states. Two versions of a store over three credentials reach two accounts,
a repeated login, a refresh and a deletion with the cursor on the last account;
longer sequences of operations are covered by the proofs of `StoresWellFormed`. The callers are symmetric, and the symmetry
set is used only where no liveness is checked.

**Fairness.** Goroutines that can run do run: weak fairness of the steps of
`writeDisk`, of `Flush`, of the loop and of `Close`. Taking `persistMu` is
strongly fair, because a Go mutex that made a goroutine wait for more than a
millisecond hands over in order. `LoopStop` is strongly fair because a `select`
chooses at random among its ready cases. No request, failure, shutdown or kill is
fair.

### OAuthSession

The login session of `gateway.Service` and the pages that use it. Sessions are
numbered in the order in which `resetOAuthSessionLocked` makes them; the number
stands for the random id and the token of the link. Logins are numbered in the order
in which the upstream opens them and stand for the auth state.

| Variable | Code |
|---|---|
| `session` | `Service.oauth`, under `s.mu` |
| `lastState` | `oauth.Client.lastPluginState` |
| `pc`, `copy`, `got`, `via`, `page` | where a request is, the session it copied, the login it received, the link it presented, what it answered |
| `issued` | upstream: the logins, the region they were opened in, whether the user has confirmed |
| `asked`, `imported` | not in the code: which session received which login, which logins were stored and under which region |

`StartOAuth`, `StateReceived`, `RetryReceived`, `StateRefused` and `StartAnswered`
are `StartOAuth` and `Client.Start` with the retry of a repeated state; `PollOAuth`,
`PollFailed`, `PollPending`, `Import`, `ImportFails` and `PollSucceeded` are
`PollOAuth`; `OpenLink`, `Launch` and `Answered` are the two pages, which check the
link in one critical section and use the session in the next. `Confirm` is the user.
Left out: the age at which a waiting session is not reused any more (reuse and reset
are both possible at any time), labels and time stamps. The pool is the set
`imported`.

| Run | Instance | Shows |
|---|---|---|
| `oauth_session` | 2 requests, 3 sessions, 2 logins, 2 regions, fairness | `LoginIsOwn`, `ImportedRegion`, `SuccessHasImport`, `StartSettles` (unless its own start still waits for the upstream), and the inductive invariant `SessionInv` |
| `oauth_link` | 2 requests, 2 sessions, 2 logins | `LinkActsOnItsSession` is violated, see Findings |
| `oauth_callback` | 2 requests, 2 sessions, 2 logins | `CallbackTellsTruth` is violated, see Findings |

Bounds: a race on the session has two parties, the one that left the mutex and the
one that replaced the session meanwhile; a third session lets the one in between be
overtaken as well; two logins are needed for one to be taken for another, and the
third start can only be answered with a login that exists, the repeated state. A request returns to idle, so that
two of them make any number of calls.

**Fairness.** Weak fairness of `StartAnswered(p)` alone: a goroutine that has its answer goes
on. The upstream need not answer: the client has no timeout but that of the response header
(`client.go:30-53`), and the body of an answer may stay unfinished for ever. Hence the
exception in `StartSettles`, a session whose own `StartOAuth` still asks (`AsksUpstream`); what
is left for the property is that whoever comes back settles it, also after it was overtaken.
Nobody has to begin a request or to confirm a login.

### GatewayRequest

`CompleteFromPool` as a loop over its recursion, over the store of `PoolStore`. A
request leaves the pool's mutex between selection, refresh, call and mark; an action
is one critical section of the pool, with the answer of the upstream that precedes it.

| Variable | Code |
|---|---|
| `store` | `Pool.mem`; `AccountPool` has the files |
| `site` | the region in the configuration snapshot |
| `opts` | `CompleteOptions`: pinned account, excluded accounts, `RefreshRetry`, `RetryDepth` |
| `sel` | the account of the `Selection`: a copy |
| `under` | the region that `ActivePoolSite` returned for this selection |
| `err` | the upstream error that the levels above would return |
| `reply`, `tried`, `marks` | not in the code: the answer, the calls made, the accounts marked |
| `now`, `changes` | the clock in units of 30 seconds, the bound on changes |

| Action | Code |
|---|---|
| `Begin`, `TooDeep`, `ReadSite` | the call, the check of the depth, `ActivePoolSite` |
| `SelectNext`, `NoAccounts`, `SelectPinned`, `PinnedGone` | `Pool.Select`, with and without an account id |
| `RefreshSkipped`, `RefreshSaved`, `RefreshFailed` | `refreshSelected` before the call |
| `Succeeded`, `Canceled`, `FailOver`, `ForceRefresh`, `Failed` | the answer of `Provider.Complete` and the branch it leads to |
| `RetryRefreshed`, `RefreshUseless`, `GiveUp` | the forced refresh and what follows |
| `BeginReissue`, `Reissue`, `ReissueFails` | the refresh-token handler of the administration |
| `Login`, `Remove`, `Toggle`, `SetPoolSite`, `Tick` | the administrator, and the clock |

Errors are classes: the sets of texts that the two patterns, the codes of
`shouldRefreshAfterFailure` and the cases of `failureCooldown` tell apart. Which token
expires soon is left to chance, so that `RefreshSkipped` and `RefreshSaved` are both
possible for an account with a refresh token. `ReplaceAccount` can fail after it
changed memory, because its write of the file fails. Left out: the request's body and
its output and the statistics (`ChatStream` has both), the order of selection by time
stamps that nothing reads.

| Run | Instance | Shows |
|---|---|---|
| `request_failover` | 2 requests, 4 credentials in 3 accounts of 2 regions, error classes `auth` and `gateway`, depth 3, one change by administrator or clock, fairness | `AttemptsInRegion`, `NoRepeats`, `AttemptsBounded`, `ErrorNotHidden`, `MarkedOnce`, `RequestReturns`, and the inductive invariant `RequestInv` |
| `request_cooldown` | the same, error class `gateway` | `CooldownKept` is violated, see Findings |

Bounds: depth 3 is the code's own. Two accounts of one region, one with and one
without a refresh token, give failover, a refresh retry, and a refresh retry after a
failover; the account of the other region is what a wrong selection would take. `auth`
refreshes and has no cooldown, `gateway` fails over and cools for one tick; the other
classes differ in the length of the cooldown or combine these two. The second request
is a client, or the refresh-token handler, whose refreshes overlap with the first's;
one change by the administrator can fall between any two steps. Behaviours with more
changes, requests, accounts and any depth are covered by the proofs.

**Fairness.** Weak fairness of what a request does by itself between its calls of the
upstream (`Choose(r)`, `GiveUp(r)`). The calls need not return: the client has no timeout but
that of the response header (`client.go:30-53`), and the body of an answer or of a refresh
may stay unfinished for ever. So `RequestReturns` says that a request returns, or stays from
some time on in one and the same call (`Calls`): no round of failover, refresh and retry
goes on for ever. No client, administrator or clock is fair.

### ModelList

`GET /v1/models` and its administrative twin: `ListModels` over a copy of the pool, the
cache, `modelsFlight.Do` and the upstream. A list is where it comes from: the key it was
fetched for, its source, the hosts whose catalogues it merges. The base URL and the
environment in the code's key follow from the account, so region and account are the key.

| Variable | Code |
|---|---|
| `store`, `site` | `Pool.mem`, the region in the configuration snapshot |
| `cache` | `modelsCache`: key, result, whether `expiresAt` is ahead |
| `flights` | `modelsFlight.m`: who leads the flight of each key; `Dead` when the leader panicked |
| `pc`, `fresh`, `key`, `read`, `list` | of a request: where it is, `?fresh`, its key, its copy of the pool, its list or its flight's |
| `admin` | between the new region and the invalidation of the cache |
| `changes`, `panics` | bounds |
| `asked` in a list | not in the code: the requests that were under way when its fetch began |

| Action | Code |
|---|---|
| `Begin`, `Unlisted`, `Keyed` | `Pool.Read`, `ActivePoolSite`, the choice of the account and the key |
| `CacheHit`, `CacheMiss` | the first look at the cache, which `?fresh` skips |
| `JoinAnswered`, `Join`, `Lead` | the critical section of `Do` |
| `LeadHit`, `LeadMiss`, `Fetch`, `Fetched`, `Panic` | the function of the flight: second look, `models.List`, the cache written |
| `Answer`, `Unregister`, `Return` | `c.val` and `wg.Done`, the removal from the table, the answer |
| `SwitchSite`, `InvalidateModelsCache`, `Toggle`, `Remove`, `Expire` | the administrator and the clock |

| Run | Instance | Shows |
|---|---|---|
| `model_list` | 2 requests, 3 credentials in 2 accounts of 2 regions, 1 change, 1 panic, fairness | `OneFetchPerKey`, `AnswerIsForKey`, `FreshLeaderFetches`, `RequestsAnswered`, and the inductive invariant `ListInv` |

Bounds: a flight has a leader and a waiter, and a request that comes between the answer
and the removal of the flight; requests begin again and again, so that the cache is met
empty, live, expired, invalidated and filled for the other region. One change falls
between any two steps. A third request, further changes and panics are covered by the
proofs of the three invariants.

**Fairness.** Weak fairness of `Proceed(r)`, what a request does by itself. The upstream need
not finish its answer: the list is read with `io.ReadAll` by a client without a total timeout
(`client.go:48-53`), and who waits for a flight does not watch its own context. Deadlock is
not checked, because after a panic every request may wait for the flight that nobody ends.
`RequestsAnswered` says that there are two reasons to wait for ever and no other: the leader
of the key has panicked, or one request, this one or the leader it waits for, is in a fetch
whose answer never ends (`Stalled`).

### Routing and EnvConfig

`Routing` is the choice of the upstream host in `provider/client.go`, with
`chatOptionsFromAccount` and `NormalizeAccount`, as operators on hosts. `EnvConfig` is
the configuration of the process: what `Load` makes of the environment and the `.env`
files, what the two handlers that write `.env` do to it, and what a restart finds. Of the
names of the configuration the five are kept that decide who may call and where calls go,
each with its older name (`CURSOR_DIRECT_...`), which counts where the new one is not set or
is empty (`FirstEnv`).

A file is a sequence of lines. A line has a name, an age, a value, the length `lead` of the
sign of a comment, and `cut`, the bytes that another text has overwritten at its start; how
long it is comes from `Width`, in the runs from the real names and values. `os.WriteFile`
truncates when it opens and then writes from its own offset 0, so that a text written over a
longer one leaves that one's end behind it (`Overlay`, `Behind`), from any byte on. A line
that has lost a part counts for what is left of it (`Sets`, `Bare`): nothing, unless only the
sign of a comment is gone, which makes it count, or the `CURSOR_DIRECT_` of an older name
that is the new name behind it (`OldPrefix`).

| Variable | Code |
|---|---|
| `given` | the environment, and whether `CODEBUDDY_PROXY_ENV_FILE` is set |
| `file`, `tmp` | the `.env` files in the order in which they are loaded, and `.env.tmp` |
| `conf`, `up` | `runtimeCfg`; the process runs |
| `pc`, `values`, `text`, `fd` | of a writer: its step of `UpsertEnvFile`, what it sets, the new content, which file its descriptor is of now |
| `used`, `first`, `overlap`, `before` | not in the code: the keys generated, the `.env` files as the operator left them, whether two updates have overlapped since the start, or in an earlier run |

`Start` is `Load` and, without a key, the first-run branch of `main`. `GenerateKey` and
`SetPoolSite` are the two handlers; `Open`, `Write`, `WriteFails`, `Rename` and
`RenameFails` are the rest of `UpsertEnvFile`, and `Apply` is `updateConfig`. `Kill` is
possible anywhere. A file that is open stays the same file when it is renamed, hence `fd`:
a late write of one update can reach the `.env` of another.

| Run | Instance | Shows |
|---|---|---|
| `env_config` | 2 administrators and `main`, 5 environments, 8 sets of files, 2 updates, 1 failing write, 3 starts | `RestartKeepsConfig`, `NeverOpenByAccident`, `SiteMatchesBase`, `RoutedToRegion`, `EnvKeepsLines`, and the inductive invariant `ConfigInv` |

Bounds: environments and files are those the program is started with: none, a copy of
`.env.example` with its empty key, an operator's key in the first file or in the second, an
API that is open on purpose in the first file or in the second, older names with a region
edited without its base URL and a flag that is commented out, a flag that is commented out
at the end of the file, a custom file, a key, an empty
key or a region in the environment. Two updates overlap in every order, also with
the one of the first start; two texts are what an overlay needs, and as the two differ in
length by the values they set and by the lines they add, the end that stays behind begins at
a line or in the middle of one. Three starts allow a kill in the middle of an update, and a
second one in the start that follows. A failing write falls on each of them. The
administrators are symmetric: no liveness is checked. Deadlock is not checked: starts and
updates are bounded.

What the properties except, because it is so in the code:

* `RestartKeepsConfig` and `EnvKeepsLines` are about updates that do not overlap; what
  overlapping ones can do is in section 5. A value that the environment sets under the new
  name is the environment's. An empty `CODEBUDDY_INTERNET_ENVIRONMENT`, as
  `SetPoolSite` leaves it for the global region, is filled by the older name at the next start.
* `SiteMatchesBase` holds of the files until updates overlap and of the running configuration
  until the start that follows. Both are about what the operator wrote fitting together.
* `NeverOpenByAccident` holds also when updates overlap, but then "the operator wrote that it
  is open" is any line that says so (`Opened`), though another file, a new name or the sign of
  a comment made it void: the end of a text that stays behind another may begin behind
  the `#`, and an empty first file after a kill uncovers the second.

`RoutedToRegion` quantifies over every account the pool can hold, also with a base URL or an
endpoint of the other region, in every configuration that is reached.

### SseDecoder, StreamProtocol and ChatStream

`SseDecoder` is what the body of an upstream answer means: `Events` maps a frame to
events (`eventsFromOpenAIChunk` and `mapOpenAIDelta` for a chunk that fits the typed
struct or does not, `MapSSEEvent` for the older form), `Push` is the accumulator,
`Snapshot` its turn. A text is the number of the frame it came in. `Orders` is the order
in which the map of tool call fragments is walked: any.

`StreamProtocol` is the abstract specification: what the client of a streamed chat may
rely on, after `docs/api/http.md`. The stream is opened with the role, then content and
comments, then either what was not streamed, the finish chunk, the usage chunk and
`[DONE]`, or an error and `[DONE]`, and then nothing. Without `[DONE]` it ends when the
client has gone or the handler broke.

`ChatStream` is one request with everything that acts on its answer.

| Variable | Code |
|---|---|
| `pc`, `stream` | where `handleChatCompletions` or `streamChat` is; `body.Stream` |
| `client` | whether the client, whose leaving cancels the context, is there |
| `attempts`, `read`, `begun`, `events`, `acc`, `err`, `turn` | the recursion of `CompleteFromPool` and, per attempt, the reader, its accumulator, its error or turn |
| `sent`, `buf`, `comment` | `SSEStream`: what was flushed, what is in the buffer, whether a comment is the last thing written |
| `streamed`, `done` | the counters and the flag under the mutex of `streamChat` |
| `keepAlive` | the keep-alive goroutine |
| `stats` | `ActiveRequests`, requests counted as answered and as failed, tokens |
| `panics` | the bound on panics |

| Action | Code |
|---|---|
| `BadBody`, `BeginRequest`, `Open` | the body, `BeginRequest`, headers and role |
| `Attempt`, `NoAttempt`, `Accepted`, `Rejected`, `BreakOff`, `Canceled`, `EndOfBody`, `Again`, `GiveUp` | an attempt and what follows it |
| `ReadFrame`, `PushSilent`, `PushDelta`, `PushToolUse` | `readSSE`, the accumulator and the callbacks |
| `Finish`, `Answer`, `Tell`, `Close` | `finish`, the end of the answer, the deferred calls |
| `Panic`, `Recover` | a panic under the handler and `recoverHandler` |
| `Tick`, `StopKeepAlive`, `Leave` | the keep-alive goroutine, the client |

Which account an attempt asks, and whether there is another one, is decided in
`GatewayRequest`; here both are left open.

| Run | Instance | Shows |
|---|---|---|
| `chat_stream` | 3 frames of 10 sorts, 2 attempts, tool call indices 0 and 1, 1 panic, fairness | `FollowsProtocol`, `AnswerIsTurn`, `CountedAsSeen`, `StreamEnds`, `ContentArrives`, and the inductive invariant `StreamInv` |

`FollowsProtocol` is the refinement `StreamProtocol!Spec` with `phase <- Phase` and
`frames <- Written`: what was written, flushed or not, and a phase that is read off the
handler. It rules out a keep-alive comment, or a late delta, after `[DONE]`, whatever the
goroutines do. `AnswerIsTurn` compares what was said in the stream with the turn
that the accumulator made, and so covers the decoder, the callbacks and the part that is
sent at the end. What frames say of a kind is `Parts`; `SaidInv`, the part of `StreamInv`
that carries the property, relates it at every moment to what the accumulator holds. It excepts two cases in which it does not hold: an earlier attempt that
had streamed, and tool calls sent both whole and in fragments (section 5).

Bounds: the ten sorts are those the decoder tells apart: text, text with usage, thinking
with blank text and a usage of zeros, two fragments in one chunk in descending order of
index, an untyped fragment without id, a whole tool call, a fragment of the older form
with a whole input, an error, a cancellation, and junk. Three frames make a text, its
continuation and a tool call, or two fragments and an error. Two attempts are needed for a
failover; the third that the code allows adds nothing but a longer `sent`. The frame's
position among the events, the flush or the buffer after each write, a tick, the
client's leaving and a panic are free.

**Fairness.** The handler goes on when it can, the ticker ticks, and the goroutine ends
when it is told to; the upstream answers with headers or the transport's timeout ends the
call. After its headers the upstream may be silent for ever, as in the code, where the
body has no timeout. Hence the exception in `StreamEnds`. A write to the client returns, with an error
if he has left: for `StreamEnds` and `ContentArrives` this is an assumption about clients,
because the server's `WriteTimeout` is 0 (`server.go:61-62`), and one who stays connected and
never reads can block a write, and with it the handler, for ever. Deadlock is not checked: the
model is of one request, which ends.

## 4. Proofs

`PoolStoreProofs` proves, for stores of any length, that each operation maps
well-formed stores to well-formed stores: the ids stay unique, a user of a region
has one account, an account keeps its owner, the cursor stays in range. The
key lemma is `PutKeepsOrder`: overwriting an account by one of the same id and owner
preserves all of it. That a stale copy has the same owner is `OwnerIsFixed`, the
conjunct that makes the invariant inductive; without it a refresh from a stale
copy could give a second account to a user.

It also proves what the rotation is for, `ReadyAccountsTakeTurns`: of as many selections as
the pool has accounts one chooses a given account, if the account is enabled, of the
right region, not excluded and not cooling down at each of them, and no account is added
or removed meanwhile. Whatever is marked, cooled, disabled or refreshed between the
selections does not matter. The measure is the account's distance from the cursor, which
every selection that does not choose it shortens (`ReadyComesNearer`); that a failed
sequence has a first step that does not is `NatHasLeast`. Selections for another region
move the same cursor, hence the condition on the region.

`AccountPoolProofs` proves for all constants:

| Theorem | Says |
|---|---|
| `TypeCorrect` | `Spec => []TypeOK` |
| `StoresWellFormed` | `Spec => []WellFormedStores` |
| `DiskAlwaysWhole` | `Spec => []DiskIsWhole` |
| `TmpIsOwn` | `Spec => []RenamesOwnFile`: what is renamed is the writer's own snapshot |
| `DirtyMarkKept` | `Spec => []CleanMeansWritten` |
| `NoLostWakeup` | `Spec => []DirtyWakesLoop` |
| `CloseSaves` | `Spec => CloseFlushes` |
| `PoolInvariant` | `Spec => []ProofInv` |
| `FileIsMemory` | `Spec => []DiskMatchesMemory` |
| `UsersKeepTheirIds` | `Spec => IdsAreStable` |

The argument has layers. `StoresInv` is inductive: types, well-formed
stores, complete file, and what the writers know - whoever is at the temporary
file holds `persistMu`, whoever is in `writeDisk` has a snapshot, and before the
rename the temporary file is that snapshot. On top of it `VersionsInv` is
inductive: no snapshot and no renamed version is newer than memory, and before
the file is loaded the newest version is the file's, so the dirty mark can only
be cleared by somebody who carries the current version. On top of both
`CloseOrdered`: the loop has exited before `Close` flushes, and the snapshot
`Close` writes is not older than what memory held when it began. `VersionsFaithful`
ties the numbers to contents: who carries the current version, the file or a snapshot,
carries what memory holds, and nobody carries the version that a change is about to
make; with `CleanMeansWritten` this gives `DiskMatchesMemory`. `ProofInv` is the
conjunction of these with the invariants they support, and `pool_persist` checks it.
`UsersKeepTheirIds` is a fact about steps: each operation maps a well-formed store to one
in which every account has the id and the owner of an account that was there
(`KnownKeepsIds`), or, for the account that a login appends, an owner that nobody had
(`UpsertKeepsIds`).

Assumptions of these: the sentinels `None` and `Partial` are not values they are
confused with, the loop and the closer are not callers, each credential has a
region. The bounds need only be natural numbers: the theorems hold for all of
them, hence for behaviours of any length.

`OAuthSessionProofs` proves for any number of requests, sessions and logins:

| Theorem | Says |
|---|---|
| `SessionInvariant` | `Spec => []SessionInv` |
| `SessionOwnsLogin` | `Spec => []LoginIsOwn` |
| `RegionIsIssuers` | `Spec => []ImportedRegion` |
| `SuccessIsStored` | `Spec => []SuccessHasImport` |

`SessionInv` adds to the properties what a request knows while it is away from the
mutex: its copy is not newer than the session (`CopiesOrdered`), so that an equal id
means the same session, and this is why the id is compared again in
`StartOAuth` (service.go:685); the login that it holds exists and was opened for its
copy's region (`LoginsIssued`); and who is about to report success has stored an
account (`StoredFirst`). The invariant is split into a part on the shared variables and
one part per request, so that a step has to be examined for the request that takes
it only.

`GatewayRequestProofs` proves for any number of requests, accounts, regions and
changes, and for any `MaxDepth`:

| Theorem | Says |
|---|---|
| `RequestInvariant` | `Spec => []RequestInv` |
| `CallsStayInRegion` | `Spec => []AttemptsInRegion` |
| `FailoverVisitsOnce` | `Spec => []NoRepeats` |
| `CallsBounded` | `Spec => []AttemptsBounded` |
| `UpstreamErrorShown` | `Spec => []ErrorNotHidden` |
| `EachTriedMarkedOnce` | `Spec => []MarkedOnce` |

The properties speak of the calls and marks of a request, the code keeps neither. What
makes them inductive is `Excluded`: at each level of the recursion the excluded
accounts are exactly the marked ones, and with the pinned or the current account they
are exactly the ones tried. So a selection that avoids the excluded accounts visits no
account twice, and a pinned retry visits the last one. `Budget` says that the depth is
the number of calls, `ErrorKept` that a request with calls behind it has an error to
answer, and `HoldsAccount` that the copy it holds, however stale, is of an account that
keeps its owner, hence its region: that is the well-formedness of the store, which
`PoolStoreProofs` shows every operation to keep. `ChosenIsEligible` is the fact about
`Select` on which the rest stands. Assumed: a value for "no account", a store and a
region to begin with that the program can have read, and that each credential has one
region.

`ModelListProofs` proves for any number of requests, accounts, regions, changes and
panics:

| Theorem | Says |
|---|---|
| `ListInvariant` | `Spec => []ListInv` |
| `FetchesAreShared` | `Spec => []OneFetchPerKey` |
| `AnswersAreForKey` | `Spec => []AnswerIsForKey` |
| `FreshLeadersFetch` | `Spec => []FreshLeaderFetches` |

That two requests do not fetch for one key is a statement about two requests; what makes
it inductive is `LeadersRegistered`, that who leads is in the table under its key and
who is in the table leads. `ListsOfKey` follows a list from the fetch through the cache
and the flight to the answer, and `KeysOfRegion` the region from the choice of the account.
Only a leader that is not fresh looks at the cache, which is the last conjunct of
`ListInv` and the reason for `FreshLeaderFetches`.

`EnvConfigProofs` proves for any number of administrators, keys, updates, failing writes
and starts, and for any environment and files:

| Theorem | Says |
|---|---|
| `ConfigInvariant` | `Spec => []ConfigInv` |
| `ConfigSurvivesRestart` | `Spec => []RestartKeepsConfig` |
| `NeverOpen` | `Spec => []NeverOpenByAccident` |
| `SiteStaysWithBase` | `Spec => []SiteMatchesBase` |
| `LinesAreKept` | `Spec => EnvKeepsLines` |
| `Routed` | `Spec => []RoutedToRegion` |

`ConfigInv` has two layers. The first holds whatever overlaps: only the file that is read
first is ever written (`FilesAreVersions`), who writes is at a step that fits what it has open
(`WritersInTurn`), and no line that says "false" of the flag that guards the API, in a file, in
the temporary file or in a writer's hands, whole or cut, is anybody's but the operator's
(`FlagsAreOperators`). An overlay makes no lines, it cuts them, and a line that has been cut
still has its name and value: this is what the invariant follows through
`Behind` (every line of the rest is one of the text, but for `cut`), and why the API cannot be
opened by any mixture of updates. The second layer holds until updates overlap: who writes is
alone, its text is the file it read with its own lines changed, and the temporary file, empty
when it writes, gets exactly that (`AloneIsExact`); so the file is a *version* of the
operator's (`Version`: the lines of the region are all as the operator wrote them or all as
one update sets them, and older names are untouched), which gives a region that fits its base
URL, and what the files say is the snapshot, or will be once the change that has been
renamed is applied to it (`SnapshotInFiles`). An overlap ends this layer until the next start
for the files, and from that start on for the snapshot (`before`), which is what the
exceptions of the properties say; without them TLC finds the traces of section 5. That `UpsertEnvFile` edits the same file before and after the rename, although the
rename may create it, is the first conjunct of `FilesAreVersions`; with `ResolveLast` in its
place TLC finds the restart that loads an older configuration. `Routed` needs no invariant: it
holds of every configuration.

Where the lines of a text end (`Ends`) is a recursive function, and that it exists, is
increasing and ends with the length of the text is an induction over the lines, done as in
`ChatAnswerProofs` over a set of numbers that has 0 and all successors. Nothing about the
widths is assumed but that each is a positive number, so that the theorems hold for any end
of any text behind any other.
Assumed: the sentinels for "no line" and "no file" are no values, and no key is empty.

`ChatStreamProofs` and `ChatAnswerProofs` prove for any sorts and any number of frames,
attempts and panics (of which at most one reaches the handler):

| Theorem | Says |
|---|---|
| `EndInvariant` | `Spec => []EndInv` |
| `RequestsAreCounted` | `Spec => []CountedAsSeen` |
| `StreamFollowsProtocol` | `Spec => FollowsProtocol` |
| `StreamInvariant` | `Spec => []StreamInv` |
| `AnswersAreTurns` | `Spec => []AnswerIsTurn` |

`EndInv` is `TypeOK` with three parts: what is counted at each step of the handler
(`ControlInv`), what has been written by then and who may still write (`AnswerInv`), and how
the two fit when the request is over (`OutcomeInv`). The refinement has one case per
action: a callback's write is `Content`, a flush without a frame stutters, the end of the
answer is `Complete` or `Fail`, a client that is told nothing is `Abandon`, and everything
from the panic on is `Break`. The case that needs the invariant is the tick: that `done` is
set exactly when the answer has ended is why a late tick writes nothing.

`StreamInv` adds `SaidInv`, in three parts. `AttemptInv`: the events that wait come from the
last frame, all that the accumulator holds comes from frames of this attempt, and the turn
is the accumulator's snapshot. `WrittenInv`: what was written of a kind, flushed or not, is
what earlier attempts left followed by exactly what the accumulator holds (`Continues`,
`CallsContinue`, where tool calls are numbered through), and a counter of zero means that
nothing of its kind was written. The third part is the property itself: at the end, either the
counter is zero and the whole turn is sent now, or it is not, and then the stream goes on
with the accumulator; if no earlier attempt has streamed, "goes on with" is "is". A new
attempt empties the accumulator and raises the bound `begun` at once, so that all that
was said becomes early; this step is why a failover after streamed text has to be excepted.

What a stream has said is a concatenation over its frames (`Parts`, with the recursive
`FlattenSeq`), so that these proofs need induction. The induction theorems of the library
take an operator, which the provers cannot instantiate. `NatSetInduction` and
`SeqSetInduction` are inductions over sets instead: a set of numbers with 0 and all
successors contains `Nat`, because otherwise the intervals that end outside it would have no
smallest one, and the finite sets are well-founded by inclusion. `FlattenAppend` computes
`FlattenSeq` of one more element from the table of the function (`TableExists`,
`TablesAgree`), and `PartsConcat`, `PartsElements`, `PartsNone` and `PartsTools` follow.

Only model-checked, because fairness is beyond the prover (each with the exceptions that
section 3 names for an upstream that never finishes its answer): `FlushedEventually`,
`CloseReturns`, `StartSettles`, `RequestReturns`, `RequestsAnswered`, `StreamEnds`,
`ContentArrives`.

## 5. Findings

1. **An acknowledged change can be lost** (`pool_durable`). Two synchronous
   operations take snapshots in one order and rename them in the other. Both
   return success, `dirty` is false, the file has the older state and nobody will
   write it again until the next change of memory; a restart loses the newer
   one. `docs/operations/runbook.md:70` and `docs/architecture/overview.md:79`
   say that these operations write synchronously because credentials must not be
   lost.
2. **A failed write is not retried by itself** (`pool_retry`). `Flush` and the
   synchronous operations set `dirty` again but wake nobody; only the unused
   `Write` does. `docs/architecture/overview.md:78` says the background goroutine
   merges dirty memory into the file.
3. **An old login link acts on the new session** (`oauth_link`). Launch and callback
   compare id and token in one critical section and use the session in the next;
   `PollOAuth` writes its outcome into the session of that moment. A login started in
   between is redirected to, or marked failed or successful, through the link of the old
   one. `docs/architecture/overview.md:71` says that the comparison under the lock
   rules the race out. That the account is stored under the region of its issuer holds
   nevertheless (`ImportedRegion`).
4. **The callback page announces an account that was not imported**
   (`oauth_callback`). The page takes `ok` for success, and `ok` is also set while the
   session is starting or waiting.
5. **A token refresh ends a cooldown** (`request_cooldown`). `refreshSelected` saves a
   record without `CooldownUntil`, built from a copy made before the upstream call.
   `docs/operations/runbook.md:67` says that a cooling account takes no part in rotation
   until a request succeeds with it. The same record also brings back the `Enabled` flag
   and the counters of the copy: an account that was disabled during the refresh is
   enabled again. The refresh-token handler builds its record in the same way.

Seen while modelling. Each is what the models do as well, where they have the part; some
differ from what a document says, and the properties above except them by name.

*Gateway requests.* A request whose third call fails with a retryable error answers with
the error of the depth limit instead of the upstream's (service.go:256). A refresh in which
the upstream fails for an expired token ends the request without marking the account, so
that it is selected again.

*Model list.* A request with `?fresh` that meets a flight joins it, although the flight
began before it or found its list in the cache (`docs/api/http.md:40` says that the cache
is skipped). A leader that panics leaves its flight in the table: requests for that key wait
until the process is restarted. When no account is enabled the list is fetched with a
disabled one. When nothing upstream answers, or the client of the leader has gone, the
list is "auto" only, is cached like any other and is given to everyone who joined;
the configured models of `docs/api/http.md:42` are not used.

*Configuration.* An empty `API_KEY` in the environment hides the file's, so that every start
generates and announces another key (`main.go:25`); a key in the environment wins over
one that an administrator generates, at the next start (`server.go:533`). `UpsertEnvFile` takes
no lock, and updates that overlap go wrong in these ways, each of them a trace that TLC gives
when an exception of `RestartKeepsConfig`, `SiteMatchesBase` or `NeverOpenByAccident` is taken
out:

* Two that read before either renames lose a change. One that has `.env.tmp` open when another
  renames it writes into `.env` and fails at its own rename; the other is answered, runs with
  its key, and the file has the key of the one that failed, although `server.go:533` says that
  the new key is still valid after a restart.
* When both have opened the file before either writes, the shorter text is written over the
  longer one, whose end stays. With an operator's key and flag in `.env`, a switch to domestic
  (173 bytes) and a generated key (114 bytes) leave
  `CODEBUDDY_INTERNET_ENVIRONMENT=internal` without a site and a base URL: the switch is answered
  with success, and the restart runs region global with the domestic host, although
  `docs/api/http.md:198` says that the switch is written back.
* The end that stays can begin behind the sign of a comment and bring to life what the operator
  had commented out. With an operator's key, an empty site, the environment "public" and, last,
  `# CODEBUDDY_PROXY_REQUIRE_API_KEY=false` in `.env`, a generated key moves the comment
  back by 49 bytes and a switch to domestic by 10: the shorter text ends one byte behind the
  `#` of the longer one, and after a restart the API is open.
* With a kill, an empty file can be left, so that the second file or the defaults decide at the
  next start.

`SetPoolSite` writes an empty `CODEBUDDY_INTERNET_ENVIRONMENT` for the global region, `firstEnv`
takes an empty value for none, and `CURSOR_DIRECT_CODEBUDDY_INTERNET_ENVIRONMENT` decides at the
next start, although `docs/guides/configuration.md:113` says that the new names win. An account
of region global whose environment was written by hand as "internal" is routed to the
domestic host. `inferSite` is never called.

*Chat stream.* The stream is open before the upstream is asked, so that the branch for an
early 502 (`docs/api/http.md:161`) is never taken. When an attempt has streamed a part of
the answer and fails, the next one streams its answer behind it. When the upstream sends
tool calls both whole and in fragments, those in fragments are in the turn but not in the
stream; fragments in a map are numbered in random order. A panic leaves `ActiveRequests`
one too high, and the error of `recoverHandler` is written into the open stream, past the
buffer. A tick that is chosen after the panic can still write. A delta of white space
only is dropped. The reason for the end that the upstream gives is read by nobody, so
that an answer cut off by its length is sent as "stop". A chunk with empty choices and an
error is read as a chunk, and the error is lost. An error of the upstream whose text says
"context canceled" is taken for the client's leaving: no error and no `[DONE]` is sent,
and the request is counted as answered. The 5 ms after which a delta is flushed are
measured at the next write only; a delta that is the last one for a while waits for the
keep-alive (`ContentArrives` says that it does not wait longer).

## 6. Not modelled

* **Usage and billing summaries.** One request and a sum of decimal numbers for a page.
* **Administration page and export.** Text without state.
* **Conversion.** The shapes of messages, tools and errors, apart from the chunks of a
  stream; the rows of a model catalogue and their merge. Each is a function of one
  request's data, and no other step depends on the result.
* **CSRF token, host check, headers, formatting, logging.** Pure functions of one request.
* In the modelled components: files that cannot be read at load, loss of power, JSON and
  JWT, labels and time stamps that nothing reads; of a `.env` file, quotes, `export`, carriage
  returns and comments behind a value, a write that fails after a part of its bytes (a failing
  write leaves the temporary file as the open left it, and nobody renames it), the administrator's
  password, and the third names `CURSOR_GATEWAY_...`, which come after the older ones and are
  folded into them. A client who stays connected and never reads.

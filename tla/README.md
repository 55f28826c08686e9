# uDDNS in TLA+

uDDNS is a dynamic-DNS updater in TypeScript: a long-running daemon (or an MCP
server, or a one-shot command) looks up the host's public IPv4 and IPv6 addresses
at an interval and tells DNS providers about changes. This directory models it in
TLA+, from the signals of the daemon down to the requests of its providers, checks
the models with TLC on small instances, and proves the properties that matter most
with TLAPS for every value of the constants.

All line numbers refer to the sources under `src/`.

## 1. Inventory

| Part | State it keeps | Operations | Interacts with |
|---|---|---|---|
| **updater session** (`lib/updater.ts`) | `timer`, `intervalMs`, `inFlight(Promise)`, `stopping`, `stopPromise`, `interruptRetry`; `currentIP` (policy baseline), `hostState` (checkpoints), `stateLoaded`; status fields | `start`, `stop`, `setIntervalMs`, `checkOnceGuarded`, `getStatus` | discovery, policy, providers, state store, `onCycleComplete` |
| IP discovery (`lib/ip.ts`) | none between lookups; an abort signal during one | `discoverPublicIP` | HTTPS echo services, OpenDNS |
| IP policy (`lib/ip-policy.ts`, `lib/ip.ts`) | none | `applyIpPolicy`, `ipChanged`, `mergePresentFamilies` | updater |
| **state store** (`lib/state.ts`, `lib/json-file.ts`, `lib/atomic-file.ts`) | one JSON file, its temporary files | `load` (quarantines an invalid file), `save` (write, fsync, rename, fsync the directory) | updater, history |
| cycle history (`lib/history.ts`) | one JSON file, bounded | `load`, `append` (read, modify, replace) | runtime bundle |
| runtime bundle (`lib/runtime.ts`) | pending notifications, metrics, listeners | `onCycleComplete`, `flushNotifications` | updater, history, notify |
| notifications (`lib/notify.ts`) | none | `dispatchNotifications` | webhooks |
| **daemon** (`app.ts`) | `bundles`, `sideServer`, `shuttingDown`, `reloading` | start, SIGHUP `reload`, `shutdown` | sessions, configuration, side server |
| side server (`lib/side-server.ts`) | listening socket, SSE clients | health, readiness, metrics, events | daemon |
| MCP server (`mcp.ts`, `lib/mcp/*`) | session table, pending initialisations, SSE clients | POST/DELETE `/mcp`, `/events`, idle expiry, tools | sessions |
| configuration (`lib/schemas/config.ts`, `lib/config-file.ts`) | none | parse, validate, split primaries from standbys | daemon, MCP, CLI |
| host binding (`lib/hosts.ts`) | none | `configForHost` (throws for names it cannot split) | updater |
| providers (`lib/providers/*`, `lib/safe-https.ts`) | none | `update(config, ip)` | provider APIs |
| CLI, init, logging, scripts, site | — | — | — |

**What is hard here.** Node runs one callback at a time, so all interleaving happens
at awaits. Within a session, `start`, `stop`, interval changes, ticks and tool calls
meet at six of them (load, discovery, provider call, retry delay, save, report).
A provider call may take effect although it is reported as failed. A cycle may
succeed for some hosts and fail for others. The process, or the machine, may die
between a provider's success and the save, or inside the save. The checkpoint file may be
shared by processes. The complete list, each entry at its line and with the
properties that cover it, is `hazards` in `PROJECT.json`.

**What makes each part correct.**

- *Session:* cycles never overlap; exactly the interval that the session knows is
  alive, with the present length; `stop()` ends, does not wait for retry delays,
  and leaves the session quiet; a started session goes on checking, also after
  cycles that throw.
- *Cycle:* no host is told an address older than one it has accepted; checkpoints
  advance and are saved in spite of other hosts' failures; a reported success is
  one; a dry run writes nothing.
- *File:* a reader finds one complete version, always; what a save has confirmed
  survives a loss of power.
- *Lookup:* no source of an address is skipped while time is left, and no query
  outlives the deadline with nobody to hear it fail.
- *Provider:* a reported success means that the address is recorded, with the
  configured TTL; no other record is touched, no duplicate is made, and a
  configuration that was loaded is not refused later.
- *Bundle and history:* the history is the bounded suffix of the events appended, the
  backlog keeps its limit and drains, the owner that stops a bundle leaves behind nothing of the
  cycles it waited for.
- *Daemon:* a reload leaves the new sessions or the old ones running, never both
  on one file; the health server in use is the one it believes in; shutdown ends.
- *MCP server:* never more sessions than the limit, none expired while it
  serves a request, none closed twice, no listener left behind.

## 2. The modules

| Module | Models | Kind |
|---|---|---|
| `Session` | what a session promises those who start and stop it | abstract specification |
| `UpdaterLoop` | the life cycle of one session: `start`, `stop`, `setIntervalMs`, `checkOnceGuarded`, timer, retry delay | component, refines `Session` |
| `UpdaterLoopProofs` | theorems about it | proofs |
| `IpPolicy` | address arithmetic, as operators over any set of families | operators |
| `UpdateCycle` | what a cycle reads and writes: policy, checkpoints, retries, failover, save, with restarts and a moving network | component |
| `UpdateCycleProofs` | theorems about it | proofs |
| `DurableRegister` | what a durable replacement promises | abstract specification |
| `DurableFile` | `replaceFileDurably` and the quarantining load, step by step | component, refines `DurableRegister` |
| `DurableFileProofs` | theorems about it, refinement included | proofs |
| `DomainHost` | names: domains, the zone of a host, Namecheap's host and domain (`hosts.ts`) | operators |
| `ProviderConfig` | what `loadConfig` and the providers demand of their settings | operators |
| `RecordProviders` | the fifteen providers' decisions: zone, match, choice of record, request | operators |
| `RecordProvidersProofs` | theorems about these operators | proofs |
| `ProviderCall` | what a cycle relies on in a provider call | abstract specification |
| `RecordSync` | the calls of one account to its provider, request by request | component, refines `ProviderCall` |
| `RecordSyncProofs` | theorems about it | proofs |
| `Discovery` | `discoverPublicIP`: both families, HTTPS then DNS, one deadline | component |
| `CycleEvents` | `onCycleComplete`: history, notifications, backlog | component |
| `RuntimeBundle` | a bundle's cycles, before and after it is stopped, until its owner goes on | composes `Discovery` and `CycleEvents` |
| `RuntimeBundleProofs` | theorems about the composition | proofs |
| `McpSessions` | the session table of the MCP server over HTTP, its subscribers, its shutdown | component |
| `McpSessionsProofs` | theorems about it | proofs |
| `Accounts` | which accounts files load, and the files and roles of the accounts | operators |
| `Daemon` | `main`, `reload`, `shutdown` over sessions, health server included | component, each of its sessions a `Session` |
| `DaemonProofs` | theorems about it | proofs |
| `MC*` | TLC instances | |

From the top: `Daemon` drives sessions that are reduced to start, stop and cycles and keep
the promise of `Session`, which `UpdaterLoop` implements; `RuntimeBundle` is what lies around such a cycle (lookup before, event after);
`UpdateCycle` is what lies in it, and calls providers as `ProviderCall` promises;
`RecordSync` keeps that promise; the state file that it saves to is `DurableFile`'s.

### UpdaterLoop

One action is the code between two awaits; `pc[p]` names the await at which call
`p` is suspended. Callers are the `Clients` (tool calls, the daemon's startup,
reload, shutdown) and the interval's callback, `Ticker`. `Live` is the set of
intervals that the environment fires, kept apart from the handle `timer`: that they
agree is a property. `stopPromise` and `inFlightPromise` hold the call whose promise
they are, so that settling wakes the right waiters. A cycle is reduced to its awaits:
`load`, `discover`, `call` (a provider's answer), `backoff` (the retry delay), `finish`
(save and report); a leg is one provider tried for one host. Two continuations that
run in one batch of the job queue are one action: `StopSettles` resumes the stop
that created the promise, the ones that joined it and the starts that wait for it.
`woken` is the promise that `interruptRetry` resolves. The history variables `latest`
and `halted` record the last lifecycle call and how it ended.

`Session` has atomic steps and five flags: an interval is scheduled (`armed`), a cycle runs, the
last lifecycle call was a stop (`stopping`), a stop has not returned (`halting`), it waits for a
cycle (`draining`). In `UpdaterLoop` they are: the session holds a timer; some call is inside
`checkOnce`; the flag; `stopPromise` is pending; a `stop` is suspended at `await inFlightPromise`.
In `Daemon`, where a stop that finds no cycle is over at once, `halting` and `draining` are
both "the stop waits for the cycle". `Session` does not promise that a cycle begins only after a start:
`check_once` may run one in a stopped session.

### UpdateCycle

One cycle at a time (that is `NoOverlap`), with its contents. Addresses are numbers
in the order in which the network assigns them, so that "older" makes sense; the
code never compares them by order, and `Reassigns` says which reassignments the
network makes. `phase` names the await; `StartLoads` is the load of a concurrent
`start()`. `ProviderFails` applies any subset of the families of the update before it fails,
which covers refusals, partial updates and lost replies. `Crash` restarts the process
at any await. `writing` is the save in progress, `behind` records that the last load or
save failed, `delivered` what each host has accepted since the process started.

Constants that stand for an environment, and how the runs set them:

- `Unbindable`: (target, host) pairs for which `configForHost` throws. Empty in
  the passing run; the run `bind_throws` shows what happens otherwise.
- `CallsDuringStart`: do tool calls arrive while `start()` loads the state? FALSE
  in the passing run; `load_race` shows what happens otherwise.
- `Reassigns`: upwards only (an address is never given back) in the passing
  run; back and forth in `lost_reply`, with the policy *v6, clear*, under which a lookup that
  fails ends the cycle instead of putting the old baseline in the place of the address.

A session always has a state store in this model (`UDDNS_STATE_FILE` set).

### DurableFile and DurableRegister

`replaceFileDurably` with one action per awaited system call, each of which may
fail, for several writers; `PowerLoss` brings back any of the `survivors` (what the
directory on the medium may name), and of an unflushed file all or a part.
`Crash` kills one writer. `LoadInvalid` and `Quarantine` are the load of a file that
does not parse. The abstract register has two variables, the visible version and the
versions a loss of power may bring back; `ImplementsRegister` is the refinement.
`LoadsRaceSaves` = FALSE assumes that no save falls between a load's read and its
quarantining rename: within a process the load comes first; two processes that share a
data directory may violate it.

### DomainHost, ProviderConfig, RecordProviders, ProviderCall and RecordSync

A call is made of requests: load the configuration, find the zone, and for each family
list, decide, write (OVH: then refresh). Between two requests somebody else may change
the zone (`Foreign`); every answer may be a refusal, may be unreadable, or may be lost after the server
did what was asked. `RecordProviders` holds what differs between providers: how a name is
spelled and matched, which record is taken among several, whether the others are deleted,
whether the TTL is compared, and that the query providers (a single GET such as
DuckDNS's) do not look. A name is a sequence of labels. `Misplaced`
marks the configuration that nothing checks (section 7). `ProviderCall` is the promise:
each family only moves towards the address asked for, and success means recorded;
`ImplementsProviderCall` is the refinement, for all fifteen.
A call for a host that `bindNamecheapHost` refuses is never made (`Bindable`). `FullName`, the name
that an account means, belongs to the properties; `QueryName` is how a query's server reads it.

Three names of one host are kept apart, because the code does: the host as configured, the name
that `splitDomainHost` or the API completes it to, and the name that a request carries. `at` is the zone
that a call has found and the name it will write there; the server takes it only if it lies in the zone
(`Within`). Route 53 uses `splitDomainHost` only as a check (`route53.ts:65`) and names the
host as configured ever after, so that a bare label is outside its zone and no call for it
succeeds. Cloudflare is sent the host as configured, too. Its API completes the name of a record;
whether it completes that of a listing (`cloudflare.ts:370`) is `completes`, either way; and a pinned
record, whose full name is compared with the host as configured (`237`), is stale for a bare label.

The assumptions on the constants are what the environment keeps to. `AccountAssumption`: an account
has only the zone settings that its provider reads, and settings are absent, empty or set.
`ContentsAssumption`: the zones at the beginning are finite, each record has an id of its own and
a name inside its zone. `NameAssumption`: at DigitalOcean and Contabo no name in play ends with its zone
written twice, and none is the label "@" (section 7).

### Discovery, CycleEvents and RuntimeBundle

`RuntimeBundle` is a composition: it INSTANCEs both modules on disjoint variables and
synchronises them. `BeginCycle` starts the lookup, `EndCycle` takes its result and emits the
event, `OnCycleComplete` runs the history append and the notifications. `stop()` waits for the
cycle that is in flight, if any, and its event (`last` is its number), `flushNotifications` for a snapshot
of `pending`. Neither keeps a cycle from beginning: `checkOnce` tests only `inFlight`
(`updater.ts:204-224`), and a `start()` that resumes from its load or a tool call may run one after
`stop()`, which adds to `pending`. So `BeginCycle` is open at every stage, and
`NothingPendingAtExit` speaks of the cycles that `stop()` waited for. In `Discovery`, `tried` counts the HTTPS
services a family has asked and `queried` holds the resolvers. The one-shot
command beside the daemon is a second appender; `raced` records that two appends overlapped,
because the append reads, adds and replaces without a lock.

### McpSessions

A request goes through the handler's awaits: the scan for expired sessions (`cursor`), the
limit check with `pending`, connecting, `onsessioninitialized`, serving. `closing` is the flag
that `closeSession` and `onclose` share. A session is named by the request that opened it.
Idle time is an event (`IdleTimeElapses`), never a clock. Subscribers may stop reading; the
listener of `/events` then destroys the stream at the following event. Events come from the updaters'
loop, which tools start and stop (`ToggleLoop`) and which shutdown stops before the server is
closed (`mcp.ts:120`): `looping`.

### Accounts and Daemon

`Accounts` says which lists load (ids, files, failover graph) and which accounts are run.
`Daemon` has one action per code between two awaits of `main`, `reload` and `shutdown`.
A *generation* is one set of bundles; there are at most two at a time, the working one and the
one it replaces, so a generation that is silent (`Quiet`) is used again.
`outrun`, `overlapped` and `parked` record the three situations of section 5 that the
properties except. Waiting for `flushNotifications` is part of the wait for `stop()` before it.

## 3. The runs

| Run | Shows | Bounds, and why they are enough |
|---|---|---|
| `loop` | seven properties of the session, two of them liveness, and the refinement of `Session` | 3 callers: a start, a stop and a third call that meets both; 2 timers, so that one can leak; 2 lengths; 3 attempts; 2 legs: a retry after a failover |
| `cycle` | five properties of the cycle | 2 hosts (one can fail while the other succeeds), a standby for one of them, policies *dual, keep* and *v6, clear*, 2 addresses, an IPv6 address that changes at any moment, 2 attempts, 1 crash |
| `durable_file` | two invariants and the refinement | 2 writers, 4 renames, 2 power losses |
| `records` | six properties of provider calls and the refinement | 2 calls, so that a retry meets what a lost answer left; every provider, with zones and settings right, wrong and missing; bare labels at Cloudflare (completed in a listing or not) and Route 53; zones that hold old, new, duplicate and foreign records; 1 foreign change, at any request; 2 addresses; listings of up to 3 pages, of which 2 are read; new records get ids from `FirstSerial` on, above those of the zones |
| `mcp` | six properties of the session table | 3 requests, room for 2 sessions: two initialisations and a third request that meets the limit, an expiry or a deletion; 1 subscriber; a loop that is stopped and started at any time |
| `bundle` | five properties of cycles and what follows them | 2 families, 2 services and DNS; 2 cycles beside 1 of the one-shot command, history of 2: an event drops out; 2 targets, backlog of 1: the second cycle meets a full one; a stop at any time, before, between and after the cycles |
| `daemon` | five properties of reload and shutdown, and the promise of `Session` for each session | 3 accounts files (two accounts and a standby, a standby alone, one that is refused); 2 health servers beside none and an invalid setting; reloads without bound; shutdown at any time |
| `loop_stop`, `retry_after_stop`, `bind_throws`, `load_race`, `lost_reply` | the findings below | the smallest instances that show them |

In `cycle` only the IPv6 address moves: the families interact only through "any family
changed", which one moving and one fixed family exercise. Every crash happens at
most once, but at any await, and after it the whole life of a session is explored.

**Fairness.** The safety runs assume none that they use. The liveness properties assume
weak fairness of what the runtime owes the code, and nothing of those who call it:

- `UpdaterLoop` (`FairSpec`): a suspended call that can go on does (I/O settles: every
  request has a timeout; the job queue is served), and a live interval fires when no
  cycle is in flight. Not the end of a retry delay: `UDDNS_RETRY_MAX_DELAY_MS` may outlast
  any shutdown deadline, so `StopReturns` must hold without it; `LoopKeepsChecking` adds it
  as a premise (`DelaysEnd`).
- `RecordSync`: an answer or a timeout comes, for each request; calls need not be made.
- `RuntimeBundle`: a cycle goes on (its lookup, its end, the steps of its event), deliveries end
  (they have a timeout), and so does the flush. All of it until the owner goes on after the flush: what
  then is left of a later cycle may be cut off.
- `McpSessions`: a request goes on, unless its session was closed under it (`Abandoned`: the
  transport may leave it unanswered), and cycles go on completing while a loop runs. Nobody has to
  send, read, shut down, or start a loop: `StalledSubscribersDropped` says that a stalled subscriber
  is dropped, or that no loop runs.
- `Daemon`: the steps of sessions, of `main` and `reload`, of `shutdown`. Not ticks or signals.

## 4. What is proved

TLAPS proves, for all values of the constants, every safety property that the passing runs
check, and every refinement. Each argument is an inductive invariant; TLC checked it before
it was proved.

- **`UpdaterLoopProofs`**, for any callers, timers, lengths and budgets: `TypeOK`, `NoOverlap`,
  `OneLiveTimer` with `ArmedWithCurrentInterval`, `NoSleepWhileStopping`, `StoppedIsQuiet`, `ImplementsSession`.
  `NoOverlap` is not inductive: the invariant (`GuardInv`) ties the guard to the program counters: a
  call inside `checkOnce` is the one that `inFlightPromise` names, and a promise that is named is
  of a call inside `checkOnce`, with `inFlight` set.
  `StoppedIsQuiet` needs that a stopping session holds no timer, that a pending stop keeps
  it stopping and waits for the tick in flight (`StopInv`), and that nothing is left behind
  a clean stop that could schedule an interval (`CleanInv`). For the refinement every step of
  a call is shown to be a step of `Session` or a stutter: most are stutters, the end of a cycle
  is `Settle`, in which whoever waited for the cycle goes on.
- **`UpdateCycleProofs`**, for any hosts, families, addresses, policies, failover chains,
  budgets and crashes: `TypeOK` and the five properties of the run `cycle`. The invariants come in
  layers. `ShapeInv` relates request, pending hosts and results; `LoadInv` says that nothing
  has happened before the state is loaded. For `NoRegress` and `CheckpointsOnlyAdvance`:
  whatever the program remembers, the network has assigned (`KnownInv`); a host's checkpoint
  is not behind what it accepted (`DeliveredInv`); no checkpoint is ahead of the baseline,
  *except* in a cycle that has an accepted host and will move the baseline to its own
  address (`BaselineInv`), which is where "any success commits" is needed; no checkpoint is
  ahead of the address of the cycle (`TargetInv`). `AcceptedInv` and `FileInv` carry the
  truth of the report and of the state file.
  Assumptions, each theorem naming those it needs: `Upward` (the network gives no address back),
  `~CallsDuringStart`, `Unbindable = {}`. They are not for convenience: `load_race` and
  `bind_throws` show what happens without the last two, and without the first "older"
  has no meaning. Beside these, three laws of the address arithmetic: what a host has accepted is
  no change to it, an update is due just for a family that was wanted and found changed, and a
  policy applied twice is the policy.
- **`DurableFileProofs`** (assuming `~LoadsRaceSaves`), for any writers and bounds: `TypeOK`,
  `WholeFiles`, `ConfirmedSurvives`, `ImplementsRegister`. The invariant says what a temporary file
  holds at each program counter (whole after the write, flushed after the sync), that
  survivors are not newer than the file, and that no writer is active while a load
  quarantines. For the refinement, every step of the file publishes, hardens, loses
  power or stutters.
- **`McpSessionsProofs`**, for any number of requests, clients and any limits: `TypeOK`,
  `SessionLimit`, `ExpirySparesRequests`, `ClosedOnce`, `NoListenerLeaks`. The limit is a matter of
  counting: the listening servers are those of open sessions and those of initialisations under way,
  and `pending` is the number of the latter (`PendingInv`, with cardinalities), so that the check made at
  one await still holds at the others (`RoomInv`). `ActiveInv` ties `activeRequests` to the requests
  that are being served, `CloseInv` the flag to the disposals.
- **`RuntimeBundleProofs`**, for any families, services, appenders, targets and limits:
  `SourcesExhausted` (a family without an address has asked every service and, where DNS is enabled, both
  resolvers, unless the deadline passed), `NoQueryAfterDeadline` (`LookupInv`: a family that waits has asked
  exactly the services and resolvers up to the one it waits for), `HistoryFaithful` (`HistoryInv`, `RaceInv`: while one
  append has read and none raced, what it has read is the file), `NothingPendingAtExit` (`DrainInv`:
  from the flush on the cycles that `stop()` waited for are over, so what they left pending is in the
  snapshot; whatever else is added belongs to a later cycle).
- **`DaemonProofs`**, for any accounts files, settings and number of generations: `TypeOK`,
  `HealthServerKnown` (`ServerInv`, by phases of the replacement), `ReloadKeepsService`,
  `OneWriterPerFile`, `QuietExit` and `SessionsKeepPromise`.
  Behind them is one invariant: at any time at most one generation may run
  cycles (`Current`) and every other is gone, phase by phase of a reload: falling, sunk, rising.
  `QuietExit` adds where a shutdown finds the sessions (`EndInv`): it waits for those the daemon works
  with, and unless a reload is under way nobody starts one again. For `SessionsKeepPromise`, every
  step of the daemon leaves each session alone, lets it take a step of its own, starts or stops it, or
  gives it another life when it is still (`Moved`), and each of these is a step of `Session` or a
  stutter. `OneWriterPerFile` has the premise `NoCrossing`: no account's state file is another's
  history file, which nothing checks (section 5).
- **`RecordProvidersProofs`**, about operators, for all names, zones and sets of records: the two
  copies of the host splitting agree, and so do the two lists of what is derivable (acceptance at load,
  use in a provider); wherever a provider places a host, it is under its full name inside the zone, except
  that Route 53 keeps a bare label as it is, outside of it; no
  ordinary name of a zone matches another in any spelling; and the fifteen upserts
  agree in this: skip only on a record with the address, edit only a record looked up, create only
  where there is none.
- **`RecordSyncProofs`**, for any accounts, contents and bounds: `TypeOK`, `ValidConfigNeverRefused`
  (settings that `getProviderConfigIssues` accepts are complete for `lib/providers`, and the domain is found
  or bound), `OkMeansPublished`, `OkMeansRecorded`, `NoDuplicate`, `OthersUntouched` and `ImplementsProviderCall`.
  None of the last four is inductive. `SyncInv` says what each request of a call may count on:
  where the host is, and which records the call sees (`ShapeInv`); that ids are fresh and
  records inside their zones (`StoreInv`); that what this account has created is under its host's name,
  and once for each family (`MineInv`: without it a lost answer could lead to a second create); that
  the record about to be edited, if it still exists, is the host's (`TargetInv`: ids do not come
  back); that Bunny's copy of the zone, although old, tells the truth about the families still to be
  recorded (`FetchInv`); that a family that is done is recorded (`DoneInv`), for which a
  write must leave no other address beside its own (`ReadyInv`).
  `OkMeansRecorded` has the premise `DisjointZones`: where zones are nested, a host may have
  a record in each, and a call writes one of them (`SuccessIsWritten` says what holds then). Inside the
  properties, as premises on the account: `NoDuplicate` speaks of those whose record is not pinned, whose
  listing fits the pages read and finds the host under the name it asks for (`Findable`), and a Cloudflare
  host outside its zone is excepted (`Misplaced`, section 7). Where Route 53 would be asked for a bare
  label, the invariant carries `Within`: nothing is written outside the zone, so nothing is reported.

Only model-checked: the liveness properties (`StopReturns`, `LoopKeepsChecking`, `CallsEnd`,
`RequestsEnd`, `StalledSubscribersDropped`, `CyclesAndBacklogEnd`, `EndsGracefully`): liveness
under fairness and ENABLED are outside this prover's reach, as is induction over data. The type invariants of `UpdaterLoop`, `UpdateCycle`, `DurableFile`, `McpSessions`, `Daemon` and `RecordSync` are
theorems and no run repeats them. No module here has a recursive operator.

## 5. Findings

The five violation runs show where the code and its documentation disagree;
`findings` in `PROJECT.json` quotes both sides.

1. `loop_stop`: a `stop()` during `start()`'s load returns before the start's first cycle.
2. `retry_after_stop`: `stopping` is sticky, so `check_once` on a stopped session never retries.
3. `bind_throws`: an unbindable host rejects the cycle, and the checkpoints of hosts already
   updated are not saved (nor is the baseline advanced, so that `NoRegress` fails, too).
4. `load_race`: a cycle during `start()`'s load is overwritten by it, after which a host
   can be told an older address.
5. `lost_reply`: a host is at address 1; the update to address 2 changes the record and is reported as
   failed; the network gives address 1 back, and the stale checkpoint passes the host off as up to date. A
   failed lookup that policy *keep* fills in with the old baseline has the same effect.

Met while modelling, and excepted by properties rather than stated by a run, because
no document promises otherwise in so many words:

- A reload that finds no session running, because the file lists standbys only (which
  the one-shot command rejects and the daemon does not) or because every restoration
  failed, starts the new sessions and stops them again: `wasRunning` is false (`parked`). The daemon
  idles until it is restarted.
- A shutdown that meets a reload stops the bundles it sees; the reload may have begun to
  start others, and the process exits under their first cycle (`overlapped`), although
  docs/deployment.md:6-7 says that it waits for active work. It may also close the side
  server twice, and then exits with code 1.
- `Promise.all` over the starts rejects early: the sessions that still load their state are
  stopped, the stop returns at once (finding 1), and an orphan may then run cycles on
  the state file of a restored session (`outrun`).
- A cycle that begins after `stop()` may leave a delivery outstanding when the process exits: its owner
  has flushed, or has taken its snapshot.
- A subscriber of `/events` that stops reading while no loop runs keeps its listener. Shutdown stops
  the loops before it closes the server (`mcp.ts:120`), so no event will drop it, and the
  close waits until the client reads on or disconnects.
- Route 53 accepts a bare label (`route53.ts:65`) and then looks up and writes `home.` (`80`, `94`,
  `149`), a name outside the zone: the configuration loads and no call succeeds.
- Cloudflare lists by the host as configured (`cloudflare.ts:370`). If the API completes a bare label in a
  record but not in the filter, no lookup finds the record that a create has made, and each
  change of address creates another one (`completes`, `Findable`).
- `assertUniqueAccountPaths` compares state files with state files and history files with history
  files, never one with the other.

## 6. Plan

Done: the session and its abstract specification, the cycle, the durable file, the lookup, the
cycle's events, the bundle, the daemon, the MCP sessions, accounts, provider settings and
provider calls, with proofs of all their safety properties and refinements (section 4). `Daemon` still writes
its sessions out, since it needs the phases of a start, but each is shown to be a `Session`.

Left, in this order:

1. The status fields of `updater.ts` with the side server's readiness and event streams.
2. The lookup as a function of which sources answer, as an abstract specification of `Discovery`.

## 7. Not modelled

Logging, redaction, telemetry, metrics and formatting; parsing of numbers, lists, paths and URLs and the
URL policy (strings, no state); the HTTP handlers of the side server; `init`, `--check-config`,
exit codes and arguments of the one-shot command; prompts, resources and authorization of the
MCP server; build, publishing and site. Of modelled parts: the status fields of a session, which
only readiness reads, and the checkpoints of another provider, which a load drops (`state.ts:29`).

What a model or a property leaves out, with the behaviour it leaves out:

- *Dynu* with `UDDNS_PASS=""` and `UDDNS_TOKEN` is accepted at load and refused at run time
  (excepted in `ValidConfigNeverRefused`).
- *Cloudflare* with a zone name only, which is not the host's, is not checked
  (`cloudflare.ts:99-101,178-181`; `Misplaced`). A pinned record that resolves to null creates without
  looking (`231-235`), hence a premise of `NoDuplicate`. A bare label relies on the API to complete it in
  the record, and on the listing to do the same (the premise `Findable`).
- *Hetzner* gives up after its page limit and then creates: the third premise of `NoDuplicate`.
- *OVH*: when the refresh fails, a later call that has nothing to write does not refresh;
  `OkMeansPublished` speaks of calls that wrote.
- *Namecheap* never sends IPv6; the properties speak of the families a call carries.
- *DigitalOcean* and *Contabo* list names with or without the zone, and the code accepts both
  spellings; a name that ends with its zone twice would match another (`NameAssumption`).
- Nested zones at one provider: a record of the host may remain in the other zone (`DisjointZones` in section 4).
- Two processes that update the same host may both create; `disturbed` excepts these calls.
- *Route 53*: a bare label always fails (section 5). The removal of a `/hostedzone/` prefix is unreachable, since `assertOpaqueId` (`config.ts:539`) refuses a slash.
- *MCP*: a session between `onsessioninitialized` and the end of its initialisation counts twice in the
  limit check, which errs on the safe side. Sessions that open after `close()` has taken
  its list are not disposed; the process exits.
- *Lookup*: `resolveSafeAddresses` does not observe the deadline; the lookup ends when it does.

# NodeUnion: specifications, model checks and proofs

NodeUnion is a proxy and VPN client for Android and the desktop. A Flutter app
(Dart) drives a Go core built on Clash.Meta (mihomo). On Android the core is a
JNI library in a service process of its own; on the desktop it is a child
process at the other end of a socket. The logic that is hard to test lies
between these parts: requests that overlap in the core, a tunnel that borrows
Java objects while connections dial through it, a session with a child process
that can die at any moment, a run state two processes have to agree on.

This directory holds TLA+ modules of those parts, the TLC configurations that
check them on small instances, and proofs for every size of the instances.
Everything is written from the source in `src/`; `PROJECT.json` gives for each
definition the lines it stands for.

## Contents

| file | what it is |
|---|---|
| `CoreHub.tla` | the request handlers of the core (`core/hub.go`, `common.go`, `action.go`) |
| `TunHandler.tla` | the Android tunnel (`core/lib.go`, `core/tun/tun.go`), composed with `CoreHub` |
| `CallbackLease.tla` | abstract: what the tunnel promises about the Java objects it is lent |
| `CoreSession.tla` | the desktop app's session with its core process (`lib/core/service.dart` and its callers, `core/server.go`) |
| `RunState.tla` | the Android app's run state and the service process behind it (`State.kt`, `Service.kt`, `ServicePlugin.kt`, `AppPlugin.kt`, `RemoteService.kt`) |
| `ServiceDelegate.tla` | binding to an Android service (`common/Service.kt`, `common/Ext.kt`) |
| `BrandConfig.tla` | the refresh of the brand configuration (`brand_config_service.dart`, `providers/brand_config.dart`) |
| `FirstAnswer.tla` | abstract: what a race of several sources promises |
| `FakeIPPool.tla` | the fake-ip pools of the core and their store (`component/fakeip`, `cachefile/fakeip.go`) |
| `Dialer.tla` | the core's race of addresses (`component/dialer/dialer.go`) |
| `RuleOrder.tla`, `Indexing.tla` | the order of a profile's rules and its keys (`providers/database.dart`, `database/rules.dart`, `common/indexing.dart`) |
| `MC*.tla`, `MC*.cfg` | the instances TLC checks |
| `*_proofs.tla` | the inductive invariants, lemmas and theorems |

## Inventory

### The parts, their state and how they interact

**Core request handlers** (`core/hub.go`, `common.go`, `action.go`). State:
`runLock`, `isInit`, `isRunning`, `currentConfig`, the listeners that are open,
`externalProviders`, `logSubscriber`. Each request runs in a goroutine
(`go handleAction`); `runLock` serialises most of what they do, but not all:
`quickSetup` writes `isRunning` without it, `applyConfig` holds it during
downloads, `handleChangeProxy` locks in one goroutine and unlocks in another.
Correct means: the open listeners always are those the flags and the
configuration ask for; the last configuration sent is the one in force; the
lock is given back on every path; every request is answered.

**Tunnel handler** (`core/lib.go`, `core/tun/tun.go`, `android/core/.../core.cpp`).
State: the global `tunHandler`, for each handler its listener, its callback (a
JNI global reference) and a semaphore of four permits, and the global dial
hooks of Clash.Meta. `startTUN` and `stopTun` are called by the service
process, one at a time; connections dial through the hook at any time,
those of a configuration download among them. Correct means: the Java object
is called only while its reference exists, the reference is deleted exactly once
and never under a call, nothing is left over after start and stop, and
neither calls nor dials wait for ever.

**Core socket server** (`core/server.go`): the core's end of the desktop
session. It dials the app, handles requests and returns, which ends the
process, when the socket does.

**Desktop core session** (`lib/core/service.dart`, `interface.dart`,
`controller.dart`, `manager/core_manager.dart`). State: the process, the
completers of the socket, of the shutdown and of each request, the status
shown to the user. Operations: start, attach of a socket, shutdown, restart,
crash event, request, reply, timeout. Dart runs one event at a time, so the
interleavings are those of the awaits. Correct means: no completer is
completed twice, cores follow each other and never overlap, an old socket's end
does not end a new session, no request outlives its session, calls return.

**Android run state** (`State.kt`, `Service.kt`, `ServicePlugin.kt`,
`AppPlugin.kt`): STOP, PENDING and START under a coroutine mutex, with remote
calls that time out, a permission dialog in the middle and a disconnect that
does not take the mutex. **Android service process** (`RemoteService.kt`,
`VpnService.kt`, `ModuleLoader.kt`): starts and stops the VPN or the plain
service and their modules. **Service delegate** (`common/Service.kt`): bind,
unbind, disconnect, and the calls that wait for a binder. Correct means: the run
state and the service agree once everything has settled; no start is lost or
carried out after the stop that follows it.

**Brand configuration** (`brand_config_service.dart`,
`providers/brand_config.dart`). State: what is shown, the cached configuration,
and for each refresh a race of several URLs with a counter, a completer and a
timeout. Refreshes can overlap. Correct means: the race gives the first valid
answer and always ends; what is shown is what is cached.

**Fake-ip pools** (`Clash.Meta/component/fakeip/pool.go`,
`component/profile/cachefile/fakeip.go`). State: the range, offset and cycle flag
of each pool, and a store of both directions of every mapping that outlives the
process. A new configuration makes a new pool over the same store while the old
one still serves. Correct means: the address of a host leads back to that host,
after a death in the middle of a lookup too, and no address is given to a second
host before the range is used up.

**Dialer** (`Clash.Meta/component/dialer/dialer.go`). State: the connections and
goroutines of one dial over the addresses of a host, in four modes. Correct
means: the caller gets an open connection if any address answers, and what
answers too late is closed.

**Rules of a profile** (`providers/database.dart`, `database/rules.dart`,
`common/indexing.dart`). State: the shown list and the links of the database, each
with a fractional order key; writes and query answers travel between them.
Correct means: the keys stay valid, the order the user drops a rule into is the
one that is stored, and the list comes to show what is stored.

**Setup and update pipeline** (`controller.dart`, `state.dart`,
`common/function.dart`): debounced setups, the update loop. **Privileged
helper** (`services/helper/src/service/hub.rs`): starts and stops the core as a
Windows service. **Advertisements** (`ad_manager.dart`): cooldowns and load
flags.

`PROJECT.json` lists every component with its status; "Not modelled" below
gives the reasons.

### What is hard

`PROJECT.json` lists each hazard at its line, with the property that would
catch it, or the reason why none does. In short:

- interleaving of handlers and lock hand-over (`common.go:105`, `hub.go:148`),
  and setups that overtake each other (`common.go:244`);
- a lock order between `runLock` and the permits that only the download path
  could turn into a deadlock (`lib.go:40`, `common.go:240`);
- a hook that reads the current handler, not the one it was set for (`lib.go:109`);
- a socket's end that is reported after the next session began (`service.dart:82`);
- a reply, a timeout and a shutdown that race for one completer (`service.dart:40`);
- a core that dies between any two steps of a start or a shutdown;
- two processes joined by calls that time out, and a callback that finishes a
  start outside the lock (`State.kt:163`);
- a flag that is reset after a callback ran (`common/Service.kt:38`);
- a store of two directions, each written in a transaction of its own
  (`pool.go:106`), by two pools;
- connections that arrive when nobody waits for them any more (`dialer.go:250`);
- a list whose keys are older than the database's (`providers/database.dart:203`).

## CoreHub

A variable for each global: `runLock`, `isInit`, `isRunning`, `currentConfig`,
`ports` and `inbounds` (the general ports and the inbound listeners, kept apart
because the code patches and recreates them apart), and the file `disk` that
the app writes and `applyConfig` reads. A goroutine has a point `pc` and a
request `op`. A request that does its work under one uninterrupted hold of
`runLock` is one action, enabled when the lock is free. Those that do more are
split where other goroutines can come between: `quickSetup` into initialise, mark
running, check, set up; `applyConfig` into its load, its application under
`runLock` and the answer; `handleChangeProxy` into the locked part and the
goroutine that answers and unlocks. Configurations are members of a small set
with the port they ask for; a file that does not parse is `BadFile`, and the code
falls back to the default configuration. A request that would dereference a nil
configuration takes the core to `panicked`, as the code would.

| property | what it says |
|---|---|
| `ListenersFollow` | the open listeners are those the flags and the configuration ask for |
| `SetupSettles` | once no setup is under way, the core runs the last content of `config.yaml` |
| `LockOwned` | `runLock` is held exactly by the request inside a long section |
| `RequestsAnswered` | every request is answered, unless the process panicked |

Run. `core_hub`: two overlapping requests of any of the eight kinds, two files
with two ports, under fairness. Two files with different ports tell an old
configuration from a new one. A third request, such as one that waits for the
lock while another holds it and a third rewrites the file, is left to the proofs:
the safety properties are proved for any number.

Fairness: weak fairness of each goroutine's steps (the Go scheduler runs what can
run), strong fairness where a goroutine takes a mutex (Go's `sync.Mutex`
hands itself over to a waiter that starves). No fairness for the client: it need
not send anything.

## TunHandler and CallbackLease

`TunHandler` EXTENDS `CoreHub`: its thread takes the same `runLock` as the
requests, calls the sections of `handleStartListener` and `handleStopListener`,
and the download of a setup is itself a dialer. The thread of the VPN service
walks through `TunHandler.close` (stop the listener, acquire all permits, remove
the hook, delete the reference), the installation of the new handler,
`TunHandler.start` under `runLock` and its error path. A dialer looks at the
hook, reads the global handler, waits for a permit, checks the listener and
calls Java. The semaphore is the FIFO of `golang.org/x/sync/semaphore`, with its
queue as a sequence.

`CallbackLease` is the abstract promise about one lent object per reference:
granted, entered and left by any number of users, revoked only while nobody is
inside, never entered after that. `TunHandler` maps to it with `live <- refs`
and the dialers that are calling as the users inside; `LeaseKept` is that
specification.

| property | what it says |
|---|---|
| `LeaseKept` | refinement of `CallbackLease` |
| `TunSettled` | between two calls of `startTUN` and `stopTun`, hook, listener, callback and reference belong together and nothing else is left |
| `ListenersFollow` | `CoreHub`'s invariant with the thread that starts and stops listeners, too |
| `TunReturns` | `startTUN` and `stopTun` return |
| `DialsReturn` | every dial through the hook returns |

Runs. `tun_handler`: the thread, one request at a time (a `quickSetup`, which
downloads, or a `stopListener`), two connections, two handlers, two permits. Two
handlers are the old and the new one, and identities are used again once
nothing refers to them; two permits and two connections
and a download are enough for a full semaphore with a queue (the code has four
permits: `LimitSize` is a constant, and the proofs hold for any).
`tun_handler_live`: one `quickSetup` and one connection beside the tunnel.

Fairness: as above for the goroutines and the thread; a call into Java (a local
call of the VPN service) returns; a download ends or times out, which is strong
fairness of the step after it, since each of its dials disables that step for a
while; the semaphore serves its queue in order, so weak fairness suffices
there. A new dial, request, start or stop need never come.

Not modelled: `tunLock`, which is never contended, since the service
process calls `start` and `stop` under a mutex of its own; a file descriptor of
0; connections that a closed listener leaves behind; the `shutdown` request, which
no client sends on Android.

## CoreSession

The session on macOS and Linux. A step runs from one await of something
outside (a process, a socket, a timer) to the next; what only awaits a future that
is completed goes on in the same step. `Restarters` are the tasks that run
`restartCore` and the first `_connectCore`, `Crashers` those that run
`onCrash`. A core process starts, dials, may crash at any moment, and exits when
it is killed or its socket closed. A socket is pending, accepting (accepted,
while an older one is being closed), open, closed (by the app, while the core has
not ended), or lost (never read). A request waits for a socket, is written, is
answered by a reply, by its timeout or by `_clearCompleter`.

| property | what it says |
|---|---|
| `CompletedOnce` | neither the socket's completer nor a request's is completed twice |
| `OneCoreAlive` | the next core is started when the last one is gone |
| `NoCoreForgotten` | a core that runs is the stored process, about to be stored, or was killed |
| `StatusAgrees` | a connected session has a socket, that of the stored process |
| `RequestsInSession` | a request that awaits a reply was written to the attached core, or a shutdown is about to answer it |
| `NoStaleCrash` | the end of an old socket never takes the session down that replaced it |
| `OneOpenSocket` | the only open socket is the attached one |
| `NoMissedSocket` | nobody waits for a socket that is already attached |
| `CallsReturn` | every request returns |
| `ShutdownReturns` | `shutdown(true)` returns unless a core crashed or could not be started |

Runs. `core_session`: one restarter, two crash tasks, three cores, two requests,
safety and liveness under fairness; three cores, so that an old one, its
successor and one more can be told apart. `core_session_overlap`: two
restarters, two cores, one request.

Fairness: the event loop runs what is due and timers fire; a core that was
started dials, and exits when it is killed or its socket closes. Nothing makes a
core answer, which is why `CallsReturn` needs the timeouts, and nothing makes
a user restart.

What the model shows about the limits of the code:

- Nothing in `restartCore` keeps two of them apart. When two overlap,
  `CompletedOnce`, `OneCoreAlive`, `NoCoreForgotten` and `StatusAgrees` do not
  hold: the second start overwrites a process nobody will kill. The first
  five properties and `NoStaleCrash` are therefore checked and proved for one
  restart at a time, and the overlap run checks what holds however many run.
- `shutdown(true)` waits for the end of a socket. If the core never attached, or
  its socket ended before the completer was replaced (`lib/core/service.dart:155`),
  nothing completes it and the restart hangs: `ShutdownReturns` excludes
  histories with a crash or a failed start (`failed`).
- If `Process.start` throws, the status stays `connecting`.
- A core that dies after it attached and before `_connectCore` sets
  `connected` is not noticed, and the session is shown as connected with a dead
  socket; `StatusAgrees` says what holds still.

None of these contradicts a document, comment or test of the repository (its
`docs/` hold a privacy notice, its `test/` one widget test), so they are
listed as hazards and not as findings.

Not modelled: the Windows helper on the path of start and shutdown, `destroy`
at exit, a `socket.close()` that throws, concurrent writes on the core's end
of the socket.

## RunState

Two processes. The app's side has a variable for each global of `State.kt`
(`runState`, `runTime`, `runLock`), for the engine and the two permission slots of
`AppPlugin`, and for the binding. The service process has a lock, a run time, and a
service that is attached or not and up or not. A coroutine (`Tasks`) has a point
`pc`: the entry points are what the user, Dart, the tile and the broadcasts call
(`Toggle`, `StartAction`, `StopAction`, `CallStart`, `Setup` and the method-channel
calls of `Call`).

`GlobalState` runs the coroutines on several threads (`Dispatchers.Default`), and the
prepare callback takes no lock. What the lock does not protect is therefore
touched once in a step: a start looks at the state (`StartBegin`), emits `PENDING`
(`StartPending`), stores the answer (`StartStore`), emits `START` (`StartEmit`); its
finally looks (`StartFinally`) and emits `STOP` (`StartReset`); a stop, a sync and
the callback (`InvokePrepare` to `ClearPrepared`) are split alike, and
`HandleLost` and `OnServiceDisconnected` are the two steps in which a
lost service is noticed. Reads and writes are sequentially consistent in the
model: `runTime` and the slots are plain fields, and a write that another thread
does not see yet is left out. `Fresh` gives a new coroutine the first free
name, since they differ by name only.

A call (`Send`, `Answer`, `TimeOut`) is a command that the service process carries
out step by step (`Commands`) whether or not the caller is still there. Either process dies
at any moment (`RemoteDies`, `AppDies`); a new app process starts with `STOP` beside
a service that goes on.

| property | what it says |
|---|---|
| `PendingIsHeld` | `PENDING` is shown only under `runLock`, by a start or stop that will emit again |
| `Agreement` | at rest the two processes agree on whether and since when the VPN runs, and it does |
| `NoStartOverRunning` | the service process never starts over a running service |
| `LockIsLetGo` | `runLock` is always let go |

The code does not make the two agree at all times. The history variable `drift` is
set where a call failed or was late, a process died, or the prepare callback, which
runs without the lock, met another call, found the service running, or emitted
`START` while a `startService` was between its look at the state and what it emits
for it (`GapPoints`: `State.kt:156-160` and `176-177`). It is reset only by a
`handleSyncState` that runs alone. `Agreement` and `NoStartOverRunning` claim
something while it is not set.

Run. `run_state`: three coroutines (one that holds the lock, one that waits, one
callback), three calls, one fault, one start time. The invariants are proved for any
number of each, and for any set of start times. The run does not check for deadlock:
the user stops calling.

Fairness: a coroutine goes on, or what the service process does for it does
(`TaskStep`, `RemoteStep`): a call ends with its answer or its timeout. No user,
dialog or engine has to do anything, and no dead process has to be reported.

What the model shows about the limits of the code:

- A start that times out stores the run time 0 and emits `START` all the same; the
  service may come up or not (`Service.kt:171`, `State.kt:172`).
- The prepare callback emits `START` without looking at the state again: a stop
  sent while it is in flight finds `STOP` and is refused (`State.kt:163`, `187`).
- Its `START` is lost when it falls between the check of a finally and the `STOP`
  the finally emits (`State.kt:176-177`), or between the check of the next start and
  its `PENDING` (`State.kt:156-160`). No fault is needed, nor another call for the first: the app
  shows `STOP` over a running service, and the next start goes to a service that
  runs. Without the two gaps in `drift` TLC finds `Agreement` violated by
  either one.
- When the service process dies before there is a `ServicePlugin`, nobody emits
  `STOP`; the state stays `START` until a sync.
- The branch of `handleToggleAction` for `PENDING` is never taken: it looks at
  the state under the lock, and `PENDING` is not shown there (`PendingIsHeld`).

Abstractions: the service of the process is one unit, whose modules
(`ModuleLoader`) are left out; a new engine attaches only while no prepare
callback runs, and the slot of an old engine's plugin is not followed; the
`Intent`s of two starts always differ (`!=` compares references), so the service
process binds anew at each start; its own disconnect from a service of
its own process cannot happen.

## ServiceDelegate

`bind`, `unbind` and `handleBind` of one delegate, split wherever another thread can
see the difference: the `compareAndSet`, the cancellation of the job, its reset, the
launch. A job collects `bindServiceFlow`: `bindService` on the main thread, failure
and retry, `awaitClose`, the events, and the unbinding when it is cancelled.

| property | what it says |
|---|---|
| `Consistent` | without overlap, flag, job and binder agree when nobody is inside |
| `BindingSettles` | a bound delegate gets its binder, is unbound, or has given up after the last retry, unless calls raced |

What follows the `compareAndSet` is not atomic, and calls that overlap do break the
agreement: `handleBind` resets the flag after its callback, which may have bound
again (`common/Service.kt:38`). `raced` records an overlap. Two more limits: the flag
stays set when the retries are used up, and a connection whose job is cancelled
between `bindService` and `awaitClose` is never unbound (phase `leaked`).

Run. `service_delegate`: two callers, two jobs (the old and the new one), one retry,
no deadlock check, since the callers may be done. Fairness: threads and the main thread
go on. Android's disconnects need not come.

## BrandConfig and FirstAnswer

`refresh` from await to await: read the cache, race the URLs, save, show. The race
is the counter and the completer of `_fetchRemoteRace`: an answer completes, a
failure counts down and completes with null at zero, the timeout completes with
null. An error, an answer that cannot be decrypted and one without a valid
address are all "no configuration". Late answers of an old race still arrive.

`FirstAnswer` is the abstract promise: the first good answer, and nothing only if
every source failed or the time is up. `BrandConfig` maps to it with
`waitingFor <- inflight`, `outcome <- completer`; it has no counter, so that the
refinement is about the counting.

| property | what it says |
|---|---|
| `RaceKeepsPromise` | refinement of `FirstAnswer` |
| `ShownIsCached` | after refreshes that did not overlap, what is shown is what is cached |
| `RefreshEnds` | every refresh ends |

Overlapping refreshes can end with another configuration cached than shown; the
code has no guard, and `ShownIsCached` excludes them (`history`).

Run. `brand_config`: two refreshes, two URLs, two configurations, enough for a slow
answer of an old race beside a new one. Fairness: a refresh goes on; no URL has to
answer.

## FakeIPPool

Each operation of the store is a transaction of its own, so `get` is split into
`Advance`, `DelByIP`, `PutByIP` and `PutByHost`. Flush and `StoreState` are two
writes each, without the mutex. `New` makes a pool and restores the stored offset,
or flushes a store of another range; `Swap` puts it in place; `Die` ends the process
anywhere. Addresses are offsets in a range.

| property | what it says |
|---|---|
| `AddressLeadsBack` | the address of a host leads back to it, in the middle of every lookup and after every death |
| `NoEarlyReuse` | before the range is used up no address is given to a second host |
| `InRange` | a pool that knows its store finds no address of another range in it |

A pool of an old configuration and one of the new share the store, and a flush does
not take the mutex: when two writers meet, the mappings break. `torn` records
that, and the properties hold until then. The offset is stored only at
`Shutdown`: after a death the pool may give addresses again, and `exact` is false.

Run. `fake_ip_pool`: two pools, two hosts, two ranges of two addresses, so that
the range is used up and the address of one host is given to another; the run stops at
states that are torn (`CONSTRAINT`), since nothing is claimed there. The proofs cover
them. `restoreState`'s reads are one step: a pool that is being made serves nobody.

## Dialer

One dial in every mode: one address after the other or all at once, one family or
two, with or without a preferred one. A racer dials, offers its connection over the
unbuffered channel, or finds `returned` closed and closes it.

| property | what it says |
|---|---|
| `AnswerIsSound` | the returned connection is open, an error means that all failed, and no other connection is left open |
| `RaceEnds` | the dial returns and every goroutine ends |

One connection does stay open: a fallback that came first and is then overtaken by
the preferred family is neither returned nor closed (`dialer.go:283`);
`NothingLeftOpen` excepts it. In serial mode the model tries the addresses in any
order.

Run. `dialer`: two IPv4 and two IPv6 addresses, no deadlock check, since a dial
ends. Fairness: some step is taken as long as one can be; each dial has a deadline.

## RuleOrder and Indexing

`Indexing` is `lib/common/indexing.dart`: a key is a head, which says how many digits
the integer part has, and digits; `KeyBetween` is `generateKeyBetween`, with its
increments, borrows and midpoints, and `Rejects` is where it throws. Letters are
numbers in the same order, null is the empty sequence. `_midpoint` calls itself for what
follows the digits that agree and for what follows a digit that cannot grow; `Midpoint`
and `Above` say which digits those are instead, so that it can be reasoned about.

`RuleOrder` is the list of `ProfileAddedRules` and its part of the database. An
operation (`PutNew`, `PutEdited`, `DelAll`, `Order`) changes the shown list and
sends a write; `Execute` is the database isolate, `Fetch` and `Emit` the watched
query, whose answer replaces the list. `Sorted` is the result of that query: the rows
arranged so that each is ahead of those that follow. An insert that answers 0
(`rules.dart:193`) is left out. `OrderThrows` is a drop between keys that
`generateKeyBetween` rejects.

| property | what it says |
|---|---|
| `KeysValid` | every key stored or on its way is one the code accepts |
| `OrderSticks` | on a settled list with distinct keys, a rule dropped at the top or below a rule with a key ends up there in the database |
| `ShownSettles` | the list comes to show what the database has, unless the last drop threw |
| `NeighboursAscend` | **refuted**: the keys a rule is dropped between ascend |

Runs. `rule_order`: three rules, three operations, digits 0 to 2 and two heads a side,
so that three drops reach every carry, borrow and change of length except those at
the ends of the key space (`Smallest`, and a head above the last); with 26 heads
nobody gets there. The keys at the start are ones that earlier drops give. It does not
check for deadlock: the user stops. `rule_order_drops` is the finding below. Fairness:
the database executes what it is sent, the query runs and delivers.

The finding. A new rule has no key. When two of them are dropped at the top, the second
before the first one's key has come back, both get `a0`. From then on a rule
dropped between the two makes `generateKeyBetween` throw "Second order key must be
greater than the first", after the shown list was changed: the list shows an
order that is stored nowhere. The same comes of two rules dropped, without haste, below
rules that have no key. Two more effects of missing keys, which
`OrderSticks` excludes: a rule dropped below one without a key gets `a0` and moves above all
rules without keys, which sort last; and a rule that is
added, or edited, while others have keys sinks to the end, since `_put` stores it
without a key.

## Runs

| run | configuration | question | distinct states |
|---|---|---|---|
| `core_hub` | `MCCoreHub.cfg` | do overlapping requests keep listeners, configuration and lock straight, and is each answered? | 221,652 |
| `tun_handler` | `MCTunHandler.cfg` | are the lent references used as `CallbackLease` says, and is nothing left over? | 437,368 |
| `tun_handler_live` | `MCTunHandlerLive.cfg` | can the tunnel and a setup that downloads through it block each other? | 36,562 |
| `core_session` | `MCCoreSession.cfg` | do crashes at any moment confuse one restart after the other, and do calls and shutdowns return? | 36,507 |
| `core_session_overlap` | `MCCoreSessionOverlap.cfg` | what still holds when restarts overlap? | 1,001,968 |
| `run_state` | `MCRunState.cfg` | do app and service process agree, and is the lock let go? | 489,103 |
| `service_delegate` | `MCServiceDelegate.cfg` | do flag, job and binder agree, and does a binding settle? | 244,914 |
| `brand_config` | `MCBrandConfig.cfg` | does the counting race keep `FirstAnswer`'s promise? | 385,523 |
| `fake_ip_pool` | `MCFakeIPPool.cfg` | do the mappings survive deaths, restarts and new configurations? | 288,348 |
| `dialer` | `MCDialer.cfg` | is the answer of a dial sound, and does its race clean up? | 6,754 |
| `rule_order` | `MCRuleOrder.cfg` | are the keys valid, and does a drop stick? | 756,020 |
| `rule_order_drops` | `MCRuleOrderDrops.cfg` | finding: do the keys a rule is dropped between ascend? | |

Deadlock is checked except where a section above says that the system may stop.
Symmetry is used only in runs without liveness. For every property of a run that
passes `PROJECT.json` names a variant of a definition, a plausible slip in the
code, under which TLC finds the property violated; the variants are the definitions
marked "Variant" beside their originals. The runs of `CoreSession`,
`RunState`, `ServiceDelegate`, `BrandConfig` and `Dialer` leave `TypeOK` to the proofs.

    tlc -workers 2 -config MCCoreHub.cfg MCCoreHub.tla
    tlapm Core_proofs.tla

## Proofs

The theorems hold for every value of the constants: any number of requests,
connections, handlers, permits, cores, crashes, files. The assumptions are those
the modules name (a goroutine is not the tunnel's thread, `NoCore` is not a core,
a file has a port, and the like); TLC evaluates them in the runs.

**CoreHub** (`Core_proofs.tla`, first half). Neither `ListenersFollow` nor `SetupSettles` is
inductive. `HubInv` adds three facts the handlers rely on: a request in the second
half of `quickSetup` found the core initialised; a stopped or unconfigured core
has no open port; and the last setup sent is either still to come to its reading
of `config.yaml` or has left what it read in `currentConfig`. Theorems
`TypeCorrect`, `LockSafe`, `ListenersSafe`, `SetupSafe`.

**TunHandler** (`Core_proofs.tla`, second half).
`TunInv` is `HubInv` with four parts: `References` says phase by phase which
handlers have a listener, a callback and a reference, `Hooks` where the dial hook
is set, `Permits` ties the semaphores to the dialers (a handler whose
permits the thread owns has nobody inside; who calls found an open listener),
`ThreadLocks` ties `runLock` to the section of `TunHandler.start`. The
refinement follows: a reference is deleted in a phase in which the thread owns all
permits, so nobody is inside; a call begins only behind an open listener, and
only a handler with a reference has one. Theorems `TunTypeCorrect`,
`TunSettledSafe`, `TunListenersSafe`, `LeaseSafe`.

**CoreSession** (`CoreSession_proofs.tla`). Two invariants. `SocketInv`
(`OneOpenSocket` and `NoMissedSocket` with the types) is inductive for any
number of restarts. For one restarter `SessionInv` says which core is live at each
point of it: none while it connects, the one it started while it waits, the
attached one while it is idle, one with a closed socket while it shuts down; and
that `onCrash` runs only when none is. The theorems about one restart at a time
state that assumption (`Restarters = {r}`): `CompletedOnceSafe`, `OneCoreAliveSafe`,
`NoCoreForgottenSafe`, `StatusAgreesSafe`, `RequestsInSessionSafe`, `NoStaleCrashSafe`. Those that
need none: `SessionTypeCorrect`, `OneOpenSocketSafe`, `NoMissedSocketSafe`.

TLC checked `HubInv`, `TunInv` and `SessionInv` as invariants of small instances
before they were proved.

**RunState** (`RunState_proofs.tla`). The inductive invariant adds to the types and
`PendingIsHeld`: `runLock` is held by whoever is at a locked point
(`LockDiscipline`); without drift no two calls are under way (`OneCall`); and
`Phases` says, for each point of the one call that is and each stage of its
command, what both processes hold: before the service process acts they agree,
after it has acted the caller's answer is what it stored, and on its way
to `runTime` and `runState`. `Looked` says what is still known of a state that was
looked at: without drift no callback has emitted `START` since. The steps that
are between two points of no call are one lemma (`QuietMove`). `Agreement` is the
phase in which nothing is under way. Theorems `TypeCorrect`, `PendingHeld`,
`ProcessesAgree`, `StartsFromRest`.

**ServiceDelegate** (`ServiceDelegate_proofs.tla`). Without a race at most one
thread is inside (`OneInside`), and `Stages` says for each of its points what
is still to be done to flag, job and binder. Theorems `TypeCorrect`,
`DelegateConsistent`.

**BrandConfig** (`BrandConfig_proofs.tla`). `Counts`: while a race is open its counter
is the number of URLs that have not failed, which are those still in flight. That gives the
refinement (`RaceRefines`). `Alone` and `Stages` follow a lone refresh from the cache
to what it shows (`ShownCached`).

**FakeIPPool** (`FakeIPPool_proofs.tla`). `Transactions` says which half of a mapping
is there at each step of a lookup, `OneWriter` that without `torn` no two
lookups and flushes are under way, `StoredState` what the stored offset implies for the
store. Theorems `LeadsBack`, `NoneReused`, `NoForeignAddress`.

**Dialer** (`Dialer_proofs.tla`). Every open connection has one owner: its racer, the
racer of its family, the caller, or the fallback (`Held`, `Owned`); a group that
failed has only failed addresses (`GroupsKnow`). Theorem `AnswerSound`.

TLC checked these invariants, too, before they were proved.

**RuleOrder and Indexing** (`RuleOrder_proofs.tla`), in four parts.

1. *Keys.* `Less` is a strict total order, read position by position. From there:
   what `Increment`, `Decrement`, `Above` and `Midpoint` return, and
   `KeyBetweenIsBetween`: given two keys it does not reject, or none on a side,
   `generateKeyBetween` returns a key strictly between them, never null, and the key passes
   `_validateOrderKey` unless it is `smallestInteger`. The exception is in the code:
   a step down from the last integer part but one is that key, which is then refused.
2. *Lists.* A finite set has one arrangement along a strict order (`ArrangementExists`,
   `ArrangementUnique`), so what the query returns is known by what is in it and not by how
   it is computed (`SortedInOrder`, `InOrderIsSorted`).
3. *Steps.* The typing invariant `Typed(K)` says that the list, the database, the answers and
   the writes hold keys of `K`. With all keys it gives `TypeCorrect` and `KeysValidSafe`. For
   `OrderSticksSafe`: on a settled list the neighbours of the place of the drop are distinct and
   ordered, so the drop is accepted; every other row keeps its key; and the list that the
   user sees is an arrangement of the database as the write will leave it, so it is the one.
4. *The bottom.* `KeysValidSafe` and `OrderSticksSafe` speak of states, and behaviours,
   in which the smallest key is not reached (`AboveBottom`). Without that they are false:
   a rule dropped at the end of the list often enough gets `smallestInteger`, and the next drop
   beside it throws. `AboveBottomSafe` shows how often is enough: an operation makes one step
   down at most, and only steps under the lowest letter count, so `AboveBottom` is kept
   for as long as there are fewer operations than integer parts under that letter
   (`KeysSuffice`: 62^26 of them in the source, 9 against 3 operations in `rule_order`) when
   no rule had one of those at the start. The invariant is `Typed` again, with
   the keys that many operations can have made (`Room(n)`). `KeysStayValid` and `DropsStick`
   are the two properties under `KeysSuffice` alone.

TLC checked `AboveBottom`, and that each key has the room `Room(calls)` asks of it, in the
instance of `rule_order`.

**Only model-checked**: the liveness properties (`RequestsAnswered`,
`TunReturns`, `DialsReturn`, `CallsReturn`, `ShutdownReturns`, `LockIsLetGo`,
`BindingSettles`, `RefreshEnds`, `RaceEnds`, `ShownSettles`). They rest on
fairness and ENABLED, which the proof system does not reason about.

## Not modelled

- *Clash.Meta* beyond the pools, the dialer and what `CoreHub` and `TunHandler` call
  of it: a vendored upstream project of some 90,000 lines (protocols, rule engine,
  DNS, transports, congestion control), most of it parsing and cryptography of data that a
  model would abstract to nothing.
- *The rest of the core's handlers*: external providers, the log subscription and
  the event listener share globals without a lock. Every property of them is refuted by
  two requests that overlap, and nothing in the repository says what they should do
  then; they are hazards in `PROJECT.json`. File deletion and queries are pure I/O.
- *Concurrent writes on the core's end of the socket*: the order of whole messages does not
  matter to the session, and Go's connections serialise writes.
- *The Windows helper* and its path in `CoreSession`: a second process with a lock
  around one child; it cannot be composed with the session without a model of
  the operating system's process table. `hub.rs:46` is a hazard.
- *Setup and update pipeline*: debounced calls whose requests `CoreHub` takes in any
  order already. The state it records before a setup is sent is a hazard.
- *Service modules on Android* (`ModuleLoader`): hazard, same reason as the globals above.
- *Global and disabled rules, profiles, scripts, restore*: the code of the added rules
  with another filter, or single statements and one batch. `generateNKeysBetween` is never
  called.
- *Advertisements*: a cooldown and a load flag around a plugin's callbacks.
- *User interface, desktop integration, platform helpers, utilities*: widgets, one call per
  event, reads of `/proc`, conversions and HTTP.

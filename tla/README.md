# Verification of TLS+ in TLA+

TLS+ is a Burp Suite extension (Kotlin) with a native core (Rust). The core runs
a proxy inside Burp's process on a loopback address; the extension redirects
Burp's requests to it, and the proxy sends them to their real target with the
TLS and HTTP fingerprint of a chosen browser profile. This directory holds the
TLA+ models of its control logic, the TLC configurations that check them on
small instances, and the TLAPS proofs for all instances.

`src/` below is the repository; `proxy/...`, `transport.rs` etc. are files of
`src/crates/tlsplus-core/src/`, and the Kotlin files are under
`src/src/main/kotlin/com/tlsplus/burp/`.

Run a check with `tlc -config X.cfg MCmodule.tla` and a proof with
`tlapm Module_proofs.tla`. `PROJECT.json` lists which module each cfg belongs to,
the source lines of every definition, a mutation that breaks each property,
the findings and the hazards.

## 1. Inventory

| Component | Source | State | Operations | Interacts with |
|---|---|---|---|---|
| Server lifecycle | `lib.rs`, `proxy/server/mod.rs` | `SERVER_STATE` (running, address, shutdown handle) behind one mutex; per server task: listener, JoinSet of connections | start, stop, status; accept, drain, abort, complete | called by every Burp thread; signals connection tasks |
| Connection task | `proxy/server/connection.rs`, `proxy/websocket/` | select loop, bounded job channel, JoinSet of bridges | serve, hand over a tunnel, bridge, close | stopped by the server task; runs the request path |
| Request path | `TlsPlusHttpHandler.kt`, `proxy/service.rs`, `proxy/websocket/headers.rs`, `outbound.rs` | none: one request | redirect, classify, check metadata, strip, forward | asks the lifecycle for its status, the cache for a client |
| Client cache | `transport.rs`, `profiles.rs`, `http_client.rs` | `CLIENT_CACHE`: pool key to client | look up, build, insert | used by both request paths |
| Buffered forwarding | `proxy/forward/mod.rs` | the attempts of one call | send, retry, back off, read | called over the FFI |
| Extension | `TlsPlusExtension.kt`, `ui/`, `settings/`, `core/TlsPlusCore.kt` | stored address, buttons, timer, workers, event queue | autostart, start, stop, refresh, save, unload | start, stop, status |
| JA3/JA4 | `ja4.rs` | none | compute fingerprints of a ClientHello | called by the fingerprint pane |
| Native loader | `core/NativeLoader.kt` | `loaded` flag, monitor, extracted file shared by all Burp processes | ensureLoaded | before every native call |
| Fingerprint pane | `ui/TlsPlusTab.kt`, `core/TlsPlusCore.kt` | enabled buttons, worker, posted event, console | compute, clear, show | loader, JA3/JA4 |

What is hard in this code: `stop` waits up to 3 s *inside* the mutex that every
request needs for its status query; a stop may give up while the old server task
still drains; the accept loop is an unbiased select; a bridge job can be queued by
the very poll that completes its connection; the forced abort of a connection task
drops a JoinSet of bridges; HTTP/2 handlers outlive the task that polls them;
client construction happens between two critical sections; retries race with
an upstream that executes late; on Burp's side workers, a timer, an
autostart thread and the unload handler act on one server without a common lock;
and the library itself is extracted to a path that another Burp process may be
extracting to or loading from, on a thread that may be the event thread.

What makes each component correct:

* lifecycle: the status tells the truth, no server task is out of reach, a
  completed stop leaves nothing behind and frees the address, stops return;
* connection task: an announced tunnel gets a bridge, no handler waits for ever,
  the task and its tunnels end when they must;
* request path: no request loops through the proxy, HTTP/2 stays HTTP/2
  and HTTP/1.x stays HTTP/1 across the local hop, no internal header leaves the proxy, handler and proxy agree on the
  metadata, a tunnel is announced only when it exists;
* cache: one client per fingerprint, and never another profile's;
* forwarding: large non-idempotent requests run once, waiting is bounded, a JA4 in
  the answer is the trusted service's;
* extension: the stored address is the served one, the buttons end up right,
  nothing is left after an unload;
* loader and pane: the library is loaded once and before it is called, a failed
  load is not final, the buttons come back after every click;
* JA3/JA4: an answer or an error for every text, the version as the hello has it.

## 2. Modules

| Module | Models | Checked by | Proofs |
|---|---|---|---|
| `ProxyControl` | what start, stop and status promise: one atomic cell | as the property `ControlSpec` | |
| `ServerLifecycle` | the server lifecycle | `MCServerLifecycle` | `ServerLifecycle_proofs` |
| `TunnelService` | what is promised of the tunnels of a connection | as the property `ServiceSpec` | |
| `ConnectionTask` | one connection and its tunnels | `MCConnectionTask` | `ConnectionTask_proofs` |
| `ClientPool` | what is promised of the clients: one atomic get-or-open per fingerprint | implemented: proved | |
| `ClientCache` | the client cache | `MCClientCache` | `ClientCache_proofs` |
| `RequestPath` | the path of one request and of its answer | `MCRequestPath` | `RequestPath_proofs` |
| `BurpExtension` | Burp's side; EXTENDS `ProxyControl` | `MCBurpExtension` | `BurpExtension_proofs` |
| `Forward` | one buffered request | `MCForward` | `Forward_proofs` |
| `NativeLoader` | loading the library, in several processes | through `TabPanes` | in `TabPanes_proofs` |
| `Fingerprint` | JA3 and JA4 of a text | through `TabPanes` | |
| `TabPanes` | the fingerprint pane; EXTENDS `NativeLoader`, `Fingerprint` | `MCTabPanes` | `TabPanes_proofs` |

`ServerLifecycle` implements `ProxyControl` (checked and proved), and
`BurpExtension` uses `ProxyControl` as its server: what is shown of the extension
holds with the real server in its place. `ConnectionTask` implements
`TunnelService` (checked and proved), which is what the join of the connection
tasks in `ServerLifecycle` relies on: a task that returned left no tunnel.
`ClientCache` implements `ClientPool` (proved).

That the extension uses nothing of the server but `ProxyControl` is a theorem of its
own (`UsesControl`: `Spec => CtlSpec`), so the substitution is no assumption: every
step of `BurpExtension` is a step of `ProxyControl` or leaves `up`, `call`
and `reply` alone, and `ServerLifecycle` allows no behaviour of those that
`ProxyControl` forbids (`Implements`).

Operators whose name ends in a suffix after an underscore (`StopReturn_flagKept`)
are mutated forms of the definition they follow. No specification uses them; they
show that the properties notice a plausible mistake in the code.

### ServerLifecycle

`running`, `listenAddr`, `shutdown` are the fields of `ServerState`; `shutdown`
names the *generation* (the successful start) whose handle is stored. `lock` is the
mutex as seen across a wait: a critical section without a wait is one action,
guarded by `lock = NoCaller`; only `stop` waits inside it. `phase[g]` is the
program counter of server task `g`: accepting, signalled (oneshot sent, not yet
seen), draining, aborting, done (completion sent). `conn[k] = g` says that
connection task `k` is in the JoinSet of `g`. `socket[a]` is the kernel's view of
address `a`, other processes included. `waited` and `grace` count ticks of
`recv_timeout` and of the drain's timeout. `prompt`, chosen once, says that the
machine is responsive: no tick passes while something is `Overdue`. Both kinds of
machine are in the safety run, whose two timing properties speak of the prompt one;
`ServerLive` is about a runtime that need not be.

* `StartRefused`, `StartBindFailed`, `StartBound`: `start_local_server_impl`, whose
  early returns keep their order in `StartRefusal`; `Status`; `StopSignal`,
  `StopNotRunning`, `StopReturn`: `stop_local_server_impl` before and after its wait.
* `Accept`, `BeginDrain`, `DrainTimeout`, `Complete`: the server task. `Accept` is
  allowed after the signal because the select is unbiased. `BeginDrain` tells the
  connections, leaves the loop and drops the listener, with no await in between.
* `ConnClosed`, `ConnObeysShutdown`, `ConnAborted`: the ways a connection task ends.

### ConnectionTask

The select is `biased`, so the order of its branches is part of the model:
`PastRecv` says when the branches after the channel are reached. On HTTP/1.1 a
handler is part of the connection's future and moves only while the task polls
it (`HandlerRuns`, `pc = "inConn"`); on HTTP/2 it is a detached task. `told[r]` is
what the client was answered, `inbound[r]` hyper's `OnUpgrade` future. A job is in
`channel`, then `bridge[r]` runs. `DropFrame` is what the end of the future drops.
`ServerLifecycle` sees such a task as one `conn[k]`; `ConnObeysShutdown` there is
`SelectShutdown ... CloseReturn` here, `ConnAborted` is `Abort`.

Under `ServiceOf` and `TunnelOf` the task is a `TunnelService`: a tunnel is
announced (its job is queued or its bridge waits for the client's side), carries,
and is over for good. A task that returns leaves none; one that is aborted leaves
bridges that are over at their next await.

### ClientCache

`get_wreq_client` as lookup, build and insert, with the lock released around
the build. Names, the catalogue and the emulations are parameters; `Trim` and
`Fold` are what `str::trim` and `eq_ignore_ascii_case` make of a name, `TlsProfile`
what the profile list says of it. There are
two doors: the proxy's, which falls back to `rustls_default`, and the Rust API's
(`http_client.rs`), which trims and refuses.

As a `ClientPool` the cache is seen through `calling` (who is between the lookup and
the return), `want` (the fingerprint the name means), `pool` (the cached clients with
their emulation) and `answer`. A hit, and an insertion that lost the race, is
`PlShare`; the insertion that wins is `PlOpen`; a miss and a build are invisible.

### RequestPath

A request moves through stages. Header values are reduced to what the checks tell
apart (`Metas`), the shape to what `classify` looks at (`Shapes`). `Downgrade` is
the local connection between Burp and the proxy, `ComeRound` a target that is the
proxy itself. The handler knows the endpoint by host and port (`sameEndpointHost`),
so `Hosts` has the endpoint, an alias of it, other local ports, and the rest.
`FailsOpen` is the handler's `catch`. Internal headers may have been typed into a
request (`TypedMetas`); `Declare` replaces them, so the proxy's two readers of the
metadata (`PlainMetaOk`, `TunnelMetaOk`) must both accept what the handler wrote.
Repeated and non-text headers are the clients' only.

The version of the request is asked of wreq (`OutboundVersion`); what the target sees
is `SentVersion` of it, HTTP/2 or HTTP/1.1. The tests are the evidence: an HTTP/1.0
request reaches the upstream as HTTP/1.1 (proxy_protocol_compat.rs:18-90), one of
HTTP/1.1 as HTTP/1.1 and one of HTTP/2 as HTTP/2 (proxy_http2.rs:85, 167).

The way back: `Replied` is any answer (`Replies`), `Verdict` what `websocket::proxy`
makes of it, and `Relay`, `Malformed`, `UpgradeFails` and `Bridge` its four ends;
`bridged` says that the connection was handed to the connection task. A timeout
that is a valid number but no point in time (`"huge"`) is refused on the tunnel path
(`NoDeadline`) after the client was looked up, hence 400 or 502 in `Refuse`.

### BurpExtension

Threads are `AutoThread`, the tab's `Workers` and `Unloader`. Each runs a job with
one native call in its middle (`NativeCall`, `TakesEffect`, `Returned`); what it
leaves for Swing is appended to `edt`. `buttons` are the enabled ones of Start and
Stop. `settings` is the persisted address; a write to it is one step.
`plain` and `calm` are history variables of the properties.

### Forward

`forward_request`: attempts 0..2, each with the whole timeout, a backoff before the
second (100 ms) and the third (400 ms). The upstream executes what it was sent at
any time (`Executes`), also after the attempt was given up; a server error or a
transient failure is retried; `BodyRead` has no deadline, as in the code. `target`
is the URL asked for and `from` who answered; the two agree because the client
follows no redirect (`Answerers`). `Diagnostic` is `diagnostic_ja4`: the JA4 may be
missing or malformed, and then is left out.

### NativeLoader, Fingerprint and TabPanes

`step[t]` is where thread `t` is in `ensureLoaded`. Every process has its own
`loaded` flag, its own `monitor` and what it `mapped`; the file at `path` is
shared, because it is extracted to one directory below `java.io.tmpdir`. A file is
known by the thread that created it, and `whole` says whether it is completely
written. `Files.copy` with `REPLACE_EXISTING` is three steps, as in the JDK: delete
the old file, create a new one - which must not exist - and write it. `host` is
what the machine has: a packaged library, an installed one, and whether it pins
mapped files as Windows does. `Blocked` are the exceptions the code can meet by the
way others act, `Fault` those that come from outside, `Restart` the end of a process
with its `deleteOnExit`.

`Fingerprint` is `ja4.rs` as two functions of an input: a text with an odd digit
(`parseHex` throws), bytes that do not parse, or a hello with its signature.

`TabPanes` puts the pane on top: `job` is the computation that holds the two buttons
disabled, `posted` the event its worker left, `output` the console. The worker and
the event thread (`OnClear` makes a native call there) load the library like any
other thread; `OtherCall` is all others, in this process or another.

## 3. Runs

| Run | Question | Bounds |
|---|---|---|
| `ServerLifecycle` | `StatusIsTruth`, `NoOrphanServer`, `CompletionMeansQuiet`, `StoppedMeansFree`, refinement `ControlSpec`; `StopNeverTimesOut`, `ImmediateRestart` on a responsive runtime | 2 callers, 2 addresses, 2 generations, 2 connections, timeouts 2 and 3 |
| `ServerLive` | `StopTerminates` even when the runtime does nothing, `SignalledServerEnds` when it polls its tasks | 2 callers, 1 address, timeouts 1 and 2 |
| `ConnectionTask` | `NoTunnelLost`, `HandlersFinish`, `ShutdownEndsTask`, `GonePeerEndsTask`, `NoTunnelOutlivesTask`, refinement `ServiceSpec` | 3 requests, channel of 1 (as in the code) |
| `ClientCache` | `OneClientPerKey`, `FingerprintIsRight` | 2 threads, 8 spellings, 4 profiles, 4 builds |
| `RequestPath` | `NoProxyLoop`, `VersionSurvives`, `TunnelNotDowngraded`, `RedirectedIsAccepted`, `TunnelAnnouncedIsReal` | every shape, metadata and answer, 3 passes |
| `BurpExtension` | `StoredAddressIsServed`, `UnloadStopsServer` | 2 workers, 2 addresses, 1 fallback, 2 user actions |
| `BurpLive` | `ButtonsSettle` | 1 address, 1 user action, timer on |
| `Forward` | `LargeRunsOnce`, `WaitBound`, `Ja4IsTrusted`, `HeadOrGiveUp` | timeout of 2 ticks |
| `TabPanes` | `LoadedOnce`, `CallsAreLinked`, `ButtonsComeBack`, `LoadsWhenUnhindered` | 2 processes, 3 threads, 1 fault, 2 clicks, 2 inputs |

Each module's type invariant is checked in its first run. Why these bounds are
enough: two generations are what a stop that timed out and the next start need;
with two callers one can wait on the mutex while the other stops; the tick
counts keep the code's order `Grace < StopTimeout`, in `ServerLifecycle` even its
values in seconds; two h2 handlers compete for
the one slot of the channel while a third request's bridge runs; two threads are
the whole race of the cache, and the catalogue slice has an alias, a platform
variant and a profile without emulation; three passes are one more than
`NoProxyLoop` allows; two workers are enough for status results to be applied out
of order; two threads of one process race for the monitor while a third one, in
another process, replaces the file, and one fault is a failed step or a restart at
any moment of it - what a fault leaves behind is met by every later call. Every
bound (`MaxServers`, `MaxBuilds`, `MaxHops`, `MaxClicks`, `MaxQueue`, `MaxFaults`,
the size of `Conns`, `Reqs`, `Workers`) is a constant; the
safety theorems below hold for all their values. `MCView` forgets the reply of a
thread that is gone, and the address of one that says "not running": no action
and no property reads either again.

`CHECK_DEADLOCK FALSE` stands where the system may really stop: a connection task
that ended, a request that was answered, an extension that was unloaded, a pane
nobody clicks any more.

### Findings

Three runs check one statement of the repository each, and TLC refutes it:

* `Loopback` - README.md:187 says requests to `127.0.0.1` and `localhost` are not
  redirected; only the proxy's own port is exempt. (`NoProxyLoop` shows that the
  reason given there, avoiding loops, is satisfied anyway.)
* `BurpUnload` - "Cleanup on unload" (TlsPlusExtension.kt:77): a start that is under
  way when the handler runs leaves a server behind. `UnloadStopsServer` is what does
  hold.
* `Ja3Version` - "TLS version as decimal integer" (ja4.rs:108, 96): a TLS 1.2 hello,
  which carries 0x0303 (ja4.rs:194), that is 771, gets 770; TLS 1.0 to 1.2 are each
  one too low, so that TLS 1.0 shares 768 with SSL 3.0. The
  run looks at one hello of each version.

A few more differences between text and code are visible in the models and have no
run. In `Forward` the body is read outside the timeout (`BodyRead`), so an upstream that
stalls in it keeps the call, while lib.rs:172 announces "Request-level timeouts";
`HeadOrGiveUp` is what does hold. In `RequestPath` the ordinary path strips a fixed
list of hop-by-hop headers and keeps what `Connection` nominates (`Kept`;
README.md:185), and a downgraded HTTP/2 request is rejected only if it is a CONNECT
or an upgrade, while an ordinary one is sent on over HTTP/2 (`VersionChanged`,
`OutboundVersion`; CHANGELOG.md:16).

## 4. Fairness

* `ServerLifecycle`: `CallerFairness` is time passing and the operating system
  scheduling a thread whose wait is over; nothing else is needed for
  `StopTerminates`, so the run's specification (`StuckRuntimeSpec`, on a machine that
  is not `prompt`) has no more. `RuntimeFairness`, the
  premise of `SignalledServerEnds`, is Tokio polling woken tasks and dropping
  aborted ones. No connection has to end by itself or to obey the shutdown.
* A `prompt` machine replaces fairness by urgency: no tick passes while the server
  task or the waiting thread has something to do, or an aborted task is still
  there. This is the assumption "the runtime reacts within a second" that the
  code's 2 s and 3 s make; on another machine the two properties say nothing.
* `ConnectionTask`: the task, handlers and bridges are polled when they can make
  progress; the awaits of a handler on the network have deadlines (`Refuse`), and
  so has a bridge's wait for the client (`BridgeGivesUp`). There is no
  fairness for the peer closing, for a tunnel ending, for the flush of an HTTP/1.1
  101 answer, or for the server's signal and abort. A runtime that polls *all*
  ready tasks is Tokio's documented guarantee; the handler's deadline is its
  `timeout_at`.
* `BurpExtension`: JVM threads run, native calls return (`StopTerminates`), Swing
  handles its queue, and the timer of a loaded tab keeps firing (`Tick`). The user
  and Burp owe nothing; `ButtonsSettle` assumes the tab stays loaded.
* `Forward`: time passes and the task is polled. The upstream owes nothing.
* `TabPanes`: the JVM runs its threads, a call inside the loader goes on or throws,
  Swing handles its queue, and the other callers (the status timer, the request
  handler) keep calling. Nobody owes a click, and no process or disk a fault.
  `LoadsWhenUnhindered` has its own premise: from some time on no other process is
  extracting, and the machine has a library it can load. In the run's bounds its
  premise is met mostly by the second process's thread, which keeps calling; the
  tab's process makes few calls (`MaxClicks`), and Windows pins are excluded.

## 5. Proofs

All theorems hold for every value of the constants that the named assumptions
allow; those say that bounds are naturals, that the special model values are
not addresses or callers, and that the fallback profile has no emulation of its
own (`profiles.rs:163-168`).

**ServerLifecycle_proofs.** None of the invariants is inductive alone:
`StatusIsTruth` says nothing while the mutex is held, which is where it could be
broken. `IInv` adds `LockInv` (exactly the caller inside `stop` holds the mutex;
the handle it took is out of the state, is signalled, and nobody but it owns
the address it took), `HandleInv` (the stored handle, address and flag belong to one
serving generation) and `OwnerInv` (sockets belong to generations that still accept,
connections to generations that are born and not done). `InitInv` and the step
lemmas give `Spec => []IInv`, from which follow `TypeCorrect`, `StatusTruth`,
`NoOrphan`, `CompletionQuiet`, the action property `StoppedFree`, and
`Implements`: every step is a step of `ProxyControl` under `Up`, `pc`, `Shown`, or
leaves them unchanged. The server stops being up at `StopSignal`, not when
`stop` returns.

**ConnectionTask_proofs.** `TypeCorrect` includes the bound on the channel
(cardinalities from FiniteSetTheorems). `ReturnJoined` needs that a task can only
leave through a join. `TunnelKept` needs that what was announced was sent, that
sent jobs stay in the channel or have a bridge, that the task does not return while
the connection is unfinished, and that an unfinished h1 connection is what
its handlers run in.

**ClientCache_proofs.** The invariant ties `handed` to the cache: whatever was
returned for a key is what the cache holds for it, so the entry never changes once
set. `RightFingerprint` needs that equal pool keys mean equal emulations (a lemma
about `PoolKey`). `Pooled` is the refinement of `ClientPool`: each step of a caller is
one step of the pool or none. That a winning insertion opens a *new* client follows from the
same invariant - a made client has the emulation of its own key, so if it
were already cached it would be cached under the key that was found empty.

**RequestPath_proofs.** After the first pass no metadata is left
(`NothingInternalKept`), and a request without metadata is refused on every
path (`NoMetaNoPass`): `NoLoop`. `TypeCorrect` needs that (`Stripped`), because what
goes out again has no metadata. `DeclaredInv` says what a request of Burp's carries
on its first pass: what the handler declared for the shape it had, on a shape that
the local connection may have lowered in a known way. From it follow `VersionKept`,
`TunnelKept` and `Accepted`, the last with a lemma that both readers accept every
declaration and refuse everything that can be typed. `Announced` follows
from `ToldInv`: nothing is bridged before the answer, and the answer comes from the
one verdict that bridges. `Hidden` (`OneHopStaysBehind`, stated in the model and
also tried with TLC, but in no run) says that the two hand-written filters agree: neither
path lets metadata, the local `Host` or a hop-by-hop header out, but for the two headers an
HTTP/1.1 upgrade needs.

**BurpExtension_proofs.** With no start under way at the unload, none can begin
afterwards (the user is gone, autostart is past its last call), so the stop's
effect lasts: `UnloadStops`. `TypeCorrect` needs that a reply that says running names an
address (`RepliesName`), for a worker may store what it names. `AddressStored` rests on
`StoreInv`, about an extension that is loaded and whose user leaves the address alone:
nobody stops the server (`NoStop`), a starter whose call said running knows the
served address (`StartersKnow`), and the served address is stored or some starter
that has not failed will store it (`StoredOrWill`).

**Forward_proofs.** The attempts on the wire or executed are among those
made (`RunsOnce`); elapsed time plus what is left never exceeds the share of the
attempts made so far (`Waits`), which also bounds the time in `TypeCorrect`.
`Trusted`: the record's JA4 stays out until the body of an answer is read, and
what was answered came from the target.

**TabPanes_proofs.** `LoaderInv`, about every process at once: who is inside
holds the monitor, and the flag is unset (`MonitorInv`); the flag is set only over a
mapped library, and a library mapped under a free monitor has its flag set
(`MappedInv`); who was let through saw the flag (`LinkedInv`). The two processes share only `path`, `whole` and `onExit`,
which it does not need. `JobInv` ties the worker to the pane: the worker is in a call
only while a job is there and nothing is posted.

**Timing in ServerLifecycle_proofs.** `PromptInv` holds on a prompt machine: a
waiting stop has waited no longer than `Grace`, not at all while its generation is
only signalled, and no longer than the generation has drained (`WaitInv`); a
signalled generation has its stop waiting (`SignalInv`);
with `StopTimeout > Grace` the wait never runs out (`NeverTimesOut`). Then a server
that was stopped is done, its socket closed: `Restartable`.

**TunnelsServed** (ConnectionTask_proofs): with the invariant, every step of the task
maps to a step of `TunnelService` or changes nothing of it. The drop of the
frame is the step `TsEnd`, which may end several announced tunnels at once.

**Nobody waits in a circle, nothing goes back.** These are safety theorems about
progress. `Unwedged` (`NeverWedged`): while a handler is under way, or the task was
told to stop or lost its peer, or a bridge outlives its task, somebody among task,
handlers and bridges can move by itself; the bounded channel, whose sender is polled
by the very task that must drain it, is where this could fail. `Onward`
(`OnlyOnward`): handlers, bridges, task and connection never return to an earlier
stage, and every step but the end of a poll moves one of them on, so the select loop
cannot spin. `CallRunsDown` (`RunsDown`): every step of a buffered request lowers a count of
the steps left, so the retry loop cannot start again. `Held` and `Unstuck`
(`MonitorIsHeld`, `NobodyStuck`): whatever fails or restarts, nobody leaves with the
loader's monitor, and who waits for it waits for a thread that is inside, which
waits for nobody.

**Progress under fairness.** The provers do not reason about `ENABLED`, so none of these
theorems has a `WF_` formula as hypothesis. Their hypotheses are the same conditions
with the guard spelled out: *again and again there is nothing to do, or the step
is taken* (`[]<>~Guard \/ []<><<A>>_vars`). In scratch runs on the bounds of section 3
TLC compared the guards with `ENABLED` of the steps - equal, and `TaskReady` a little
narrower, which weakens the hypothesis - and found that the fair specifications of the
runs satisfy the hypotheses. Time is *it goes past every bound, unless the wait is over*
(`TimeGoesPast`, `WaitTime`, `GraceTime`), which is what weak fairness of a tick
gives; from it and the bounded clocks of `TypeOK` no counting is needed.

| Theorem | Shows, for all values of the constants | From |
|---|---|---|
| `StopsEnd` | `StopTerminates`: the mutex is given back, the runtime owing nothing | `WaitTime`, `StopScheduled` |
| `ServersEnd` | `SignalledServerEnds`, for any number of connections | `GraceTime`, `ServerPolled`, `AbortsLand` |
| `TunnelsEnd` | `NoTunnelOutlivesTask` | `BridgePolled` |
| `Heard` | `ShutdownHeard`: a task told to stop leaves its loop | `TaskPolled` |
| `CallEnds` | `HeadOrGiveUp`, for every timeout | `TimeGoesPast`, `Polled` |
| `LetsGo` | `MonitorLetGo`: nobody stays inside the loader | `LoaderRuns` |
| `ComesBack` | `ButtonsComeBack`, with any number of threads in the process | `HolderRuns`, `LoaderRuns`, `Admitted`, `EventPolled`, `WorkerRuns`, `InOrder` |
| `WorkersFinish` | `WorkersEnd`: a worker of the tab ends | `CallReturns`, `WorkerRuns` |

The argument is the same each time: the stages a wait goes through are states that a step
keeps or leaves for a later one (one lemma about steps, from the inductive
invariant), the fair step leaves them, and temporal logic chains the stages.
`CallEnds` has nine of them, three for each attempt.

Two hypotheses deserve a reader's attention. `AbortsLand` says that the aborted tasks
of a generation are all gone in the end; weak fairness of each single
`ConnAborted` implies it for the finite set of connections, by an induction that is
out of the provers' reach. Without it `ServersEnd` is false, as TLC confirms.
`Admitted` says that the loader's monitor does not pass a thread over for ever. Java
promises no order among the threads waiting for a monitor. With two threads in the
tab's process, as in the `TabPanes` run, weak fairness is enough; with three, TLC finds
`ButtonsComeBack` violated under weak fairness, by another caller that takes the monitor
again and again while its loads fail, and satisfied when getting in is strongly fair. `ComesBack`
needs nothing else of the number of threads. A load that succeeds ends the contention, so this concerns
only a machine without a usable library. `InOrder` is the event queue's promise to handle
events in the order they were posted.

**Only model-checked**: `HandlersFinish`, `ShutdownEndsTask`, `GonePeerEndsTask` (the
last two count down the requests of a finite set, the first follows handlers through a
channel whose slot they compete for), `ButtonsSettle` (counts down a queue and the user's
clicks) and `LoadsWhenUnhindered` (its premise is itself temporal, and speaks of whatever calls
come). Each would need an induction over data, or a fairness rule with `ENABLED`. `Heard` is the first half of
`ShutdownEndsTask`. Every invariant and every action property of the passing runs is
a theorem.

## 6. Not modelled

* Bytes: bodies, tunnel contents, header values beyond what the checks tell apart.
* The parser, sorting and hashing of `huginn-net-tls`: an input carries its signature.
* The profile-details and proxy-test buttons: the pattern of the fingerprint pane with
  one other native call, whose effects are `ClientCache` and `Forward`.
* The settings for profile, mode and header order: single writes nothing depends on.
* The catalogue of profiles: a library's list; `ClientCache` takes it as a parameter.
* wreq, hyper, Tokio, Swing and Burp: modelled by how the code uses them (external).
* JNA's own open of the library. NativeLoader.kt:33 sets `jna.library.path`, so the
  generated bindings open the file in the shared directory again at the first native
  call, when another process may have replaced it. The bindings are not under src/;
  `linked` in `NativeLoader` is the return of `System.load`, and `CallsAreLinked`
  speaks of that.
* Layout, logging and messages; `TlsPlusProxyHandler.kt`, which only logs.
* A poisoned mutex: nothing panics while holding `SERVER_STATE`.

## 7. Plan

Done: all components that keep state, with a theorem for every safety property that
a run checks, three refinements, the timing argument of the stop, and the progress
theorems of section 5. What could still be added:

1. `ServerAndConnections`: the server task over several `TunnelService`s, to state in
   one model that a completed stop leaves no running tunnel except those of aborted
   connections; today it is `ReturnMeansJoined` and `ServiceSpec` on one side and
   `CompletionMeansQuiet` on the other.
2. The status query of the handler composed with the lifecycle: an endpoint that is
   stale by the time the connection is made fails the request, and nothing more.
3. Partial reads by the loader of a file another process is writing: today a load of
   an incomplete file is an error, which is what dynamic linkers do in practice.
4. The liveness properties that are only model-checked, once there is a way to count
   over a finite set in a proof.

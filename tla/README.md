# Forza Horizon 6 Telemetry Server: TLA+ models and proofs

This directory holds TLA+ specifications of the telemetry server in
`apps/server-rs`, the configurations that check them with TLC, and proofs that
TLAPS checks. Paths below are relative to the repository's root unless they name
a `.tla` or `.cfg` file here; `server-rs` stands for `apps/server-rs/src`.

    tlc -workers 2 -config broadcaster.cfg MCTelemetryBroadcaster.tla
    tlapm TelemetryBroadcasterProofs.tla

`PROJECT.json` lists the runs, which lines of the code every definition models,
the hazards, and for every property a mutant of the model that breaks it. Mutants
are the operators introduced by "Mutant:" in a module; nothing uses them
otherwise.

## The system

Forza sends UDP packets to the server; browsers (a dashboard on a tablet, a
settings page) read them over WebSocket and HTTP.

    UDP packet -> receiver -> parser -> store.update -> request_broadcast
                                            |                  |
                    heartbeat, mock  -------+------------------+
                                            |                  v
      GET /api/status, /api/telemetry <- store        run_broadcast_loop
                                            |                  v
                        greeting of a WebSocket client   watch channel -> clients

| Component | State | Operations | What is hard |
|---|---|---|---|
| Broadcaster, `server-rs/telemetry/telemetry_broadcaster.rs` | request, interval and frame watch channels; loop locals `pending`, `interval`, `tokens`, `last_refill`; counters | `request_broadcast`, `set_broadcast_hz`, `stats`, the loop | the loop borrows a value other than the one that woke it; a rate changed while tokens accrue; counters read in two places |
| Store, `server-rs/telemetry/telemetry_store.rs` | latest snapshot, time of the last packet, packet metadata, gap statistics; the timeout in an atomic | `update`, `get_latest`, `set_last_packet_info`, `mark_disconnected`, reads | the clock is read before the lock; a wall clock may be set back; status is put together from several reads |
| Runtime manager, `server-rs/telemetry/telemetry_runtime.rs` | `RuntimeInner` under an async mutex: stop channel, handles, address, mock flag | `start`, `stop`, `restart`; UDP, heartbeat and mock tasks | handlers dropped at an await; tasks between update and request when stop comes; failed binds; a dead receiver |
| UDP receiver, `server-rs/udp/forza_udp_receiver.rs` | socket, time of the next metadata sample | its loop | select between stop and packet, parse errors, socket errors |
| HTTP API, `server-rs/http/create_http_server.rs` | configuration behind an `RwLock` | `PUT /api/config`, `POST /api/runtime/*`, `GET /api/status` | five steps without a common lock, beside starts and stops |
| Configuration, `server-rs/config.rs` | `config.json`, the environment with its `.env` files | load, save, validate | layers of sources checked as one, fallbacks; a save that is not atomic, beside others and in processes that end |
| WebSocket delivery, `server-rs/websocket/telemetry_websocket.rs` | a receiver of the frame channel per client | greeting, forward, time-out | greeting against frames, slow clients |
| Parser, `server-rs/parser/` | none (pure) | `parse`, `parse_snapshot` | layouts by packet length, fast path against debug path |
| Dashboard client, `apps/dashboard/src/telemetry/` | socket, timers, latest snapshot | start, stop, reconnect, receive | late events, late fetch |
| Legacy Node server, `apps/server/src`, and `scripts/` | a single-threaded predecessor | | |

What makes each correct:

- Broadcaster: never faster than its rate allows, never a frame nobody asked for,
  never back in time, statistics that add up; a new rate takes effect however busy the requests are.
- Store: statistics that agree with each other and with the packets, silence
  noticed in time, a valid gear kept, answers that take nothing back.
- Runtime: running means every task works, stopped means none does and the
  clients were told; receivers never overlap; every call returns.
- HTTP API: file, memory and what runs agree, or the page was told they do not.
- Delivery, client: a client ends up with the newest snapshot the server has.
- Parser, receiver: a packet means the same on every path, what is shown is in
  range and in context, metadata keeps up with the stream.
- Configuration: every start finds valid settings, saved ones first; a save changes
  file and memory, or neither.

## Modules

| Module | What it is |
|---|---|
| `LatestThrottle` | abstract specification: a latest-only throttle with credits |
| `BroadcastLoop` | what wakes and blocks the broadcast loop, in finitely many states |
| `TelemetryBroadcaster`, `MCTelemetryBroadcaster` | the broadcaster, and its instances |
| `TelemetryBroadcasterProofs` | its theorems |
| `TelemetryStore`, `MCTelemetryStore` | the store with `GET /api/status`, and its instances |
| `TelemetryStoreProofs` | its theorems |
| `TelemetryDelivery`, `MCTelemetryDelivery` | store, throttle and WebSocket handlers composed, and an instance |
| `TelemetryDeliveryProofs` | its theorems |
| `TelemetryClient`, `MCTelemetryClient` | the dashboard's WebSocket client, and an instance |
| `TelemetryClientProofs` | its theorems |
| `TelemetryService` | abstract specification: one service, begun and ended as a whole |
| `TelemetryRuntime`, `MCTelemetryRuntime` | the runtime manager and its tasks, and instances |
| `TelemetryRuntimeProofs` | its theorems |
| `RuntimeControl`, `MCRuntimeControl` | `TelemetryRuntime` composed with the `PUT /api/config` handler |
| `RuntimeControlProofs` | its theorems |
| `AppConfig` | how a configuration is put together and validated, as operators |
| `ConfigFile`, `MCConfigFile` | `config.json` over the lives of the server, and its instances |
| `ConfigFileProofs` | theorems of both |
| `ForzaPacketParser` | the packet parser, as operators |
| `ForzaUdpReceiver`, `MCForzaUdpReceiver` | the receive loop that uses it, and an instance |
| `ForzaUdpReceiverProofs` | theorems of both |

### TelemetryBroadcaster

A snapshot is named by the position of its `send_replace` in the request channel,
so a watch channel's value and version are one number; `seen` is the version
`request_rx` has marked as seen. `changed()` marks, the later `borrow()` reads
whatever is there by then and does not mark: `RequestReady` and `BorrowPending`
are separate steps, with requests in between.

Time is a count of ticks. A token is `Scale` quanta and a rate is the quanta a
tick earns, so that a rate may leave a fraction of a token in the bucket as the
`f64` does. `RefilledTokens` is `refill_broadcast_tokens`; `ApplyInterval`
refills at the old rate before it takes the new one. `TakeToken`,
`RecordBroadcast`, `SendFrame` (or `RecordSerializationError`) are the steps of
`publish_snapshot` that others can observe; `DropRequest` is the missing `else`
of the token check. `stats()` is three steps under its mutex.

`earned`, `window` and `floor` are auxiliary. `window` is any past moment
(`OpenWindow` may choose any), so `RateCap` speaks of every window of time.
`floor` is the newest request at the loop's last decision, and is what the
refinement of `LatestThrottle` needs: a frame is never older than it.

Requests have to be bounded here for TLC. What must hold with requests that never
cease is said in `BroadcastLoop`, which keeps of a request that there is an unseen
one, of `borrow`, refill and token check that the loop decides one way or the
other, and of `stats()` that it holds the mutex. It has a few hundred states and
no bound at all, so the starvation of one channel by the other
can occur in it: with either order of a `biased;` select, the mutants
`IntervalReadyIfNoRequest` and `RequestReadyIfSameRate`, it does. `ImplementsLoop`
ties it to the detailed module: every step of `TelemetryBroadcaster` is one of
`BroadcastLoop` or a stutter, and one that `BroadcastLoop` is fair to, such as
`IntervalReady`, is the step of the same name.

Not modelled: ages, payload sizes, the EMA of the interval, WebSocket counters.

### TelemetryStore

`update()` is two steps: `ReadClock` before the lock is awaited, `Store` with it
held. Everything else with the lock is one step. `KeptGear`, `RecordGap`,
`Remember` and `Bucket` are the parts of `update()`. The clock is
`SystemTime` (`now_millis`), a wall clock: `Advance` may set it back.
`GET /api/status` takes the read lock eight times for one answer, and `Status` is
those eight reads in the handler's order (`lastPacketAt`, `lastPacketInfoAt`, the
timing statistics, `connected`, `gameConnected`, `hasTelemetry`,
`receivedPacketCount`, `lastPacket`), with updates, clock and settings in between.
`connected` and `gameConnected` are two calls of `is_connected()`, each with the
clock and timeout of its own moment. `StatusKeepsItsWord` says which of the answers
these reads could give the code excludes; its comment says which it does not.

`storedAt` is auxiliary: the clock when the last update took effect, later than
the time it stored if it had to wait for the lock, or `SetBack` from the first time
the clock is set back. `Steady` says that it has not been yet.

Not modelled: the EMA of the packet interval and the rate worked out of it;
the fields of a snapshot other than gear and connected.

### TelemetryDelivery

From the store to the browsers. The broadcaster is an instance of
`LatestThrottle`, which `TelemetryBroadcaster` is proved to implement, so nothing
of its loop is repeated here. A snapshot is the number of its update in the
store, a request the number of its `send_replace`: the packet source (`Writers`)
updates the store and then requests, the heartbeat and `stop()` (`Repeaters`)
re-read the store and then request, and the two orders may differ.

A handler subscribes (`Subscribe`), waits for the upgrade, greets the client with
`get_latest` (`Greet`), and then waits for the channel (`Changed`), reads it
(`Borrow`) and sends. `unseen` is `has_changed` of its receiver: every
publication sets it, and a value read by `borrow()` after `changed()` stays
unseen. A send succeeds, fails, or times out after 250 ms, when what was being
sent may or may not have arrived; `Close` drops the receiver. `sent` outlives the
connection, as the browser's own latest snapshot does; `last` is auxiliary.

Not modelled: the send counters, `client_count`, and the `connected` flag of a
greeting, which `get_latest` works out anew.

### TelemetryClient

The other end of a connection. JavaScript runs one task at a time, so every
action is a whole handler; what may come in any order are the tasks. `ready` is
the `readyState` of each WebSocket object, of which several may exist: one in
use (`socket`), others on their way out after `stop()`. The browser's own rules
are part of the model: no `open` or `message` once `close()` was called, `close`
in the end for every socket, and `error` only just before it (so the handler's
`socket.close()` finds the socket closed already). `Start` and `Stop` are the
effect of `useTelemetry.ts` and its clean-up, in any number and alternation;
`ServerCloses` is what a timed-out send in `TelemetryDelivery` looks like from
here.

Of the snapshots only whether there is one matters (it decides between
"connecting" and "reconnecting"). Not modelled: metrics, the render loop.

### TelemetryRuntime

Every successful start is a generation with its tasks, stop channel and port.
A caller (main, an HTTP handler, the Ctrl+C handler) is a program counter over
the awaits and the observable writes of `start` and `stop`; `restart` is one
after the other with the mutex released in between. `Cancel` is axum dropping a
handler whose client went away: at an await only, releasing the mutex guard and
forgetting the handles, while the tasks live on.

A task at work (`TaskWorks`) has updated or read the store and must make its
request (`TaskRequests`) before it looks at the stop channel again. `SocketError`
is the `?` on `recv_from`. Of the store the model keeps whether the latest
snapshot is missing, connected or disconnected, of the request channel the last
value.

A configuration whose UDP host is no address has the port `NoAddress`. No page can
save one, but a process may begin with one, since `load_config` does not validate
what the environment gives; `start` then ends before it has set anything
(`StartBadHost`).

`SaveConfig`, `ApplyHz`, `ApplyTimeout` are the writes of the PUT handler, at any
time and with any value: the runtime must be correct in any such environment.

`TelemetryService` says what all this is for, without mutex, program counters,
channels or handles: a service begins with all its workers and its port at once and
one configuration, only while it has workers do clients hear from it, its workers
leave once a stop is under way, it ends when all have left, and the clients are told
before another may begin. `ImplementsService` is the refinement: `serving` is the
generation's configuration, `ending` that a caller is between the signal and the
return of `stop`, `workers` and `listening` are the living tasks and bound ports, `told` is
the request channel. It holds as long as no caller is dropped; what remains when
callers are is `NoTaskLeaks`.

### RuntimeControl

The handler itself, per browser: read the old configuration, save it (or fail to;
the file itself is in `ConfigFile`), replace the configuration, set the rate, set
the timeout. It has one await in the middle, for the lock of the configuration, where
it is dropped if its client went away (`PutDropped`). It uses the
actions of `TelemetryRuntime` for the last three, so its behaviours are among
those `TelemetryRuntime` allows. `owed` is auxiliary: some page was told
`requiresTelemetryRestart` since a start last read the configuration.

### AppConfig, ConfigFile

`AppConfig` follows `config.rs`: the defaults, then the environment
(`ApplyEnvConfig`, after `LoadEnvFiles` has gone through the four places a `.env`
file may be in and set from each what was not set yet), then the
file (`ApplyPartialConfig`), validated as one (`Valid`), with the environment's
configuration, which is not validated again, as the fallback (`LoadConfig`).
`ConfigFilePath` chooses the file. A variable is a number or one of a few texts, a
file's text is a partial configuration, unreadable, or absent.

`ConfigFile` is one machine over time: `Start` loads what the disk and the
environment give at that moment, `Listen` is `run_http_server` with its own check
of the host, `End` is any end of a process, a crash included, and a user edits
files between two processes. A PUT is `fs::write` in its two halves (`PutOpensFile`
truncates, `PutWritesFile` writes, either may fail) and the change of memory
(`PutReplacesConfig`), which does not come if the handler is dropped while it waits for
the lock (`PutDropped`). Where two handlers write one file, the file's length
(`size`, the texts' lengths in `TextLength`) decides whether the end of a longer
text is left behind a shorter one. `torn` and `promised` are auxiliary: the file
was spoilt, or memory did not follow it, and no save has mended that; what a page was
told is saved in each file.

Not modelled: what the file system may lose when the machine itself goes down (the
code asks for no `fsync`), and edits while the server runs, which it would not
notice before the next start.

### ForzaPacketParser, ForzaUdpReceiver

A packet is its length and the numbers at the offsets of its layout; the parser's
operators follow its functions (`Parse`, `ParseSnapshot`, `TryParseDashProfile`,
`ParseDashValues`, `ParseSledFallback`, `NormalizedRace`). A finite float is an
integer in a unit fine enough for every threshold of the code (0.01 km/h below
which a car stands still, 650 km/h above which a sled is refused); NaN and the
infinities are one value, `NonFinite`. One field of each kind is kept. Scores and
warnings are left out: they choose between accepted layouts of one packet, and
`OneLayoutAtMost` proves that there is never more than one.

The receiver parses a packet with `parse` when a metadata sample is due and with
`parse_snapshot` otherwise; `Tick` may come between that test and the instant the
next sample is put off from. `SampleInterval` is in ticks. What the store does
with the snapshot is `TelemetryStore`'s, whose assumption on gears (-2 to 10) is
what `TypeOK` says of the snapshots handed on.

## Runs

| Run | Checks | Result |
|---|---|---|
| `broadcaster` | `TypeOK`, `RateCap`, `EveryFrameWasRequested`, `WaitingLoopIsUpToDate`, `ImplementsThrottle`, `ImplementsLoop` | hold |
| `broadcast_loop` | `NeitherChannelStarves` | hold |
| `broadcaster_newest` | `NewestIsPublished` | violated, see Findings |
| `store` | `TypeOK`, `GapStatisticsAgree`, `SilenceDisconnects`, `StatusKeepsItsWord`, `ShownGearIsKept`, `PacketInfoMovesForward` | hold |
| `delivery` | `TypeOK`, `WaitingClientIsServed`, `FramesMoveForward`, `ReconnectResumesForward`, `FrameReachesClient` | hold |
| `client` | `TypeOK`, `OneConnection`, `NeverAbandoned`, `StatusTellsTruth`, `Reconnects` | hold |
| `runtime_cancel` | `NoTaskLeaks`, `EveryCallReturns`, `SignalledTasksEnd` | hold |
| `control` | `ControlTypeOK`, `OutdatedRuntimeIsReported`, `RunningMeansServing`, `StopIsAnnounced`, `ImplementsService`, `RestartServesSaved` | hold |
| `control_settings` | `SettingsApplyAtOnce` | violated, see Findings |
| `receiver` | `TypeOK`, `PathsAgree`, `RacePanelHasContext`, `InfoKeepsUp` | hold |
| `config` | `TypeOK`, `SavedSettingsSurvive`, `RestartChangesNothing`, `RunningConfigIsValid` | hold |
| `config_two_pages` | `AnsweredSaveIsReadable` | violated, see Findings |

Bounds, and why they are enough:

- `broadcaster`: two requesting tasks, rates of 1/2 and 3/2 tokens a tick and two
  ticks, so the bucket holds fractions, fills up (it starts with one token of two)
  and runs dry; three requests, so that one can be borrowed twice, one dropped and
  one overtaken, and one more than a full bucket pays for. Rate changes and calls
  of `stats()` are unbounded.
- `broadcaster_newest`: one task, two requests, two ticks; the rate still changes
  without bound.
- `broadcast_loop`: three rates, so that the one that comes is neither the one that
  was nor the one before; nothing else is bounded.
- `store`: two writers that store three times, the last time at once with the
  second, into a ring of one; instants that are 50, 51 and 101 apart, either way,
  so that gaps lie on both sides of the warning threshold and in low and high
  buckets, saturate, and meet the timeouts of 50 and 100 exactly; gears unknown and
  reverse, the lowest that is kept; one client in the middle of a status request.
  Clock, timeout, parse errors, stops and status requests are unbounded.
- `delivery`: one packet source, the heartbeat and one browser (handlers share
  nothing but the channel; the proofs are for any number), three updates and three
  requests, so that the request order differs from the update order, a request is
  dropped between two published ones, and one frame is published twice.
  Connections, time-outs and publications are unbounded.
- `client`: three WebSocket objects at a time, one in use and two on their way out,
  so that a second mount meets late events of two earlier ones. Objects are used
  again once they are closed: mounts, reconnections and network changes are
  unbounded.
- `control`: two callers, three calls of any kind, the least in which a restart, a
  stop and a start interleave; one page with two saves, so that a save that asks for
  a restart is followed by one that does not; three configurations, of which one
  differs in the port and one in the rate alone, and one with a bad host to begin
  with; one port may be taken by another program.
- `runtime_cancel`: two callers, three calls, one configuration that has every
  task and one that cannot be started; callers may be dropped and sockets fail.
- `control_settings`: one start and one save.
- `receiver`: packets on both sides of every length the code asks for (44, 311 and
  324 bytes), values negative, in range, above it and not finite, the limits of the
  sled (650 km/h, 25000 rpm), gears 0 and 11, steering -128, every combination of
  race flag, lap, position and timers that the panel tells apart; debugging on and
  off; a sample every two ticks and four ticks, so that two samples are put off.

- `config`: two pages, whose writes of the file come one after the other
  (`WritesAlone`), with three requests, one of them invalid; two places, so that
  the file may be the working directory's, the program's or the one
  `SIM_TELEMETRY_CONFIG` names; four environments, with numbers out of range,
  `.env` files overruled by the process and by one another, a port that clashes with a default one, a host
  that is no address and a flag that is not understood; hand-made files that are
  valid beside some settings, beside none and beside all. Processes, saves, failures
  and edits are unbounded.
- `config_two_pages`: the same without that restriction, and a disk that does not
  fill up.

`CHECK_DEADLOCK FALSE` in the `control` runs: calls and saves are bounded and
nothing else need happen.

### Fairness

- Broadcaster (`BroadcastLoop`): the loop is a spawned task woken by both channels
  (weak fairness); `select!` without `biased;` polls its branches in random order,
  so a branch that is ready again and again is taken (strong fairness of each of
  the two; `NeitherChannelStarves` fails without either); the record step waits for
  the statistics mutex, which `stats()` lets go of without awaiting (weak fairness
  of the reader) and which the loop gets some time (strong fairness of the record;
  an assumption, for std's mutex promises no order). `NewestIsPublished` is refuted
  in `TelemetryBroadcaster` under the same conditions and two more: a caller makes
  both its steps, and time passes. Nothing obliges a caller to request, to change
  the rate or to stop doing so.
- Delivery: a handler is a task of its own and its 250 ms timer fires (weak
  fairness of its own steps). Nothing obliges a browser to connect, to complete
  an upgrade or to take what it is sent, nor the broadcaster to publish.
- Client: a timer fires; an attempt to connect succeeds on a network that stays up
  and fails on one that stays down; a close completes (weak fairness, the
  browser's part). Nothing obliges the network to come back: `Reconnects` speaks
  of the behaviours in which it does.
- Runtime: tokio's mutex is first come, first served (strong fairness of a
  caller's steps, under contention); a task at work finishes (weak); a task whose
  stop channel was sent to sees it even if packets keep coming (strong, because
  of `select!`). Nothing obliges a caller to call or a packet to arrive. Calls
  and task ends are finite in number, so one strong fairness condition for all of
  them is equivalent to one for each.

### Findings

- `broadcaster_newest`: docs/latency-packet-loss-notes.md says that above the cap
  "only the newest snapshot is published". The loop drops a request, the newest
  one too, when it has no token, and nothing wakes it when one has accrued: the
  last snapshot before a pause in the traffic is never published. With packets
  arriving the next one repairs it; a single state change (a pause, a stop) is
  repaired by the heartbeat or not at all.
- `control_settings`: README-WINDOWS.md says the broadcast rate and the timeout
  apply as soon as they are saved. A `start()` that copied the configuration
  before the save sets the old values after it, and they stay.

- `config_two_pages`: README-WINDOWS.md says that saving creates or updates
  `config.json`. Nothing keeps two `PUT /api/config` apart: both truncate the file
  and write it from its start, and if the shorter text is written last the end of
  the longer one stays behind it. Both pages are told that the save succeeded; the
  next start cannot parse the file and runs the environment's configuration.

Seen while modelling, and left to the reader because no document promises
otherwise: a `recv_from` error ends the receiver while the runtime goes on
calling itself running (`RunningMeansServing` exempts the receiver when
`MaySocketError`); two PUT requests at once can also leave file and memory
from different requests (`SavedSettingsSurvive` and `RestartChangesNothing` are
checked with writes that do not overlap), and a rate from a third, which no property
covers; the fields of one `GET /api/status` may be of different moments, so that
`connected` and `gameConnected` differ, `lastPacketInfoAt` is null beside a
`lastPacket` or `lastPacketAt` beside `connected`; a save that fails half-way, or a
handler dropped after it, leaves memory behind the file until the next save
(`RestartChangesNothing` excepts both, as `torn`); a process that ends, or a disk that fills up, in the middle
of a save leaves a file the next start does not use, so the settings saved before
are gone too; an environment that is itself invalid is used as it is
(`RunningConfigIsValid` exempts it); the settings page sends the whole form it
loaded, so it puts back what another page saved since; a stop that
is dropped half-way leaves its snapshot connected and its address in place
(`ImplementsService` and `StopIsAnnounced` are checked without cancellation); a
greeting says "connected" for as long as the timeout after a stop, since
`get_latest` asks the clock and not `mark_disconnected`, and no frame corrects it;
a handler reads nothing from its socket, so a browser that left a stopped runtime
keeps its task and its place in `websocketClients`; the frame that follows a
greeting may be older than the greeting (`FramesMoveForward` is about frames); the
answer to the dashboard's first fetch replaces whatever the socket has delivered
by then, until the next message.

## Proofs

The proof modules extend the model they speak of and TLAPS. `PROJECT.json` lists
the theorems.

### TelemetryBroadcasterProofs

From the assumptions on the constants alone (a finite set of callers, rates and
scale positive). The type invariant is strengthened with the fact that the loop
holds a whole token between the check and the send (`TokenHeld`), without which
the bucket could be thought to go negative.

- `FramesAreRequested`: `Spent <= requestCount` is not inductive; `RequestsInv`
  adds that the counter is ahead of the channel by the callers between their two
  steps (a cardinality), and that what was let through is at most what has been
  marked seen.
  That `stats()` never sees more broadcasts than requests follows from it, with
  the reader's lock.
- `NoWakeUpIsLost`: `WaitingLoopIsUpToDate` speaks of a loop at its `select!`, so
  `WakeUpInv` must say what holds at every other point: what is marked seen is never
  newer than what was borrowed, except between `changed()` and `borrow()`. A loop
  that marked after it borrowed would sleep on a request it never looked at.
- `RateIsCapped`: `BucketInv` accounts for every quantum: what is in the bucket,
  plus what was spent since the window opened, is at most a full bucket and what
  was earned, where time not yet credited is still to be added.
- `Refinement`: initial states map to initial states of `LatestThrottle`, and
  each step to a step or a stutter; `OrderInv` (the frame in hand is between
  `floor` and the newest request) is what the publishing step needs.
- `LoopIsImplemented`: the same for `BroadcastLoop` (`LoopNext` maps the steps);
  that a channel has something unseen is `seen # request`, so it rests on
  `WakeUpInv`, in which `seen` is never ahead of the channel. That fairness
  carries over is seen from the two formulas, condition by condition, and not
  proved.

### TelemetryStoreProofs

For any finite or infinite set of writers, clocks and timeouts. The histogram,
the counters and the ring are related by one inductive invariant over the number
of updates (`AccountInv`), from which `StatisticsAgree` follows. `SilenceIsNoticed`
and `PacketInfoOrdered` rest on the invariant that, as long as the clock has only
moved forward (`Steady`), a time read by a writer is not ahead of it, nor behind
the stamp of earlier metadata of the same receiver. `StatusNeverRetracts` relates
what a status request has read so far to the store now, which keeps everything the
eight reads ask whether it exists.

### TelemetryDeliveryProofs

For any clients, tasks and capacity. Typing carries the order of things: what is
carried, requested, published or sent was stored before, and
`published <= floor <= Len(requests)`. `ServedInv` extends
`WaitingClientIsServed` to the snapshot a handler has in hand while it sends, and
`BehindInv` says that no handler is ahead of the channel, which itself never goes
back.

### TelemetryClientProofs

`ClientInv` is the conjunction of the type invariant and the three invariants: a
socket is only made where there is none (`ConnectKeeps`) because a timer is set
only while there is none, and it is the client's own whenever it is live, which
is what makes the check in the `close` handler sufficient (`ClosedKeeps`).

### TelemetryRuntimeProofs

For any callers, configurations, ports and number of calls. Typing needs more
than itself: that a caller is inside `start` or `stop` exactly when it holds the
mutex (`MutexInv`), that a caller past `StartReadConfig` has a copy of the
configuration (`CopyInv`), that nothing runs while the mutex is held
(`LockedInv`), and `RunningMeansServing` itself (it is what says that a stop
signals a generation that was started). Together they are `TypeInv`, inductive
even when callers are dropped and sockets fail.

- `RunningServes` is a part of `TypeInv`.
- `NothingLeaks`, dropped callers or not: `NoTaskLeaks` is inductive beside `TypeInv`,
  because a start that spawns tasks holds the mutex and finds nothing running, and
  the step that lets go of the stop channel sends to it.
- `StopIsComplete`, `ReceiversNeverOverlap`, `ClientsAreTold` assume
  `~MayCancel` and rest on `StopInv`: every living task is of the current
  generation; if one lives, the runtime runs or a stop is awaiting it; once it is
  over, the store and the request channel say "disconnected" or a stop is still to
  make them. A dropped stop leaves tasks nobody awaits, hence the assumption.
- `RuntimeIsAService` assumes `~MayCancel` too, and needs `SilentInv` beside `StopInv`:
  nothing was requested as long as nothing was stored, so that a stop has either
  something to announce or nobody to announce it to. A step is mapped by what it
  touches: a caller's (`CallerStepServes`; the mutex makes the caller at work the only
  one that can be `Ending`), a task's (`TaskStepServes`, `TaskEndServes`), or a change
  of settings, which is a stutter.
- `RestartIsFresh`, dropped callers or not: the configurations a restart has
  seen in force include the one in force, any copy it has made, and, once its
  own stop is over, whatever runs and whatever another start has copied.

### RuntimeControlProofs

`ControlImplementsRuntime` maps every step of the composition to a step of
`TelemetryRuntime` or a stutter, so `TypeInv` is had for nothing.
Hence also `ControlIsAService`. `OutdatedIsReported` is about any number of pages of
which at most one is between reading the old configuration and replacing it
(`ComparesAlone`): then the one it has read stays in force until it replaces it
(`PutInv`). `OutdatedRuntimeIsReported` is not inductive, since a start that has
copied an old configuration has not made it run yet; `OwedInv` speaks of those
copies too.

`SettingsApply` is the other side of the finding `control_settings`: if no save
replaces the configuration while a start or another save is applying one
(`Applying`), the saved rate and timeout are in effect whenever nobody is.
`ApplyInv` says that who applies a configuration applies the one in force. Both
hypotheses are about what others do in the meantime, not about how many there are,
and hold whenever requests come one after the other. Neither can be dropped:
`control_settings` violates the second; and when two pages save at once, both
compare with the configuration from before, the one that is answered last may have
put the first one's port back unreported, and a start in between has read it (TLC
finds it with two `Browsers` in `control.cfg`; no document promises more of
simultaneous saves).

### ConfigFileProofs

For any texts, environments, places, files, requests and lengths; the assumptions
say that a text is not the absence of one, that a field of a file has its type, and
that the places are all there are. First what loading does: whatever is set
(`EnvConfigTyped`, `PartialTyped`), the result is a configuration; a whole file
replaces every other layer (`WholeFileWins`), hence saved settings are loaded as
they are (`SavedIsLoaded`); an invalid file falls back (`LoadedIsValid`). The order of the
layers is a theorem of its own, `FileThenProcessThenEnvFiles` (for the UDP port; the
others differ in what is accepted): from the code's loops, which go through the
files and set what is not set yet, it derives the order of precedence, with the
case that a reader would not expect, a text that is not accepted in front of one
that is. Each of the four applications of `LoadEnvFile` is one step of the lemma
`FirstSettingWins`.

- `TypeCorrect` and `ValidConfigRuns`, for any number of pages: a handler runs only
  in a process that is up, and only for a valid request (the part `HandlerInv` of
  `TypeOK`).
- `SettingsSurvive`, `RestartIsNeutral` and `AnsweredIsReadable` are about any number of
  pages of which one at a time has truncated the file and not yet replaced memory
  (`WritesAlone`; the run `config_two_pages` shows what happens otherwise). They
  rest on `SavedInv`: what is promised is in the file and, if a process uses that
  file, in memory (`PromiseInv`); a handler that has truncated the file has taken
  the promise back (`TruncatedInv`); and a process would find the same file again
  and read memory's configuration from it, unless a handler is between the two
  writes or the last one failed half-way (`AgreementInv`).

### ForzaUdpReceiverProofs

Every packet, every interval. `KnownLength` and `UnknownLength` find the one layout
of a packet or none, with `ReadsStayInside` for its reads; `OneMeaning` concludes
that all four paths give the same outcome, and `OutcomeType` that it is in range
with a justified race panel. The inductive invariant `Inv` adds what the receiver
holds between two steps (`HandlingOK`) and that the next sample is due an interval
after the last stored metadata at the latest, while a packet that gives no sample
came before it was due (`SampleIsDue`): `InfoKeepsUp` follows from both.

### Only model-checked

Liveness (`NeitherChannelStarves`, `FrameReachesClient`, `Reconnects`, `EveryCallReturns`,
`SignalledTasksEnd`): temporal properties under fairness are beyond the prover, as
is ENABLED. Every safety and action property of a passing run is also proved,
those under `~MayCancel` or `WritesAlone` with the same hypothesis as their runs. What
the violation runs refute is of course not proved; `SettingsApply` and
`AnsweredIsReadable` say under which discipline two of the three hold.

## Plan

In this order, the most important behaviour first: broadcaster, store, runtime,
control, delivery, client, parser and receiver, configuration, and the proofs of
all, with three abstract specifications implemented (`LatestThrottle`, `BroadcastLoop`,
`TelemetryService`). Left, should the project go on: an abstract specification of
what one browser sees (`TelemetryDelivery` as a channel that loses but never reorders,
`TelemetryClient` as one connection kept up), the contents of snapshots at the dashboard (a
first fetch that answers late), and the detection of a receiver that has ended,
once the code has one.

### Not modelled

- The legacy Node server and its copy in `scripts/`: superseded by the Rust server,
  kept for development. It is single-threaded, and its broadcaster is a timer that
  sends the latest snapshot; nothing of the Rust server depends on it.
- The dashboard's pages, layout and styles, static files, URLs, opening a browser,
  the Windows timer resolution, packaging and developer scripts: presentation or
  calls to the operating system, with no state of their own.
- Counters and averages shown to the user (WebSocket sends, payload sizes, ages, the
  EMAs): written in one place, decided upon in none.

# Verification of obelisk-sfu

TLA+ modules, TLC configurations and TLAPS proofs for the voice SFU in this
repository. Paths such as `room-mediasoup.ts` are below `src/src/` unless they
say otherwise. `PROJECT.json` lists the runs, the lines every definition stands
for, the hazards, the findings and the theorems.

## 1. The system

The service is one Node process: one thread runs callbacks, and every `await`
is a place where other callbacks run. Hard behaviour comes from there, not from
data races: a handler reads a table, awaits mediasoup, a relay, a file or a
child process, and goes on with what it read. Around the process are relays that
lose connections, repeat and reorder, clients that vanish, and test peers that
outlive it.

| Part | State | Operations | Talks to |
|---|---|---|---|
| `MediasoupRoom` (`room-mediasoup.ts`, `nostr-rpc.ts`) | peer table by `pubkey\|clientId`; per peer its transports, producers, consumers, sweep timers and packet counts; empty-room and end timers; rules; status | the RPC methods, `injectTestProducer`, `kick`, `updateRules`, `reap`, `start`, `close`, the transport close observer | mediasoup, relay pool, direct sockets |
| `RoomManager` (`room-manager.ts`) | `rooms` by channel, `draining` | `start`, `end`, `setDraining`, `closeAll`, `rearmDurationLimits` | rooms; called by both doors, `index.ts`, the operator API |
| `MediasoupEngine` (`mediasoup-server.ts`) | routers by channel, workers | `getRouter`, `closeRouter`, `close` | mediasoup |
| `CallListener` (`call-listener.ts`, `auth.ts`) | seen event ids, subscriptions per relay | `start`, `end`, `kick`, `update` events, watchdog | room manager, relay pool |
| Direct socket (`direct-rpc.ts`) | per socket: authenticated or not, its room, its session, a chain of messages | handshake, requests, close | room manager, rooms |
| `RelayPool` (`relay.ts`) | sockets, health per relay | `publish`, `subscribe`, resubscription | Nostr relays |
| `MembershipTracker`, `ChannelRegistry` | latest relay lists and metadata per channel, reference counts | `watch`, `release`, `ingest` | relay pool |
| Operator API (`http-server.ts`, `admin-session.ts`, `admin.ts`, `config.ts`) | configuration, sessions, their files | HTTP routes, SIGHUP, boot | everything |
| Follow whitelist (`follow-whitelist.ts`) | derived allow list and its file | sync | relay pool, config |
| Advertiser (`advertise.ts`) | publish timers | boot, heartbeat | relay pool |
| Test peers (`test-peer-spawner.ts`, `orphan-reaper.ts`, `src/scripts/test-peers/`) | child processes, their ffmpegs; of mesh peers rosters and connections | spawn, stop, the sweep of the boot; beacons, offers, answers | the process, relays, rooms |
| Process (`index.ts`) | `shuttingDown`, watchdog clocks | boot, signals, shutdown, relay watchdog | everything |
| Legacy werift engine (`room.ts`, `peer.ts`, `signaling.ts`) | not built by the production path | | |

What each part has to get right:

* **Room.** A request that resumes after its PeerState left the table changes
  nothing in the table. Every producer reaches every consumer. A departed user
  leaves the rosters. The empty-room timer runs when, and only when, the room has
  been emptied. The cap holds at entry.
* **Room manager and engine.** No more rooms than `maxRooms` through two doors
  that check before they await. Room, channel entry and router match, however
  `close()` calls and starts of one channel overlap. A closed room gives its
  channel back; a shutdown gets on.
* **Peer health.** A peer is dropped for real silence or real trouble, and a
  silent or disconnected one is dropped.
* **Control listener.** An event has its effect once, however many relays bring
  it. A call ends when rules and ceiling say, not before, not after, but for
  the ceiling that a PUT has replaced while it still awaits its sync.
* **Direct socket.** The end of a socket ends its own session and no other; one
  that does not authenticate is closed.
* **Relay health.** The process restarts when nobody hears it, before the
  monitoring calls it degraded, and never while one relay takes its events.
* **Replicas of relay data.** The latest event wins, whichever relay is first;
  a watch lasts as long as its last holder; a dead subscription is rebuilt.
* **Operator API.** What is in force is what a restart makes of the files.
  Ended sessions stay out, and the others outlast restarts.
* **Test peers.** A peer the operator no longer sees was told to stop, with its
  ffmpegs, unless it could not handle the signal yet; the sweep
  of a boot takes none of this process. Two mesh peers find each other and agree
  on the connection they have.

## 2. Modules

| Module | Models | Reads |
|---|---|---|
| `Occupancy` | what a room promises about its users: entry below the cap, countdown, end | abstract |
| `RoomLife` | what a channel promises about the rooms it has one after the other | abstract |
| `SfuRoom` | an active `MediasoupRoom` until and after its `close()` | `room-mediasoup.ts`, `nostr-rpc.ts` |
| `SfuRoomProps` | its properties, the mapping to `Occupancy`, a claim of a comment that fails | |
| `Reaper` | the reaper, its clocks and packet counts, for one key of the peer table | `room-mediasoup.ts` |
| `PeerSession` | one client: its sockets, its place in the table, the sweep timers of its transports | `direct-rpc.ts`, `room-mediasoup.ts` |
| `SfuRooms`, `SfuRoomsProps` | `RoomManager`, `start()`/`close()` of rooms, routers, both doors, drain, shutdown | `room-manager.ts`, `room-mediasoup.ts`, `mediasoup-server.ts`, `call-listener.ts`, `direct-rpc.ts`, `index.ts` |
| `ControlListener` | control events, authorisation, rules, the end-of-call timer, the dial gate | `call-listener.ts`, `auth.ts`, `room-mediasoup.ts` |
| `RelayHealth` | `publish` with its AUTH retry, refresh, self-heal watchdog, `/healthz` | `relay.ts`, `advertise.ts`, `index.ts`, `http-server.ts` |
| `RelayReplicas` | subscriptions per relay and their watchdog, channel metadata, membership | `call-listener.ts`, `channel-registry.ts`, `membership.ts`, `relay.ts` |
| `OperatorApi` | authorised requests, configuration and its files, sessions, follow sync, boot and shutdown | `http-server.ts`, `admin.ts`, `admin-session.ts`, `config.ts`, `follow-whitelist.ts`, `index.ts` |
| `TestPeers` | spawner, scripts, ffmpegs, orphan sweep; composed into `OperatorApi` | `test-peer-spawner.ts`, `orphan-reaper.ts`, the scripts |
| `MeshPeer` | presence, offers and answers of two mesh test peers | `test-peer-mesh.mjs`, `mesh-signal.mjs` |
| `MCRoom`, `MCRooms`, `MCControl`, `MCAdmin` | instances for TLC | |
| `*_proofs` (eight) | theorems on the module they are named after; `PeerSession_proofs` on `Reaper` too | |

How the modules meet: `OperatorApi` extends `TestPeers`, whose children its
process owns. A room of `SfuRoom` is one of `SfuRooms` between `RouterReady`
and `Shut`; a device of `SfuRoom` that leaves by a reaped silence is a key of
`Reaper`, one that leaves by a socket or a sweep timer is the client of
`PeerSession`; `EmptyTimeout` and `EndsAtTimeout` are cases of `Expire` in
`SfuRooms`. Each module leaves open, as a step that may come at any time, what
another one models.

Three modules have a room of a channel in common, each with its own view:
`SfuRooms` makes it out of room objects, slots of the map and closes in flight,
`PeerSession` is a client that waits for it and outlives it, `ControlListener` the
events and timers that open and end it. `RoomLife` is what they agree on: none,
starting, active, closed, none again, with the ways out of a start. `SfuRooms`
implements it (`ImplementsRoomLife`), and so do the rooms that the other two only
assume (`MeetsRoomLife`, `CallsRoomLife`), so neither reasons about rooms that do
not exist. A channel where a starting room was closed is `astray` in `SfuRooms`,
since the code keeps no such promise there (section 4); the other two do not go
there.

### SfuRoom

A device is a key of `peers`. `send`, `recv` and `producers` are the fields of
the PeerState that the table holds for it. A request between two awaits is a
record in `calls` with the method, the device and `live`: whether the PeerState
object it captured is still the one in the table. That flag is what the code's
`this.peers.get(key) === peer` asks, and it is enough, because a PeerState that
left the table never returns; `Detach` clears it wherever a device leaves.

| Code | Actions |
|---|---|
| `createWebRtcTransport` to its await | `FirstTransport`, `ReplaceTransport`, `ReplaceOnlyTransport` (with the close observer, which runs inside `existing.close()`) |
| the same after its await | `TransportReady` |
| `produce` | `ProduceBegin`, `ProduceReady` |
| `closeProducer`, the consumer event `producerclose` | `CloseProducer`, `ProducerClosed` |
| `injectTestProducer` | `InjectBegin`, `InjectReady` |
| a rejected await of any of them | `CallFails` |
| `leave`, the close of a direct socket, a sweep timer | `Leave` |
| `reap` | `ReapIdle`, `ReapStats`, `ReapSilent` |
| `kick` before and after its await | `Kick`, `KickPublished` |
| `updateRules`, the empty-room timer, `close` | `UpdateRules`, `EmptyTimeout`, `Close` |

`told` and `shown` are what the devices with a recv transport have been told:
users by `participantList`, `peerJoined`, `peerLeft`; producers by
`newProducer`, `producerClosed`. They belong to the recv transport: a client
starts over when it re-creates it. The notification of a new recv transport
goes to the session that asked (direct path) or to all devices of the pubkey
(relay path); `Notified` allows both. `visited` is a history variable.

Abstractions: consumers are not a table of their own, only their closing is
(`ProducerClosed`); SDP and RTP parameters are left out; a request the dial gate
or a lookup refuses changes nothing and is no step; the clocks of the reaper
and of the sweep timers are open, so those drops may come at any moment;
notifications arrive at once and once. The producers of a send transport are
taken off the PeerState by mediasoup's `transportclose` before the close
observer runs, those excepted that resolved after their transport had closed:
`ReplaceOnlyTransport` chooses which were left to announce.

### Reaper

What `ReapIdle`, `ReapStats` and `ReapSilent` of `SfuRoom` leave open: why a peer
is reaped. `Tick` is one `REAPER_INTERVAL_MS` of the interval timer; `silence`
and `joined` are the ages of `lastInboundPacketAt` and `joinedAt`. `ReapBegin`,
one `ReadStats` per producer and `ReapEnd` are one sweep over the peer, between
whose awaits clients act. A producer whose transport had closed before it
resolved is `dead`, its stats reject; one that never sent has no stream in the
worker and so no `packetCount`. `vanished` is a client that is gone without a
word; `quiet` and `heard` are history variables, the time since a packet really
came, and `lost` whether the PeerState has lost a producer. Every other way out
of the table is `Leave` or `ConsentLost`. It is one key of the table because a
sweep handles one peer after the other and nothing of one peer enters the
decision about another. Its names have `Reaper` or `reaper` in front (`ReaperNext`,
`ReaperTypeOK`; `ConsentLost` is the sweep timer), so that one module of proofs can
extend it together with `PeerSession`.

### PeerSession

One key `pubkey|clientId`, the sockets it opens one after the other or at the
same time, and the rooms its channel has one after the other.

| Code | Actions |
|---|---|
| `handleUpgrade`, `authTimer`, `cleanup` | `Upgrade`, `AuthTimeout`, `SocketCloses` |
| the promise chain of a socket | `Queue`, `Take` (a part of every message) |
| authentication before and after the await of `rooms.start` | `AuthJoins`, `AuthStarts`, `Started`, `StartFails` |
| messages it refuses, answers that change nothing here | `BadMessage`, `Answered` |
| `createWebRtcTransport` and its await | `CreateFirst`, `CreateAgain`, `CreateOnlyAgain`, `TransportReady`, `CallFails` |
| `connectWebRtcTransport`, `leave` | `Connect`, `LeaveRpc` |
| the ICE and DTLS observers, `armUnhealthyTimer`, `cancelUnhealthyTimer` | `IceUp`, `IceDown`, `DtlsUp`, `DtlsFails`, `DtlsCloses` |
| the 15 s timer of a transport in use, one that was replaced, one of a PeerState that left | `SweepTimer`, `SweepReplaced`, `SweepOrphan` |

The chain goes on when its socket has closed, and a socket may register its
session after its cleanup: both are in the module. `swept` is a history variable:
what the last sweep took. Timers have no clock, they fire at any time after they
were armed. Of a transport that a second request displaced only its armed timer is kept.

### SfuRooms

A slot is a `MediasoupRoom` object, and the router created for it has its name.
`creating` holds rooms whose `start()` awaits `createRouter`, `closing` counts
the `close()` calls that await their last publish. `Start` is
`RoomManager.start` up to the await in `getRouter`; it is one step with the
check of either door (`StartByControl`, `StartByDirect`), because no await lies
between. `RouterReady` and `RouterFails` are its two ends. `Shut` is
`close()` up to the publish, `CloseDone` the rest with `onClosed`; `End`,
`Expire` and `Shutdown` are its callers. `Forget` is no code: a room object
nothing refers to gives its slot to a new one, so that a few slots stand for any
number of rooms over time. `cutShort` is a history variable: the channels where
a room was closed while it was starting, from where on the manager's map and the
rooms disagree (section 4).

### ControlListener

One channel, its room, and every event that may reach `handle()`. `Deliver(r, e)`
is the arrival of event `e` from relay `r`, at any time and any number of times:
every relay has its own subscription, and a rebuilt one asks for everything
since the boot. `Ignore` is the way out of `handle()` for an id it remembers or
an event that is too late; `Start`, `End`, `Kick`, `Update` are its four
handlers, `Refuse` their early returns. `Kept` and `Remember` are `gcSeen` and
`rememberEvent`, `MayStart` and `CanManageRoom` the checks of `auth.ts`,
`CanDialRoom` the gate that `Dial` passes. `ScheduleEndsAt` is the function of that
name with its three outcomes (no end, an end in the past, a timer), which
`Started`, `Update` and `RearmDurationLimits` call. A PUT of the ceiling
(`SetMaxDuration`) remembers the ceiling it found in `prev`, and rearms the room
at once or, when the patch has referents, only after their follows have been
asked for up to ten seconds (`SyncEnds`), if the ceiling is not again the one it
found. Several PUTs may await at a time and end in any order; starts and updates
in between use the new ceiling. `Ceilings` are the one in force and those that
waiting PUTs found. `FiresAt` is `setTimeout`,
for which a delay of more than 32 bits is none. Seconds are ticks; timers fire
on time, because nothing in the process blocks for as long as a second. `acted`
is a history variable. A start that is refused at `maxRooms` is in `SfuRooms`, a
room that is ended while it starts as well.

### RelayHealth

`job` are the publishes under way, each with the relays that have not answered
and those that answered with a demand for AUTH. `Accept`, `Restricted`,
`PublishAfterAuth` and `Fail` are the ends of one relay's promise in `publish`:
its time of health becomes the time at which `publish` was called, not the time
at which the relay answered. `ProfileDone` and `Ready` are the awaits of the
boot, `Heartbeat`, `Republish` and `Publish` the callers of `publish`.
`WatchdogFine`, `WatchdogNotes`, `WatchdogWaits` and `WatchdogExits` are the four
ways through one turn of the self-heal watchdog; `HealthzDegraded` is what
`/healthz` computes from the same times with its own window. A tick is the interval of
the watchdog; times are ages that stop where no reader tells them apart, so
behaviours are endless and nothing bounds the time. `reliable` is the assumption
about relays that the promise needs: such a relay may drop idle connections and
refuse writes before AUTH, but takes every event in the end.

### RelayReplicas

`control` and `registry` are the two subscriptions per relay, `evAge` the clock
`lastEventAt` which they share, so that metadata of a channel keeps the watchdog
from rebuilding a dead subscription of the listener: that is in the model and
limits its property. `Tick` and `WatchdogLooks` are `tickWatchdog`, relay by
relay. `Disconnect` ends both subscriptions and tells nobody, `CloseControl`
ends one. `Metadata` is `ingest` of the registry, with relays that
sent the newest version; `Watch`, `Release` and `List` are the membership
tracker, whose state lives while its reference count does. `told` and `sent` are
history variables: what was really delivered. `created_at` is a small number; the
contents of lists and records are left out.

### OperatorApi and TestPeers

A handler is a step up to an await after which it uses what it knew before: the
body of a request that is already authorised (`Begin`, then `Put`, `Spawn`,
`StopPeer`, `BadBody` or `PutFails`) and the query of the follow lists
(`AskOrClear`, then `QueryAnswered` or `QueryFails`). Everything else runs in one
turn.

| Code | Definitions |
|---|---|
| `authOrFail`, NIP-98, session lookup, `isConsoleAdmin` | `Authorised` |
| `PUT /admin/state`: merge, apply, sync, rearm | `Put`, `Merged`, `ApplyOverrides`, `Rearm` |
| `syncTrustedReferentFollows` | `AskOrClear`, `Derived`, `QueryAnswered`, `QueryFails` |
| `reloadAllowList` on SIGHUP; an edit of allow.json | `Sighup`, `EditAllowFile` |
| `AdminSessions` | `Issue`, `Revoke`, `Expire`, `LookupExpired`, `Save`, `Marked` |
| shutdown, exit, kill; boot | `Shutdown`, `PutFails`, `Exit`; `Boot` |
| `TestPeerSpawner` | `SpawnPeer`, `StopPeers`, `Exited` |
| the scripts and their signals | `GiveUp`, `StartFfmpeg`, `InstallHandlers`, `ReachLifetime`, `Goodbye`, `Leave`, `BreakPipe`, `FfmpegExits`, `Signalled` |
| the orphan sweep, and its SIGKILL two seconds later | `ReapTestPeerOrphans`, `Escalate` |

Writes of follow-allow.json and admin-sessions.json may fail or be cut off, and
the process goes on; a failed write of runtime.json is a rejection nobody
handles, so the process stops. `unwritten` and `revoked` are history variables
that say what a restart cannot be held to (`Marked` notes whether the last write of
admin-sessions.json succeeded), `reloaded` whether SIGHUP or an edit
of allow.json has put the allow list out of step with runtime.json. `armed`
is the ceiling with which running rooms are armed. The configuration has five of
its fields, one for each way they are handled: a list from file and environment,
one that starts a query, one that rearms rooms, two that decide who may come.

A test peer is its script and its ffmpegs. The state `streaming` is the window in
which the ffmpegs of a script run but it does not handle signals yet: in mesh
mode until its first beacon is out, in sfu mode for the lines between its spawns
and its `process.on`. A SIGTERM that comes then kills the script and leaves its
ffmpegs; `caught` is the history variable that records the peers it happened to. The sweep
takes every ffmpeg with the arguments of a test peer, so of a process that
crashed and, if it came later, of this one: the boot is where the code orders
the two. Scripts that something else kills and pids that the system uses again
are left out.

### MeshPeer

Two mesh test peers with different pubkeys. (Those that one SFU spawns sign as
that SFU unless they are given a key, have one pubkey and ignore each other; the
module is about peers of different SFUs, or with keys of their own.)

| Code | Actions |
|---|---|
| presence: beacon, leave beacon, `pruneRoster` | `HearBeacon`, `HearLeave`, `Prune` |
| `createPeer`, `makeOffer` | `Create` and `OnNewPc` (parts of steps), `MakeOffer` |
| `handleSignal`, `bindSession` | `Receive`, with `OnTarget`, `Knows`, `Replaces`, `Bound` |
| the await of an answer, the queue behind it | `Answer`, `Forget` |
| ICE failure, dead-peer timeout, `tearDown` | `LoseRemote`, `Break` |
| `cleanup`, a kill, a new process | `Leave`, `Kill`, `Start` |

Signals are a set on their way: any order, any delay, and what was sent while a
process was down comes late or is lost, all of it or nothing. A signal that waits
behind a handler counts as on its way. `made` numbers the connections of a
peer as `sessionId` does. `life` numbers its processes. ICE candidates behave
like track infos and are not modelled beside them.

## 3. Runs

| Run | States | Shows |
|---|---|---|
| `room` | 1.07 M | `TypeOK`, `EmptyTimerOnlyWhenEmpty`, `EmptiedRoomCountsDown`, `FeedsAnnounced`, `DepartureReachesRoster` |
| `room_live` | 119 k | `EmptiedRoomCloses` under fairness, `ImplementsOccupancy` |
| `room_peer_left` | | a comment about `peerLeft` does not hold |
| `rooms` | 27 k | `TypeOK`, `RoomLimit`, `RoutersMatchRooms`, `ImplementsRoomLife`, `ChannelFreed` and `ShutdownProceeds` under fairness |
| `reaper` | 406 k | `ReaperTypeOK`, `SteadySenderStays`, `VanishedPeerGoes` under fairness |
| `session` | 592 k | `TypeOK`, `SessionsFollowSockets`, `SweptForTrouble`, `SilentSocketCloses` and `IceDownIsSwept` under fairness |
| `session_swept` | | a comment about sweep timers does not hold |
| `control` | 700 k | `TypeOK`, `ActsOnce`, `RoomEndsInTime`, `NoEarlyEnd` |
| `health` | 3.72 M | `TypeOK`, `HealedBeforeAlarm`, `RestartOnlyWhenDeaf` |
| `replicas` | 418 k | `TypeOK`, `ReplicasAreNewest`, `DisconnectedIsRebuilt` under fairness |
| `admin` | 331 k | `TypeOK`, `RestartKeepsConfig`, `DurationArmed`, `RevokedStaysOut`, `TestPeersTended`, `SessionsLast` |
| `mesh` | 708 k | `TypeOK`, `PairsAgree`, `PeersMeet` under fairness |

Bounds and why they are enough:

* `room`: two users, one with two devices, because every rule of the room tells
  same device, same user and another user apart; one producer id, reused once
  nothing refers to it; two requests in flight, which is what the races between
  two awaits need; a cap of 1 by rule and 2 by configuration, so that the room
  can be full, and can be fuller than a rule set later.
* `room_live`: one device each and a test injector, so that injection happens;
  the same caps and requests.
* `reaper`: two producers, so that the sum has a part that is read before and one
  that is read after a packet; two packets each, so that a count can stand still
  and move; timeouts of two and three ticks, so that a sweep comes before, at and
  after each. The stats of a sweep arrive before the next tick: in the code a
  sweep could outlast the interval and overlap with the next.
* `rooms`: two channels, one place, two room objects, so that rooms compete for
  the limit and a channel is opened again while its last room still closes.
* `session`: two sockets, which is one that goes and one that comes, or both at
  once; two rooms, so that a socket may belong to one that is gone; one message
  waiting, since each message is handled alone and the chain only orders them.
* `control`: five events, one for each handler and a second start that only a
  trusted relay makes acceptable; two relays, so that copies differ in trust; ids
  that are remembered for one tick and collected from two on, so that ids are
  forgotten before a late copy; a longest delay of one tick, so that `setTimeout`
  fires at once for the ends that are further away; two ticks, which reach past
  the end that the update sets and past every ceiling of a call that started
  before the last tick; two PUTs that await at once, so that they overlap and end
  in either order. The PUTs are interchangeable.
* `health`: two relays, one with AUTH; windows of three, three and eight ticks
  and publishes of up to one. The code has five, five and fifteen minutes and a
  tick of half a minute: what matters is `HealthAssumption`, that two publishes
  fit in a grace period, a refresh comes within one, and two grace periods and a
  tick are less than the alarm.
* `replicas`: two relays, two rooms, two versions, staleness of two ticks: an old
  and a new version in either order from either relay, a release while another
  room holds the watch.
* `admin`: two handlers, two referents with different follows, an operator and an
  admin who may be removed, one test peer of each mode. `MCOneBody`: only one
  body is awaited at a time. `MCOnePart`: of the four parts that have only the
  process in common (allow list; referents and duration; admins and sessions;
  test peers) one at a time is away from its first state. The properties relate
  nothing across parts.
* `mesh`: four connections per peer and one fault, so that a connection is made,
  lost, made again and once more replaced by an offer that crosses.

Deadlock is checked in `reaper`, `control`, `health`, `replicas` and `admin`. The
other systems may stop: a closed room with nothing in flight, a process that is
down, a client whose sockets are all closed, two mesh peers past their last
connection.

Fairness, and why the code justifies it. `SfuRoom`: the empty-room timer fires,
and the publish a kick awaits ends. `SfuRooms`: the publish of a closing room
ends, and `shutdown()` goes on when `closeAll` returns. Node fires timers that
are due; `RelayPool.publish` swallows rejections and the library it uses bounds
connecting and publishing. `Reaper`: time passes, the interval timer fires and
the worker answers; not the sweep timer, since the reaper is there for the
failures that ICE does not see. `PeerSession`: the two timers, `AuthTimeout` and
`SweepTimer`. `RelayReplicas`: the interval timer. `MeshPeer`: what is on its way
arrives, handlers end, beacons of running peers are heard, and the loss of the
other end is noticed, by ICE or after `DEAD_PEER_TIMEOUT_MS`. Nothing is assumed
of clients, hosts, relays, workers (`createRouter` may never answer), operators,
or of `http.stop()`, which waits for open sockets. `ControlListener`,
`RelayHealth` and `OperatorApi` have no liveness property and no fairness: that a
call ends in time and the watchdog comes before the alarm are safety properties
over a clock that cannot pass a timer that is due.

What the properties leave out, because the code does not do it, is in their
statements: `ActsOnce` is about events that expire while their id is remembered;
`RoomEndsInTime` and `NoEarlyEnd` allow, while PUTs of the ceiling await their
syncs, one of the ceilings those found, since the code rearms only afterwards;
`NoEarlyEnd` excepts the delays that overflow; `RoutersMatchRooms` the channels
in `cutShort`; `SteadySenderStays` is about senders that keep their producers, and
`VanishedPeerGoes` about peers that have sent; `IceDownIsSwept` about ICE;
`RevokedStaysOut`, `SessionsLast` and `RestartKeepsConfig` except what could not
be written; `TestPeersTended` the scripts that a signal caught before they had
handlers; `ReplicasAreNewest` is about what was delivered, and the end of a
membership subscription is not modelled;
`PeersMeet` names two ways to wait for ever.

## 4. Findings

Two disagreements have a run:

1. `room_peer_left`: `dropStalePeer` and the end of `kick` tell `peerLeft`
   although the user still has a device in the room.
2. `session_swept`: a client that re-created a transport and connected again is
   swept by the timer of the old transport.

Others are in the models, and the hazards of `PROJECT.json` have their lines:

* Re-creating the only transport of a device takes the device off the table,
  since the close observer runs before the field is cleared
  (`room-mediasoup.ts:1005`).
* A room closed while its `start()` awaits the router becomes active afterwards,
  in no map (`room-mediasoup.ts:652`).
* Start events open rooms on a draining process (`call-listener.ts:274`), and a
  direct socket may open a room after `closeAll` began, which the shutdown does
  not close (`room-manager.ts:139`).
* A peer that closed or replaced a producer is reaped while it sends, until its
  new packets outnumber all those counted before (`room-mediasoup.ts:1444`); a
  client with a recv transport that never sent is never reaped
  (`room-mediasoup.ts:1417`).
* A socket that closes while it awaits `rooms.start` registers a session that
  nothing unregisters (`direct-rpc.ts:180`).
* A control event that an ordinary relay brings first is remembered before it is
  refused, so the copy of a trusted relay is dropped (`call-listener.ts:190`).
* With the duration cap off, an end more than 24.8 days ahead fires at once
  (`room-mediasoup.ts:624`).
* SIGHUP reloads environment and allow.json over an allow list that the operator
  set and that the next boot takes again (`config.ts:187`).
* A PUT that changes ceiling and referents rearms running calls only after its
  follow query, for up to ten seconds: until then a call may outlive the new
  ceiling, or be closed by the timer of the old one (`http-server.ts:327`).
* Of two overlapping follow syncs the list of the one that ends last stays, which
  may be that of referents who were removed meanwhile (`follow-whitelist.ts:46`).
* A test peer stopped between its ffmpegs and its signal handlers leaves the
  ffmpegs, in mesh mode (`test-peer-mesh.mjs:249`) and, in a shorter window, in
  sfu mode (`test-peer-ms.mjs:280`); two mesh peers may both wait for the other's
  offer, or for an answer that went down with a connection
  (`test-peer-mesh.mjs:458`).

`PROJECT.json` quotes the lines that say otherwise for the two with a run.

## 5. Proofs

The theorems hold for any values of the constants that meet the named
assumptions of the modules (`DevicesAssumption` and `CapAssumption`,
`RoomsAssumption`, `ControlAssumption`, `SessionAssumption`, `ReplicaAssumption`,
`ReaperAssumption`, `HealthAssumption`, `OperatorAssumption` with
`TestPeersAssumption`, `MeshAssumption`), which TLC evaluates in the runs. Most
say that identifiers differ and bounds are numbers; `HealthAssumption` says how the periods of the
watchdog relate: `2 * Lag < Grace`, `Refresh <= Grace`, `2 * Grace + 1 < Alarm`.

In each module an invariant that is inductive is stated, shown of `Init`, kept by
each action in turn, and the properties follow from it.

* `SfuRoom_proofs`. `TypesHold`: the invariant is `TypeOK` with
  `LiveCallsInTable`, without which `TransportReady` could put a transport on a
  device outside the table. `TimerOnlyWhenEmpty` and `EmptiedCountsDown`: the two
  timer invariants are inductive together. `NoFeedMissed`: `FeedsAnnounced` needs
  `NoMediaOutside` (a device outside the table has nothing to miss) and
  `ProducersUnique` (an id closed with one device is nobody else's).
  `DeparturesTold`: every departure tells at least `LeftWith`.
  `RoomImplementsOccupancy`: under these invariants every step of the room is a
  step of `Occupancy` or leaves users, cap, countdown and end alone. Departures of
  a device are `Exit` or a stutter (`RemoveOccupancy`), entries `Enter` or a
  stutter, injections `EnterTest`, and only a synthetic device is injected.
* `SfuRooms_proofs`. `TypesHold` needs a bound on the closes of a room:
  at most one, and one more when it was closed while it was starting
  (`ClosingBound`). `RoomLimitHolds`: only `Start` lists a room, and it finds
  place for one more; the map is finite by induction. `RoutersMatch` and
  `ActiveRoomsStayListed` rest on `OneRoom`: in a channel where no starting room
  was closed, the room whose start or close is in flight is the listed one, so
  what a close takes by channel was its own; and on `OneRouter`: a router that is
  open is that of the active room of its channel. `RoomsImplementLife`: the room
  that a channel lists moves only as `RoomLife` lets it (`Moving`). Each action is
  taken in turn; `OneRoom` is what keeps the end of a close from unlisting a later
  room (`UnlistedMoves`), and a channel that is `astray` stays so. `ClosesStayUnderWay`: a
  closed room that is listed, or awaited by `closeAll`, has a close in flight.
* `ControlListener_proofs`. `EachEventActsOnce`: an event that acted is remembered
  or has expired (`Remembered`), because an id is collected only after `Ttl` and
  the expiry of the event is no later. `CallsEndInTime` and `CallsDoNotEndEarly`:
  the timer is that of the earliest end (`TimerCovers`) by the rules and one of
  `Ceilings`, early only by the overflow of `setTimeout`, whichever of rules and
  ceiling changed last. What makes this inductive is the comparison at the end of a
  PUT (`RearmKeepsInv`): the ceiling it found leaves `Ceilings` only when the rooms
  are rearmed or when it is in force again. `CallsLiveAsRooms`:
  only an active room has a timer, so no timer ends another (`PhaseMoves`).
* `PeerSession_proofs`. `SessionsHold`: only one socket awaits a start, that of the
  listed room (`StartersListed`). `SweepsHaveReason`: an armed timer of a transport
  in use has trouble behind it (`TimerForTrouble`), and leaving the table takes the
  timers along. `SessionsMeetRoomLife`: a start that ends, well or not, is that of
  the listed room. `IceDownStaysArmed`: what attaches, replaces or drops a transport
  never leaves one that is down without its timer.
  On `Reaper`: the packets of a set of producers are counted as the cardinality of
  a set of marks (`Sent`), since a sum over a set would need induction over data;
  from the library's theorems on cardinality follow what another producer or
  another packet adds. `SteadySendersStay` rests on three relations, as long as no
  producer was lost: the total that is remembered, and the one a sweep adds up, were
  sent (`CountedWasSent`); when no more than the remembered total was sent, the
  silence is real (`SilenceIsReal`); and so it is when what a sweep has read and what
  it has left to read make no more (`SweepSeesSilence`), which is where the packets
  that come between two reads, counted or missed, are accounted for.
  `ReaperTypesHold` bounds the sums by what all producers can send.
* `RelayReplicas_proofs`. `ReplicasStayNewest`: the newest version a relay sent is
  the one kept (`ChannelNewest`), the count is that of the holders, and while it
  is not 0 nothing sent is missed (`ListsNewest`).
* `RelayHealth_proofs`. `OnlyTheDeafRestart`: a reliable relay has taken an
  advertisement of the last refresh (`ReliableHeard`), and since the first bad look
  no relay took anything but what ends the wait (`DeafSince`). `HealsFirst`: a look
  came at most a grace period after the last acceptance, and the restart a grace
  period later (`LookedAfter`). Both need a bound on how long a boot lasts
  (`BootIsShort`).
* `OperatorApi_proofs`. Each part has its invariant. `RestartKeeps`: what is in
  `runtime.json` is in force (`RuntimeInForce`), also between the steps of a PUT.
  `RunningCallsArmed`: rooms are armed with the ceiling in force, or a handler
  still awaits its query whose old ceiling was another one (`ArmedOrAsked`), and
  the one that ends last rearms them. `RevokedStay`: a revoked token is neither in
  memory nor in the file unless its write failed, and a session that is neither
  revoked nor expired is in the file unless the last write failed (`ConsoleInv`,
  `SaveKeeps`), from which `SessionsSurvive` follows for every boot. `PeersTended`: a
  script that ends itself has told its ffmpegs (`EndingTold`), and one that dies of a
  signal with ffmpegs of its own is recorded in `caught`.
* `MeshPeer_proofs`. `PairsStayAgreed`: a connection of the second peer is `Linked`
  to the session of the first that it answers, by its handler, by an answer on its
  way or by a connection that remembers it. A session is offered once, and linked
  only when the offer has been taken; so it has one answering connection, which
  has no other remote (`Matching`). Signals about connections still to be made
  do not exist (`Numbered`), since a new connection would take them.
  `OnlyTheTwoWait` is about a pair where nothing happens any more: a first peer that
  has a connection has offered it (`InitiatorOffers`), the offer was answered or
  went to a connection that is gone (`Answered`), and whoever answers knows to whom
  (`AnswererKnows`); so the two are joined, or one notices the loss, or they wait in
  one of the two ways that `PeersMeet` names.

Every safety and action property of a passing run, and both refinements, is the
property of a theorem. Model-checked only: the liveness properties, since
fairness is out of the prover's reach. For most of those the part without fairness
is proved, and what is left to TLC is that fair actions bring it about:

| Liveness | Proved part | Fair |
|---|---|---|
| `EmptiedRoomCloses` | `EmptiedRoomCountsDown`: an emptied room has its timer | `EmptyTimeout` |
| `ChannelFreed`, `ShutdownProceeds` | `ClosesUnderWay` | `CloseDone`, `AllClosed` |
| `IceDownIsSwept` | `IceDownIsArmed` | `SweepTimer` |
| `PeersMeet` | `NobodyStranded`, `PairsAgree` | signals, handlers, the loss of the other end |

`NoActiveRoomUnlisted`, `ClosesUnderWay`, `IceDownIsArmed`, `NobodyStranded`,
`MeetsRoomLife` and `CallsRoomLife` are stated by theorems alone. Each holds on the
instance of its module's run; `rooms` checks in place of the first the refinement
`ImplementsRoomLife`, which says the same and more of an active room. No theorem
is about `VanishedPeerGoes`, `SilentSocketCloses` and `DisconnectedIsRebuilt`: the
part without fairness is the guard of a timer, or, of the first, a variant of
several sweeps.

## 6. Plan

1. A bound on how long a vanished peer stays in the table, as a safety property
   beside `VanishedPeerGoes`.
2. The part of `RestartKeepsConfig` about the files as a refinement: a store that
   changes at once, implemented by memory, file and boot.
3. A delivery model for notifications (repeats, reordering) above `SfuRoom`, once
   a client that reads them is in the repository.

## 7. Not modelled

* The legacy werift engine (`room.ts`, `peer.ts`, `signaling.ts`): the
  production path never builds it; `config.ts` keeps it for test tooling.
* The operator console and the deployment, load and browser scripts, which are
  clients of the service.
* Identity, kinds and logging: constants, key derivation, formatting.
* Consumers, SDP, RTP parameters and statistics for the console: data without a
  decision that another part reads.
* Read-only endpoints, the codec of frames, ping and pong, and the fields of the
  configuration that only one reader has.
* Beacons of rooms and their contents, the gossip of mesh peers about third
  peers, and media.

mediasoup is modelled from its use: calls that resolve or reject later, also when
their transport has closed meanwhile, and events that come on their own.

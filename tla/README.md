# A TLA+ model of the BlueSense superhub

The superhub is a small computer that listens to Bluetooth Low Energy devices
around it, reports them to a platform over a websocket, and takes commands from
that platform: start or stop scanning, scan for WiFi networks, join one, write a
configuration to a beacon. `processes.json` runs it as three node.js processes
that talk over redis publish/subscribe. This directory holds TLA+ modules for
that program (`lib/bluesense-superhub`) and for the part of its predecessor
that runs at this commit (the scanner of `legacy/` and its client), TLC
configurations that check them on small instances, and TLAPS
proofs of every safety property and refinement they check, for any instance.

File names below are relative to `lib/bluesense-superhub/` unless they start
with `test/`, `features/` or `legacy/`.

## 1. Inventory

| Component | State it keeps | Operations | Talks to |
|---|---|---|---|
| BLE scanner (`ble-scanner.js`) | module variable `state`; noble's `state` and its queue of advertisements | `startScan`, `stopScan`, `discover` | noble below, Monitor or BeaconSync above (events) |
| Monitor process (`monitor.js`) | `_stopped`, `_deviceInfoCache`, one timer per cache entry | the four bus routes, `_handleDeviceDiscovered`, timer expiry | BLE scanner, bus, resolver |
| Resolver and parsers (`monitor/`) | none | `resolve`, three `parse` functions | Monitor |
| Bus (`messaging/bus.js`) | two redis clients, the subscribed channel | `publish`, `_onMessage`, `_onReady`, `_retryStrategy` | redis, every process |
| Websocket (`messaging/websocket.js`) | `_ws`, the reconnect timer | `send`, `_connect`, open/close/error handlers | platform, Router |
| Router process (`router.js`) | `_connected` | four handlers | websocket, bus |
| Info publisher (`controller/info-publisher.js`) | none | collects the addresses, publishes the info on connect | bus |
| WiFi controller (`controller/wireless.js`) | `_wifiNetworks`, `_sendWiFiScanEvents`, `_currentScan`, scan timers | six library events, scan start/stop, timeout, join, connect | WiFi adapter, bus |
| WiFi adapter (`wireless.js`) | `connected`, `network` | events of the `wireless` package, `join` | package, controller |
| Beacon sync (`controller/beacon-sync.js`) | `_operationMode`, `_beaconConfigsCache`, `_deviceInfoCache` | SyncBeacon route, discovery, series, disconnect | BLE scanner, sync managers, bus |
| Sync managers (`controller/sync-managers/`: `ble-device.js` with its subclass, and `bluebar.js`, which they were made from) | the peripheral, what was read of it | connect, discover, read, write, disconnect | noble |
| Machine, config, logger, server | none that changes | start-up | all |
| Legacy scanner (`legacy/bleScanner.js`) | `state`, `adapterResetInterval`; noble's `state` and its queue of advertisements | `startScan`, `stopScan`, `resetAdapter`, noble's stateChange | noble, `hciconfig`, its client |
| Beacon test (`legacy/bleTest.js`, `legacy/bluebar.js`) | the listener on the scanner, the running series, the disconnect handler, the pending restart | `restart`, `deviceDiscovered`, `dumpBeaconData`, `onDisconnect` | legacy scanner, noble |
| Legacy monitor and connection (`legacy/monitor.js`, `supernode.js`, `signalr-adapter.js`, `server.js`) | `state`, `isConnected`, a restart timer, the detected peripherals | commands, connection events, discovery | it cannot run, see section 5 |
| The rest of `legacy/` | an earlier controller and supervisor | required by nothing under `lib/` or `bin/` | – |

How they interact. Components of one process call each other and emit events
synchronously, so a handler with everything it calls is one atomic step.
Processes share nothing but the bus: the Router subscribes to `outbound` and
publishes to `inbound`, everyone else the other way round. Redis keeps nothing,
so a message reaches the clients subscribed at that moment or no one.
Asynchronous are the timers, noble's and the wireless package's events, redis and
the websocket. That is where the hard behaviour is:

* **ordering** – advertisements that noble emits after the scan was stopped, a
  link found before its network is tracked, statuses that race the platform's
  commands, a process that subscribes after the Router has spoken;
* **timers** that are never cancelled (cache entries, WiFi scans), and one that is
  meant to retry a connection and cannot;
* **partial failure** – parsers that throw, connection attempts that fail without
  anyone looking at the error, a series that ends half-way;
* **restarts** – pm2 starts any of the three processes anew; none stores anything,
  and none is told what happened before;
* **stale state** – the adapter's power read once, a network remembered after it
  was left, a config deleted on behalf of an older one.

What makes each component correct:

| Component | Properties |
|---|---|
| Parsers | a model says what the frame says; frames of the right length never throw; a better signal is never farther away |
| Characteristics | a text is read as it was given; what is missing costs one field; what is written is read back |
| Info publisher | every external IPv4 address is published once, and no other |
| Scanner, Monitor | a running radio can be stopped; an explicit stop holds; cache entries expire; the short form of a device follows its full form; devices are described again and again |
| Bus, Router, websocket | no echo to the platform; statuses alternate and the last one is true, also when processes are restarted |
| Hub | without a platform nothing scans; what was missed offline is made up for; the info follows every connect |
| WiFi | the list is what is in range; scan records agree and scans end after their own five minutes; joins are valid; lasting links are announced |
| Beacon sync | requests are not left lying; the radio does not scan beside a session; sessions end; accepted configs are synced |
| Legacy scanner and its client | one listener, session or timeout is in charge, never two and never none; whoever listens is heard; the scan comes back with the adapter; sessions go on |

`PROJECT.json` lists the hazards at their lines, with the property that would
catch each one, or the reason why none does yet.

## 2. Modules

| Module | Models |
|---|---|
| `BleScanner` | `ble-scanner.js` over an external noble and adapter |
| `Monitor` | `monitor.js` over `BleScanner`; the four routes as actions |
| `DeviceFeed` | abstract: describe a device, then mention it, until it is forgotten |
| `Buffers` | node's Buffer: reads, writes and hexadecimal digits |
| `Parsers` | `monitor/resolver.js` and `monitor/parsers/` as operators on bytes |
| `Characteristics` | reads, series of reads and writes of the sync managers, newer and older |
| `Lists` | `Array.prototype.filter`, on which the WiFi list, the parsers and the addresses rest, as a recursive function |
| `Addresses` | the loop over `os.networkInterfaces()` in `controller/info-publisher.js` (the same in `legacy/supervisor.js`) |
| `Formats` | calls of these functions, and what is required of their results |
| `Bus` | `messaging/bus.js`: operators on subscribers, publishers and inboxes |
| `RouterProcess` | `router.js` and `messaging/websocket.js`; extends `Bus` |
| `Hub` | instances of `Monitor` and `RouterProcess`, and the info publisher |
| `Wifi` | `controller/wireless.js` and `wireless.js` over an external package |
| `NetworkView` | abstract: each access point in range once, with its latest profile |
| `BeaconSync` | `controller/beacon-sync.js` and its sync managers; extends `BleScanner` |
| `LegacyScanner` | `legacy/bleScanner.js` over noble, the adapter and `hciconfig` |
| `BleTest` | `legacy/bleTest.js` with the session of `legacy/bluebar.js`; extends `LegacyScanner` |
| `ListProofs` | what `Filter` returns, for every list |
| `MonitorProofs`, `RouterProofs`, `WifiProofs`, `BeaconSyncProofs`, `BleTestProofs`, `FormatsProofs` | the theorems about the module of that name |
| `HubProofs` | the theorems about `Hub`; instances of `MonitorProofs` and `RouterProofs` |
| `MC*` | values of the constants for TLC |

How the state corresponds to the code:

* `BleScanner`. `scanState` is the module variable, `poweredOn` what
  `noble.state` says, `radio` whether the adapter scans. `reports[d]` counts
  advertisements received whose `discover` event has not been emitted yet; they
  survive a stop, which is how late reports arise. A device is not described by
  its bytes: what matters is whether it is cached and whether its frames make a
  parser throw (`Unparsable`).
* `Formats`. `input` is the call of one function with its arguments, `output` its
  result. An advertisement is a name that is a beacon's or not, a signal strength
  and byte strings. Reads are node's Buffer reads: a byte order, a
  sign, and an exception beyond the end; `Resolve` is `Thrown` exactly for the
  devices that are `Unparsable` in `Monitor`. The accuracy, a power of 12, is
  replaced by its comparisons with the limits of the zones, exact for every signed
  byte: `accuracy < 0.5` is `rssi / power < 0.81404`, `accuracy < 4` is
  `rssi / power < 1.37192`. A negative accuracy ("unknown") cannot occur.
  A characteristic answers a read with data, is missing, or fails; text is ASCII,
  one byte a character. `Configuration` keeps for each field what was read, or
  what it was before if the series did not get there. A beacon that takes writes
  is assumed to compare their first two bytes with the third and fourth of its
  serial number, as the code takes it to. A name of an interface is a sequence of
  characters, so that two names can really collide; characters are numbers, and a
  digit is the number it stands for. Of `ipAddresses` what is kept is which
  address (interface and number) is assigned to which key (`Assignments`,
  `AssignedTo`); of several the last one wins. `Key` puts the number behind the
  name digit by digit.
* `Monitor`. `cache` is the set of keys of `_deviceInfoCache`. `timers[d]` counts
  the pending `setTimeout` callbacks: `_stopScan` clears the cache, never a timer.
  `sent` is what this step published. `described` is a history variable: what was
  sent in full since the last stop.
* `Bus`. `inbox[c]` is what redis has sent to a client and node has not emitted.
  Each client has a subscribing and a publishing connection, which come up
  independently. Redis 2.6 calls `retry_strategy` unbound; the method then throws
  in its first line, so a refused or lost connection ends for good. `Published`
  drops messages of a publisher that is not ready (`enable_offline_queue` false).
* `RouterProcess`. `ws` is the socket, `connected` the Router's flag. A failed
  attempt also closes. `heard` is a history variable: what each of the
  `Witnesses` (a set, so that a run pays only for the history it uses) received
  last, and whether from the present Router process alone; `spoken` is another: the
  present Router process has published a status over a working connection.
  Other clients are an environment. `RestartRouter` and
  `RestartComponent` begin a process anew: new connections, nothing remembered,
  and what redis was sending to the old one is lost (`BusRestart`).
* `Hub` replaces that environment: a step of the Monitor that takes a message is
  `Rt!Receive` and the Monitor's handler of that route in one step, a discovery
  that publishes is `Mon!HandleDeviceDiscovered` and `Rt!Emit`. `RestartMonitor`
  also silences the adapter, whose socket noble holds.
* `Wifi`. `tracked`, `assoc` and `libConnected` are the package's knowledge;
  `connected` and `network` the adapter's fields, `wifiNetworks`, `sendEvents` and
  `currentScan` the controller's. `timers` holds pending timeouts by handle:
  `_stopWiFiScan` forgets the handle without clearing the timer, and every timeout
  ends whatever scan is running. A passphrase is its length or absent. `told` is a
  history variable: the link last reported to the platform. The package's `error`
  event (`OnError`) is reported to the platform and changes nothing else.
* `BeaconSync`. `step` is the function of the `async.series` that is waiting for
  noble, `attached` the serial number captured by the disconnect handler of the
  running session, `link` the connection. Each characteristic read of
  `readDeviceInfo` and `readConfiguration` is a step, since the link can be lost
  between any two; `InfoReads` and `ConfigReads` say what follows what. `thrown` is a series whose callback
  threw: nothing will continue it but a lost link. A failed connect is passed to a
  listener that takes no argument, so the series goes on to `discover` with the
  link down.
* `LegacyScanner`. `power` is `noble.state`, `scanState` the module variable,
  `resetInterval` whether the 30-second interval runs. `hciconfig` is the shell
  command still to come of "down; up"; commands that overlap are taken for one.
* `BleTest`. `listeners` counts how often `deviceDiscovered` is attached: each
  restart attaches it anew, `removeAllListeners` detaches all. `step` is the
  function of the series that waits for noble, `"none"` if the series has ended
  or a callback threw (the logger's `exitOnError: false` keeps the process).
  `link` is the connection, `"gone"` from the moment the adapter goes down under
  it; noble may or may not report that. `awaiting` says that the session's
  `once('disconnect')` is attached, `restarts` counts pending timeouts.

## 3. Runs

Passing runs:

| Run | Shows | Bounds |
|---|---|---|
| `monitor` | type invariant; a running radio can be stopped (`ScanningIsStoppable`); an explicit stop holds (`StoppedStaysQuiet`); cached devices have a timer (`CachedHasTimer`); short forms follow full forms (`SlimAfterFull`); `Monitor` implements `DeviceFeed`; parsable devices are described again and again | 2 ordinary devices and 1 unparsable one, 2 timers and 2 waiting reports each |
| `wifi` | `wifiNetworks` is what is tracked; a running scan has its timer; joins are current and valid; `Wifi` implements `NetworkView`; scans end; lasting links are announced | 2 access points, 2 profiles (one WPA, one open), 2 timer handles, passphrases of 7, 8, 63 and 64 characters and none |
| `router` | messages do not come back (`NoEcho`); no component hears the same status twice in a row from one Router process; the last status is the socket's, once a restarted Router has spoken | Router and 2 components, inboxes of 2, connections of Router and Monitor may end, the Router and the Monitor process may be restarted |
| `formats` | writing a reported iBeacon down as its format prescribes gives the frame back; frames of the right length never throw; a better signal is never farther away; a text behind its length is read exactly, one without unless its bytes are also those of a shorter text behind its length; a missing field is skipped; a written value is read back; every address is published | frames with edge bytes in major, minor and power, 9 signal strengths at the edges of the zones, frames that miss the format by one byte, service data of all lengths around the ones needed, in both orders; texts whose first character comes within one of their length or of one less, also of 31 to 34 and of 66 characters, where an unprefixed text begins to be ambiguous; up to two fields missing, failed, short or at the edges; 3 interfaces with up to 3 addresses, names that collide and names that do not, and one interface with 21 addresses |
| `hub` | once the Monitor has worked off its inbox, a hub without platform does not scan; every device is described to an open socket again and again; the info follows a connect that was heard | 1 device with 1 timer and 1 waiting report, inbox of 2 for the Monitor and 1 for the others, start and stop commands, all three processes may be restarted at any time |
| `beacon_sync` | requests are not left lying; the radio scans only in the mode for it; SYNCING means a session; sessions end and requests wait forever for three named reasons only | 2 devices, 3 serial numbers (2 spellings of the accepted one), all five faults |
| `ble_test` | type invariant; exactly one listener, session or timeout is in charge (`OneInCharge`); whoever listens is heard, or waits for an adapter that is being reset (`NeverDeaf`); the scan comes back with the adapter (`ScanReturns`); sessions and scans alternate for ever, except for three reasons named in `KeepsTesting` | 1 beacon and 1 other device, 2 waiting reports each, every order of adapter failures, resets, late reports and ends of a session |

Violations, each a statement of a test that the program does not keep:

| Run | Statement | What happens |
|---|---|---|
| `wifi_stale_timer` | "should scan for wifi networks for 5 minutes and then stop" (`test/unit/controller/wireless.spec.js:254`) | start, stop, start: the first timer ends the second scan |
| `wifi_lost_link` | leaving sets "the network status properties to indicate that we are not connected" (`test/unit/wireless-adapter.spec.js:76`) | `onLeave` resets nothing; the next connect reports the lost network as joined |
| `hub_info_missed` | "should publish the current application info every time we connect to the platform" (`test/unit/controller/info-publisher.spec.js:44`) | the Router connects before the Controller has subscribed |
| `hub_scan_missed` | on ConnectedToPlatform the Monitor "should start scanning for BLE devices" (`test/unit/monitor.spec.js:57`) | the adapter is not up yet, the state becomes `waitingForAdapter`, and nothing waits |
| `beacon_sync_dropped` | "should start syncing a beacon config on BeaconSync message" (`test/unit/controller/beacon-sync.spec.js:48`, in a suite that is skipped) | a config that arrives during a session is deleted when that session disconnects |

Why the bounds are enough. Two timers per device are what distinguishes "a timer"
from "the timer": one left by a cleared cache and one of the present entry. Two
waiting reports allow one to be late and one to be later. Two messages in the
Monitor's inbox let statuses and commands race; a third adds no new neighbour.
In `hub` the Router and the info publisher do nothing in answer that depends on a
second message, so one is enough for them; `router` gives every client two. Two WiFi handles
are a stale and a current timer. Two access points and two profiles let a
network change its name to that of another. Reaching a bound disables the
environment's step (an advertisement, a publication), never a handler's effect,
except for `MaxTimers`: a third timer of one device would need three stops within
ten seconds. Every `MaxReports`, `MaxTimers`, `MaxInbox` and `Handles` is named as
a bound where it is declared.

`formats` takes each input by itself: there is no state to combine, only edges to
hit. In `ble_test` one beacon and one other device are what `deviceDiscovered` tells
apart; two waiting reports let one come after the session of the first has begun.

Deadlock is checked in every run but `formats`, where a call ends with its result:
timers, adapter and sockets always have a step.

Fairness. Weak fairness of a timer or a handler says that node's event loop runs
every callback that stays due. Weak fairness of `Advertise` says that a device
in range keeps advertising, of `Connect` in `Hub` that redis answers, of the link events in `Wifi` that the package goes on
polling. Nothing is assumed of the platform, of users, of restarts, of the adapter's power, of WiFi links or of
failures. In `Hub` the two steps that publish are strongly fair: only the bound
on inboxes, which the code does not have, ever delays them. In `BleTest`
`HciUp` is strongly fair: `hciconfig` may fail again and again, but is tried
again and again and brings the adapter up in the end; noble makes its first
report of the adapter (`FirstStateChange`), and the shell gets to the end of its
command (`HciDown`). Of a session it says that noble answers over a link that is
up; nothing says that a lost link is reported.

The assumptions about what lies outside `src/`: noble emits what it has received
before it reports a connection; a connected beacon does not advertise; the adapter
is not switched off under a connection (`BeaconSync`; in `BleTest` it is); noble
answers nothing over a link that was lost, not even when the beacon is connected
again; the package sees a link go before it sees another one come.

## 4. Proofs

Every invariant, action property and refinement that a passing run checks is
also a theorem, for every value of the constants that meets the named
assumptions. An assumption is named where its constant is declared, TLC
evaluates it on every run, and it says no more than the code does: that bounds
are positive, that messages of different routes are different, that a byte is a
byte.

**`MonitorProofs`** (any set of devices, any bounds; `MaxReportsAssumption`,
`MaxTimersAssumption`, `UnparsableAssumption`): `MonitorTypeOK`, `RadioStoppable`,
`ExplicitStopHolds` and `CacheEntriesExpire`, the four invariants of the `monitor`
run; `SlimFollowsFull`, the action property `SlimAfterFull`; and
`MonitorImplementsFeed`, the refinement of `DeviceFeed`. The inductive invariant
`IInv` is the conjunction of the four and two facts that are there for the
induction:

* `RadioIsPowered` – `startScan` without power moves the state away from
  `"Scanning"`; that is harmless only if the radio was not running then;
* `CachedIsDescribed` – turns "the short form is sent for cached devices" into
  "for devices already described".

`StoppedStaysQuiet` in turn needs `ScanningIsStoppable`: `stopScan` turns the
radio off only in the state `"Scanning"`.

**`BeaconSyncProofs`** (any devices, serial numbers and set of faults;
`MaxReportsAssumption`, `SerialsAssumption`): `SyncTypeOK`, `NothingIsLeftLying`,
`RadioKeepsToItsMode`, `SyncingIsASession`. Their conjunction is inductive, and
none of the last three is by itself: a session can only begin beside a silent
radio because the radio runs in the one mode and the one state that `_stopScan`
and `stopScan` turn off, and `_restart` may start the radio because it is off in
every other mode. `RestartFacts` says once what `_restart` leaves behind, for
the two places that call it.

**`RouterProofs`** (any clients, inbox bounds, witnesses and messages, provided
that no component publishes what the Router says and that no command is a
status): `TypeCorrect`, `NeverEchoes`, `Alternating`, `UpToDate`. The invariant
has three layers.

* `BusInv`: what is in an inbox was sent by the other side, and nothing reaches
  a client that has not subscribed. It is about `Bus` alone, so that one lemma
  per bus operation serves the Router and the components.
* `RouterInv`: the Router's flag is the state of the socket, and only a Router
  whose publisher was ready has spoken.
* `WitnessInv`, for each witness: the statuses still on their way to it, put
  behind the last one it heard, are a row (`Told`). The row alternates, and it
  ends in the state of the socket as long as both connections are up and the
  Router has spoken. `StatusesAlternate` and `LastStatusIsCurrent` are about
  what was heard; neither says anything about messages under way, which is where
  an induction has to look. A restarted Router begins a new row.

The lemmas about rows say what appending a message and taking the first one do
to them.

**`HubProofs`** (`ClientsAssumption`, `CommandsAssumption`, `MonitorAssumption`,
`BoundsAssumption`):

* `HubIsRouter`: every behaviour of the hub is one of `RouterProcess`, the
  Monitor and the info publisher being components as `RouterProcess` assumes
  them. So the theorems of `RouterProofs` hold in the hub (`RouterPromises`).
* `MonitorPromises`: the Monitor's invariant is kept in the hub too, although
  its messages come over the bus and its process may begin anew at any time
  (which is why the hub does not simply refine `Monitor`).
* `OfflineIsQuiet`: `QuietWhenOffline`, the promise that neither process can
  make alone. It says what holds once the Monitor has worked off its inbox.
  `QuietInv` says it of every inbox: as long as the Router is offline, has said
  so, and is connected with the Monitor, the Monitor will be silent after the
  messages it still has (`StaysQuiet`: the radio is off or the last message that
  matters is a goodbye). It uses the invariants of both processes: that the
  goodbye stops the radio is `ScanningIsStoppable` of the Monitor; that nothing
  but it comes after a disconnect is the flag of the Router being the state of
  the socket.

**`BleTestProofs`** (any devices and bound; `MaxReportsAssumption`):
`BleTestTypeOK`, `OneIsInCharge`, `ListenersAreHeard`. `OneInCharge` is inductive
beside the types: a listener hands the charge to a session, the session to a
timeout, the timeout to a listener, and a report that comes when nobody listens is
nobody's. `NeverDeaf` needs `PowerlessIsReset`: a scan that is started on an
adapter that is down has only the interval of an earlier stateChange to bring it
up. `StateChangeIsHeard` says once what a stateChange does, for the four actions
of the adapter that make one.

**`ListProofs`**. `Filter` is a recursive function over the prefixes of a list;
the induction theorems of the library take an operator and cannot be used.
In their place stands `LeastNumber` (a set of numbers has a least one, from the
well-foundedness of strict inclusion): each claim is proved by looking at the
shortest prefix for which it fails. That the recursion has a solution
(`KeptExists`) is proved the same way. `FilterFacts` says what is kept, and
that nothing is kept twice; `FilterPicks` that the kept entries are picked at
increasing places, all of them.

**`WifiProofs`** (any access points, profiles, handles and passphrases):
`WifiTypeCorrect`, `RunningScanHasTimer`, `ListIsTracked`, `JoinsAreValid`,
`ListImplementsView`. The invariant adds to the type two facts about the list:
no entry is there twice (`NothingTwice`) and an entry is there if and only if its
access point is tracked with that profile (`ListedAsTracked`). Each event of the
package changes the list by a filter, an append or both; `Appeared`, `Vanished`
and `Changed` say what this does to the set of entries, and the rest is first
order. `ListMatchesTracked` compares sizes, so `Counted` gives a bijection.

**`FormatsProofs`**. A call is one step, so the invariant `Computed` only says
which operator gave the output; the theorems are facts about operators, for every
input that node could hand over (byte strings of any length and content, any
answers of a beacon, values in the range of their type):

* `IBeaconsReencode`, `WellFormedIsParsed`: what the offsets of the parsers cut out,
  for any bytes;
* `LouderIsNearer`: the zones are ordered, by integer arithmetic;
* `TextsSurvive`: for printable texts of any length. A text behind its length is
  read exactly. A text without is read exactly unless it is `Ambiguous`, and that
  takes 33 characters, because a blank is 32: the lemma `PrefixIsTold` shows that the
  first character of a shorter text is never its length less one;
* `MissingCostsOneField`, `WritesAreRead`: field by field, and byte by byte;
* `AddressesAreReported`: for any list of interfaces, of any number of addresses.
  `EqualKeys` shows that `ifname + alias` is given twice only if one
  interface is called like another with a number behind it (by the least
  number for which it is not so); without such names the assignments are in
  a bijection with the external addresses.

Only model-checked:

* liveness (`DescribedAgain`, `ScanEnds`, `LinkIsAnnounced`, `InfoFollowsConnect`,
  `PlatformLearnsDevices`, `SyncEnds`, `RequestIsTakenUp`, `ScanReturns`,
  `KeepsTesting`):
  fairness and ENABLED are out of the prover's reach;
* the five violations: they are counterexamples, which TLC finds.

## 5. What is not modelled

* The accessors for doubles of the sync managers (`ble-device.js` 149-157,
  195-201): no code calls them. The write functions are modelled although only
  `writeMajor` uses one.
* The transmission power of a Sensoro beacon: the parser reads it, the model
  `models/ble-devices/sensoro-yunzi-beacon.js` does not keep it.
* The session of `controller/sync-managers/bluebar.js` (connect, discover,
  disconnect): nothing in `lib/` starts one; that of its successors is `BeaconSync`.
* The controller and supervisor roles of `legacy/`: `controller-new.js`,
  `wireless-adapter.js` and the address loop of `supervisor.js` are what the modelled
  files were made from. Scripts to try things out (`misc/`).
* The monitor role of `legacy/`: it cannot run at this commit. `monitor.js`,
  `supernode.js`, `signalr-adapter.js` and `server.js` take
  `require('./logger').logger`, which `legacy/logger.js:52-53` does not export, so
  every `logger.info` throws: `server.start` at :42 before a handler is wired,
  `startScan` at `monitor.js:56` before the listener, the scan and the interval,
  `stopScan` at :74, `updateState` at `supernode.js:13`, and the service handlers of
  `signalr-adapter.js` before they emit. `bleScanner.js` and its client `bleTest.js`
  take `getInstance()` and do run (on hardware whose `/proc/cpuinfo` has a serial
  number; `legacy/machine.js:18` would throw elsewhere).
* `BlueBar.discover` and the writes of `legacy/bluebar.js`, which `bleTest.js` does
  not call.
* Configuration, logging, machine identity: they only read files or write logs.
* A change of link between two polls of the wireless package.
* WiFi control and beacon sync behind the bus: they share nothing with the Monitor
  but the bus and the platform's status, and would multiply the states of `Hub`.

Known but without a run: a report handled after a disconnect refills the cache for
ten seconds while the socket is reopened after five, so the next session can begin
with the short form (`SlimAfterFull` allows it); a timer left by a cleared cache drops
a newer entry early, which costs one description too many; an unprefixed text of 33 or
more characters that begins with its own length less one loses that character
(`ble-device.js:111`), and nothing in the bytes could tell; one connection attempt to a beacon that fails leaves the mode
SYNCING forever (`RequestIsTakenUp` names this as one of the reasons to wait); a
device whose frame makes a parser throw is never reported (`DescribedAgain` leaves
it out).

About the bus and restarts: redis calls `_retryStrategy` unbound
(`messaging/bus.js:12`), so it throws, and a connection that is refused or lost is
never retried until the process is restarted. A Router that is restarted and does
not reach the platform announces nothing, so that a Monitor scans on; one that does
may repeat the status its predecessor sent. A restarted Monitor has forgotten an
explicit stop, and is not told that the platform is connected, so that it scans only
after the next connect or command. The second address of an interface `br0` has the
name `br01`, and overwrites the address of an interface of that name.

About the legacy scanner: one that was stopped and then loses its adapter waits for
it, and scans when it comes back, beside a session and with nobody listening
(`legacy/bleScanner.js:64-71`, and :96 does not stop one that waits). About its
client: a connection attempt that fails ends the series, and since there was no link
no disconnect will ever restart the scan (`legacy/bleTest.js:30`); an error while
discovering or a number that cannot be read leaves the link up, so that the test goes
on only if the beacon drops it. `KeepsTesting` calls such a session `Broken`.

## 6. Plan

1. Done: `BleScanner`, `Monitor`, `DeviceFeed`, `MonitorProofs`; `Parsers`; `Bus`,
   `RouterProcess`; `Hub` with restarts of every process; `Wifi`, `NetworkView`;
   `BeaconSync` with every read, `BeaconSyncProofs`; `Characteristics`, `Addresses`
   and `Formats`; `LegacyScanner` and `BleTest`.
2. Done: proofs of every safety property and refinement of the runs
   (`RouterProofs`, `HubProofs`, `WifiProofs`, `ListProofs`, `BleTestProofs`,
   `FormatsProofs`).
3. Open: one description of the fields of a beacon that both managers of
   `Characteristics` are shown to read; `BeaconSync` and `Wifi` as components of
   the hub, by the argument of `HubIsRouter`, without their product being
   checked by TLC.

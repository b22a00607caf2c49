------------------------------ MODULE Monitor -------------------------------
(***************************************************************************)
(* The Monitor process: lib/bluesense-superhub/monitor.js over the         *)
(* BleScanner. The four bus routes it listens to are actions of their own; *)
(* Hub composes them with the bus that delivers them.                      *)
(***************************************************************************)
EXTENDS FiniteSets, BleScanner

CONSTANTS
    Unparsable,     \* devices whose frames make a parser throw
    MaxTimers       \* bound: pending cache timers of one device

ASSUME UnparsableAssumption == Unparsable \subseteq Devices
ASSUME MaxTimersAssumption == MaxTimers \in Nat \ {0}

VARIABLES
    stopped,        \* _stopped: the platform stopped the scan
    cache,          \* _deviceInfoCache
    timers,         \* pending setTimeout callbacks that drop a cache entry
    sent,           \* the message this step published, if any
    described       \* history: devices sent in full since the cache was
                    \* last told to forget everything

monitorVars == <<stopped, cache, timers, sent, described>>
vars == <<scannerVars, monitorVars>>

NoMessage == [kind |-> "none"]
Full(d) == [kind |-> "full", device |-> d]      \* DeviceDetectedMessage
Slim(d) == [kind |-> "slim", device |-> d]      \* DeviceDetectedSlimMessage
Reports == {Full(d) : d \in Devices} \cup {Slim(d) : d \in Devices}

TypeOK ==
    /\ ScannerTypeOK
    /\ stopped \in BOOLEAN
    /\ cache \subseteq Devices
    /\ timers \in [Devices -> 0 .. MaxTimers]
    /\ sent \in Reports \cup {NoMessage}
    /\ described \subseteq Devices

Init ==
    /\ ScannerInit
    /\ stopped = FALSE
    /\ cache = {}
    /\ timers = [d \in Devices |-> 0]
    /\ sent = NoMessage
    /\ described = {}

-----------------------------------------------------------------------------
(* _startScan and _stopScan; "explicit" means the platform's user asked.   *)

\* A mutated StartMonitor: a reconnect overrides an explicit stop.
StartMonitorAlways(explicit) ==
    /\ stopped' = (stopped /\ ~explicit)
    /\ StartScan
    /\ sent' = NoMessage
    /\ UNCHANGED <<cache, timers, described>>

StartMonitor(explicit) ==
    /\ stopped' = (stopped /\ ~explicit)
    /\ IF stopped' THEN UNCHANGED scannerVars ELSE StartScan
    /\ sent' = NoMessage
    /\ UNCHANGED <<cache, timers, described>>

\* A mutated StopMonitor: the cache outlives the scan.
StopMonitorKeepsCache(explicit) ==
    /\ stopped' = (stopped \/ explicit)
    /\ StopScan
    /\ sent' = NoMessage
    /\ described' = {}
    /\ UNCHANGED <<timers, cache>>

StopMonitor(explicit) ==
    /\ stopped' = (stopped \/ explicit)
    /\ cache' = {}
    /\ StopScan
    /\ sent' = NoMessage
    /\ described' = {}
    /\ UNCHANGED timers

ConnectedToPlatform == StartMonitor(FALSE)
DisconnectedFromPlatform == StopMonitor(FALSE)
StartBleScan == StartMonitor(TRUE)
StopBleScan == StopMonitor(TRUE)

-----------------------------------------------------------------------------
(* _handleDeviceDiscovered, by its three outcomes. A late report, taken    *)
(* out of noble after the scan stopped, is handled like any other.         *)

\* A mutated ReportKnown: the two message classes are confused.
ReportKnownInFull(d) ==
    /\ d \in cache
    /\ sent' = Full(d)
    /\ UNCHANGED <<cache, timers, described>>

ReportKnown(d) ==
    /\ d \in cache
    /\ sent' = Slim(d)
    /\ UNCHANGED <<cache, timers, described>>

\* A mutated ReportNew: the entry is cached without a timer.
ReportNewForever(d) ==
    /\ d \notin cache
    /\ d \notin Unparsable
    /\ cache' = cache \cup {d}
    /\ sent' = Full(d)
    /\ described' = described \cup {d}
    /\ UNCHANGED timers

ReportNew(d) ==
    /\ d \notin cache
    /\ d \notin Unparsable
    /\ timers[d] < MaxTimers
    /\ cache' = cache \cup {d}
    /\ timers' = [timers EXCEPT ![d] = @ + 1]
    /\ sent' = Full(d)
    /\ described' = described \cup {d}

\* The resolver throws before the cache is touched: nothing is published.
ReportThrows(d) ==
    /\ d \notin cache
    /\ d \in Unparsable
    /\ sent' = NoMessage
    /\ UNCHANGED <<cache, timers, described>>

HandleDeviceDiscovered(d) ==
    /\ TakeReport(d)
    /\ ReportKnown(d) \/ ReportNew(d) \/ ReportThrows(d)
    /\ UNCHANGED <<stopped, poweredOn, radio, scanState>>

\* The timer set by ReportNew. It is never cancelled: after StopMonitor it
\* still fires, and then drops whatever entry the device has by that time.
ExpireCacheEntry(d) ==
    /\ timers[d] > 0
    /\ timers' = [timers EXCEPT ![d] = @ - 1]
    /\ cache' = cache \ {d}
    /\ sent' = NoMessage
    /\ UNCHANGED <<stopped, described, scannerVars>>

\* A step of the adapter alone: monitor.js does nothing.
Silently(A) ==
    /\ A
    /\ sent' = NoMessage
    /\ UNCHANGED <<stopped, cache, timers, described>>

AdapterStep == Silently(Adapter)

-----------------------------------------------------------------------------
PlatformCommand ==
    \/ ConnectedToPlatform
    \/ DisconnectedFromPlatform
    \/ StartBleScan
    \/ StopBleScan

Next ==
    \/ PlatformCommand
    \/ \E d \in Devices : HandleDeviceDiscovered(d)
    \/ \E d \in Devices : ExpireCacheEntry(d)
    \/ AdapterStep

Spec == Init /\ [][Next]_vars

\* The event loop runs every pending callback, and devices keep advertising.
Fairness ==
    \A d \in Devices :
        /\ WF_vars(HandleDeviceDiscovered(d))
        /\ WF_vars(ExpireCacheEntry(d))
        /\ WF_vars(Silently(Advertise(d)))

FairSpec == Spec /\ Fairness

-----------------------------------------------------------------------------
(* Safety *)

\* Whenever the adapter scans, the scanner's state says so, hence the next
\* stop really stops it: a radio running in any other state could never be
\* turned off through stopScan's guard (ble-scanner.js:38-47).
ScanningIsStoppable == radio => scanState = "Scanning"

\* A scan the user stopped stays stopped whatever connects, disconnects or
\* is discovered afterwards (monitor.spec.js:65).
StoppedStaysQuiet == stopped => ~radio

\* A device is in the cache only while a timer that will drop it is
\* pending, although clearing the cache leaves old timers behind.
CachedHasTimer == \A d \in Devices : d \in cache => timers[d] > 0

\* The platform never gets the short form of a device it has not been sent
\* in full since the last stop or disconnect (monitor.spec.js:98, 198).
SlimAfterFull ==
    [][\A d \in Devices : sent' = Slim(d) => d \in described]_vars

\* What the Monitor publishes is a DeviceFeed whose knowledge is the cache.
Feed == INSTANCE DeviceFeed WITH known <- cache, out <- sent
ImplementsFeed == Feed!Spec

(* Liveness *)

\* While a scan goes on, every device that can be parsed is described in
\* full again and again: cache entries always expire (monitor.spec.js:228).
DescribedAgain ==
    \A d \in Devices \ Unparsable : (<>[]radio) => []<>(sent = Full(d))
=============================================================================

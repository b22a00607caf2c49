----------------------------- MODULE BeaconSync -----------------------------
(***************************************************************************)
(* controller/beacon-sync.js over the BleScanner of the Controller process *)
(* and one sync manager per session (sync-managers/ble-device.js and       *)
(* blueSense-beacon.js). A session is an async.series of noble calls; the  *)
(* disconnect handler of the session runs whenever the link is lost.       *)
(***************************************************************************)
EXTENDS BleScanner

CONSTANTS
    Beacon,             \* the one beacon whose serial number is accepted
    Serials,            \* serial numbers the platform asks to sync
    Accepted,           \* those _handleSyncBeacon accepts
    AdvertisedSerial,   \* the spelling in the beacon's name
    Faults,             \* which kinds of fault the environment commits
    None

ASSUME SerialsAssumption ==
    /\ Beacon \in Devices
    /\ Accepted \subseteq Serials
    /\ AdvertisedSerial \in Serials
    /\ None \notin Serials
    /\ Faults \subseteq {"power", "connect", "discover", "data", "loss"}

VARIABLES
    mode,           \* _operationMode
    configs,        \* the serial numbers in _beaconConfigsCache
    infoCache,      \* _deviceInfoCache, by device
    link,           \* the connection to the beacon
    step,           \* the running function of the session's series
    attached        \* the serial in the session's disconnect handler

sessionVars == <<link, step, attached>>
vars == <<scannerVars, mode, configs, infoCache, sessionVars>>

\* The series of dumpBeaconData: connect, discover, the characteristics of
\* the device, those of the configuration, disconnect. Each read is mapped to
\* the step that its callback goes on to.
InfoReads ==
    [deviceName |-> "serialNumber", serialNumber |-> "manufacturerName",
     manufacturerName |-> "modelNumber", modelNumber |-> "hardwareRevision",
     hardwareRevision |-> "firmwareRevision", firmwareRevision |-> "uuid"]
ConfigReads ==
    [uuid |-> "major", major |-> "minor", minor |-> "advInterval",
     advInterval |-> "txPower", txPower |-> "txCalibrationValue",
     txCalibrationValue |-> "batteryLevel", batteryLevel |-> "disconnect"]
Steps ==
    DOMAIN InfoReads \cup DOMAIN ConfigReads
        \cup {"connect", "discover", "disconnect", "thrown", "none"}

\* Characteristics read as numbers of one or two bytes.
Numeric == DOMAIN ConfigReads \ {"uuid"}

TypeOK ==
    /\ ScannerTypeOK
    /\ mode \in {"idle", "scanning", "syncing"}
    /\ configs \subseteq Accepted
    /\ infoCache \subseteq Devices
    /\ link \in {"down", "connecting", "up"}
    /\ step \in Steps
    /\ attached \in Accepted \cup {None}

SyncInit ==
    /\ mode = "idle"
    /\ configs = {}
    /\ infoCache = {}
    /\ link = "down"
    /\ step = "none"
    /\ attached = None

Init == ScannerInit /\ SyncInit

-----------------------------------------------------------------------------
(* Starting and ending scans.                                              *)

\* _startScan: the mode is SCANNING even if the adapter cannot scan yet.
StartSyncScan ==
    IF mode = "idle" THEN mode' = "scanning" /\ StartScan
    ELSE UNCHANGED <<mode, scannerVars>>

\* A mutated Restart: the scan is left to the next message.
RestartIdle(left) ==
    /\ mode' = IF mode = "syncing" THEN "idle" ELSE mode
    /\ UNCHANGED scannerVars

\* A mutated Restart: it fails to leave the mode SYNCING first.
RestartStuck(left) ==
    IF left # {} THEN StartSyncScan ELSE UNCHANGED <<mode, scannerVars>>

\* _restart, with the configs that are left.
Restart(left) ==
    IF left # {} /\ mode # "scanning" THEN mode' = "scanning" /\ StartScan
    ELSE /\ mode' = IF mode = "syncing" THEN "idle" ELSE mode
         /\ UNCHANGED scannerVars

-----------------------------------------------------------------------------
(* The platform.                                                           *)

\* A mutated HandleSyncBeacon: nothing starts the scan.
HandleSyncBeaconQuietly(s) ==
    /\ s \in Accepted
    /\ configs' = configs \cup {s}
    /\ UNCHANGED <<infoCache, sessionVars, scannerVars, mode>>

\* A config for a serial that has one already is ignored: the first wins.
HandleSyncBeacon(s) ==
    /\ s \in Accepted
    /\ configs' = configs \cup {s}
    /\ StartSyncScan
    /\ UNCHANGED <<infoCache, sessionVars>>

RefuseSyncBeacon(s) == s \notin Accepted /\ UNCHANGED vars

-----------------------------------------------------------------------------
(* Discoveries. The handler does not look at the mode, so a report that    *)
(* noble emits late is handled as well.                                    *)

Wanted(d) == d = Beacon /\ AdvertisedSerial \in configs

\* The cache is written, never read. An entry lives for five minutes.
Remember(d) == infoCache' = infoCache \cup {d}

\* A mutated BeginSync: the mode changes first, and _stopScan tests it.
BeginSyncScanning ==
    /\ UNCHANGED <<radio, scanState>>
    /\ mode' = "syncing"
    /\ configs' = configs \ {AdvertisedSerial}
    /\ attached' = AdvertisedSerial
    /\ step' = "connect"
    /\ link' = "connecting"

\* _stopScan, then _syncBeacon: all listeners of an earlier session go.
BeginSync ==
    /\ IF mode = "scanning" THEN TurnOff ELSE UNCHANGED <<radio, scanState>>
    /\ mode' = "syncing"
    /\ configs' = configs \ {AdvertisedSerial}
    /\ attached' = AdvertisedSerial
    /\ step' = "connect"
    /\ link' = "connecting"

HandleDeviceDiscovered(d) ==
    /\ TakeReport(d)
    /\ Remember(d)
    /\ IF Wanted(d) THEN BeginSync
       ELSE UNCHANGED <<radio, scanState, mode, configs, sessionVars>>
    /\ UNCHANGED poweredOn

ForgetInfo(d) ==
    /\ d \in infoCache
    /\ infoCache' = infoCache \ {d}
    /\ UNCHANGED <<scannerVars, mode, configs, sessionVars>>

-----------------------------------------------------------------------------
(* The series of dumpBeaconData.                                           *)

Continue(to) ==
    /\ link = "up"
    /\ step' = to
    /\ UNCHANGED <<scannerVars, mode, configs, infoCache, link, attached>>

\* noble emits what it received before the connection came up first.
ConnectDone ==
    /\ step = "connect" /\ link = "connecting"
    /\ reports[Beacon] = 0
    /\ link' = "up"
    /\ step' = "discover"
    /\ UNCHANGED <<scannerVars, mode, configs, infoCache, attached>>

\* noble passes the error to the 'connect' listener, which ignores it: the
\* discovery is requested from a peripheral that is not there.
ConnectFails ==
    /\ "connect" \in Faults
    /\ step = "connect" /\ link = "connecting"
    /\ link' = "down"
    /\ step' = "discover"
    /\ UNCHANGED <<scannerVars, mode, configs, infoCache, attached>>

Discovered == step = "discover" /\ Continue("deviceName")

\* The series ends with the error. The link stays, and so does the handler.
DiscoverFails ==
    /\ "discover" \in Faults
    /\ step = "discover" /\ link = "up"
    /\ step' = "none"
    /\ Restart(configs)
    /\ UNCHANGED <<configs, infoCache, link, attached>>

\* A characteristic that is missing, or whose read fails, is skipped.
ReadInfo == step \in DOMAIN InfoReads /\ Continue(InfoReads[step])
ReadConfig == step \in DOMAIN ConfigReads /\ Continue(ConfigReads[step])

\* A characteristic shorter than its number throws in noble's callback.
ReadThrows ==
    /\ "data" \in Faults
    /\ step \in Numeric
    /\ Continue("thrown")

SeriesStep ==
    \/ ConnectDone
    \/ ConnectFails
    \/ Discovered
    \/ DiscoverFails
    \/ ReadInfo
    \/ ReadConfig
    \/ ReadThrows

\* A mutated EndSession: the handler of the session does not restart.
EndSessionSilently ==
    /\ link' = "down"
    /\ configs' = configs \ {attached}
    /\ step' = "none"
    /\ attached' = None
    /\ UNCHANGED <<infoCache, mode, scannerVars>>

\* The peripheral's 'disconnect': the handler of dumpBeaconData runs, then,
\* if the series had come so far, its final callback, which restarts again.
EndSession ==
    /\ link' = "down"
    /\ configs' = configs \ {attached}
    /\ step' = "none"
    /\ attached' = None
    /\ Restart(configs')
    /\ UNCHANGED infoCache

Disconnected == step = "disconnect" /\ link = "up" /\ EndSession

LinkLost == "loss" \in Faults /\ link = "up" /\ EndSession

-----------------------------------------------------------------------------
(* The adapter. A connected beacon does not advertise, and the adapter is  *)
(* not switched off under a connection.                                    *)

AdapterStep ==
    /\ \/ PowerOn
       \/ "power" \in Faults /\ link = "down" /\ PowerOff
       \/ \E d \in Devices : (d = Beacon => link # "up") /\ Advertise(d)
    /\ UNCHANGED <<mode, configs, infoCache, sessionVars>>

Next ==
    \/ \E s \in Serials : HandleSyncBeacon(s) \/ RefuseSyncBeacon(s)
    \/ \E d \in Devices : HandleDeviceDiscovered(d) \/ ForgetInfo(d)
    \/ SeriesStep
    \/ Disconnected
    \/ LinkLost
    \/ AdapterStep

Spec == Init /\ [][Next]_vars

\* noble answers every request it can, and emits what it has received; the
\* beacon keeps advertising while it is not connected.
BeaconAdvertises ==
    /\ link # "up" /\ Advertise(Beacon)
    /\ UNCHANGED <<mode, configs, infoCache, sessionVars>>

Fairness ==
    /\ WF_vars(HandleDeviceDiscovered(Beacon))
    /\ WF_vars(SeriesStep)
    /\ WF_vars(Disconnected)
    /\ WF_vars(BeaconAdvertises)

FairSpec == Spec /\ Fairness

-----------------------------------------------------------------------------
(* Safety *)

\* A sync request is never left lying: with no scan and no session under
\* way, nothing is waiting.
IdleMeansNothingToDo == mode = "idle" => configs = {}

\* The radio scans in the mode SCANNING only: never beside a session's
\* connection, which it would disturb, and never without a reason on record.
ScansOnlyWhenScanning == radio => mode = "scanning" /\ scanState = "Scanning"

\* The mode is SYNCING exactly as long as a session's series is unfinished,
\* and such a session has its disconnect handler in place.
SyncingMeansSession ==
    /\ mode = "syncing" <=> step # "none"
    /\ mode = "syncing" => attached # None

(* Liveness *)

\* A session whose peripheral will call back no more: the connection failed,
\* or a read threw inside noble's callback.
SessionBroken == step = "thrown" \/ (step = "discover" /\ link = "down")

\* Every session ends, unless a failed connection or short data broke it.
SyncEnds == (mode = "syncing") ~> (mode # "syncing" \/ SessionBroken)

\* What keeps a beacon in range from being found: a broken session, a scan
\* without power when it was started or since, a link a failed session left.
Blocked ==
    \/ SessionBroken
    \/ mode = "scanning" /\ ~radio
    \/ step = "none" /\ link = "up"

\* These are all the reasons why the request for a beacon in range could wait
\* forever: otherwise it is taken up, or dropped with an earlier session.
RequestIsTakenUp == <>[](AdvertisedSerial \in configs) => <>[]Blocked

(* What the test says, and the code does not do                            *)
(* (beacon-sync.spec.js:48: "should start syncing a beacon config on       *)
(* BeaconSync message")                                                    *)

\* A config that was accepted leaves the cache by being synced only.
AcceptedIsSynced ==
    [][\A s \in configs \ configs' : step' = "connect" /\ attached' = s]_vars
=============================================================================

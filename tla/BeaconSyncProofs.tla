-------------------------- MODULE BeaconSyncProofs --------------------------
(***************************************************************************)
(* The safety properties of BeaconSync, for any devices, serial numbers    *)
(* and faults. They are inductive together, not one by one: a session can  *)
(* only begin beside a silent radio because the radio scans in the mode    *)
(* SCANNING with the state "Scanning", the one case stopScan turns off;    *)
(* and a restart can only start the radio from a mode in which it is off.  *)
(***************************************************************************)
EXTENDS BeaconSync, TLAPS

IInv ==
    /\ TypeOK
    /\ IdleMeansNothingToDo
    /\ ScansOnlyWhenScanning
    /\ SyncingMeansSession

-----------------------------------------------------------------------------
(* The scanner, as the handlers use it.                                    *)

\* A scan started where the radio was off leaves the state stopScan tests.
LEMMA StartScanIsRecorded ==
    ASSUME ScannerTypeOK, ~radio, StartScan
    PROVE  ScannerTypeOK' /\ (radio' => scanState' = "Scanning")
BY DEF StartScan, ScannerTypeOK, ScanStates

\* _restart leaves the mode SYNCING, and is idle only with nothing to do.
LEMMA RestartFacts ==
    ASSUME IInv, NEW left \in SUBSET configs, Restart(left)
    PROVE  /\ ScannerTypeOK'
           /\ ScansOnlyWhenScanning'
           /\ mode' \in {"idle", "scanning"}
           /\ mode' = "idle" => left = {}
<1>1. CASE left # {} /\ mode # "scanning"
  <2>1. mode' = "scanning" /\ StartScan
    BY <1>1 DEF Restart
  <2>2. ~radio /\ ScannerTypeOK
    BY <1>1 DEF IInv, ScansOnlyWhenScanning, TypeOK, ScannerTypeOK
  <2>3. ScannerTypeOK' /\ (radio' => scanState' = "Scanning")
    BY <2>1, <2>2, StartScanIsRecorded
  <2> QED BY <2>1, <2>3 DEF ScansOnlyWhenScanning
<1>2. CASE ~(left # {} /\ mode # "scanning")
  <2>1. mode' = IF mode = "syncing" THEN "idle" ELSE mode
    BY <1>2 DEF Restart
  <2>2. UNCHANGED <<poweredOn, radio, scanState, reports>>
    BY <1>2 DEF Restart, scannerVars
  <2>3. ScannerTypeOK' /\ ScansOnlyWhenScanning'
    BY <2>1, <2>2 DEF IInv, TypeOK, ScannerTypeOK, ScansOnlyWhenScanning
  <2>4. mode' \in {"idle", "scanning"}
    BY <2>1 DEF IInv, TypeOK
  <2>5. mode' = "idle" => left = {}
    BY <1>2, <2>1 DEF IInv, IdleMeansNothingToDo
  <2> QED BY <2>3, <2>4, <2>5
<1> QED BY <1>1, <1>2

-----------------------------------------------------------------------------
\* The initial state of the process satisfies the inductive invariant.
LEMMA InitIInv == Init => IInv
<1> SUFFICES ASSUME Init PROVE IInv
  OBVIOUS
<1>1. reports \in [Devices -> 0 .. MaxReports]
  <2>1. reports = [d \in Devices |-> 0]
    BY DEF Init, ScannerInit
  <2> QED BY <2>1, MaxReportsAssumption
<1> USE DEF Init, ScannerInit, SyncInit
<1>2. TypeOK
  <2>1. ScannerTypeOK
    BY <1>1 DEF ScannerTypeOK, ScanStates
  <2>2. step \in Steps
    BY DEF Steps
  <2> QED BY <2>1, <2>2 DEF TypeOK
<1> QED
  BY <1>2 DEF IInv, IdleMeansNothingToDo, ScansOnlyWhenScanning,
              SyncingMeansSession

\* A config arrives.
LEMMA SyncBeaconKeepsIInv ==
    ASSUME IInv, NEW s \in Serials, HandleSyncBeacon(s)
    PROVE  IInv'
<1> USE DEF HandleSyncBeacon, sessionVars
<1>1. CASE mode = "idle"
  <2>1. mode' = "scanning" /\ StartScan
    BY <1>1 DEF StartSyncScan
  <2>2. ~radio /\ ScannerTypeOK
    BY <1>1 DEF IInv, ScansOnlyWhenScanning, TypeOK, ScannerTypeOK
  <2>3. ScannerTypeOK' /\ (radio' => scanState' = "Scanning")
    BY <2>1, <2>2, StartScanIsRecorded
  <2>4. TypeOK'
    BY <2>1, <2>3 DEF IInv, TypeOK
  <2>5. SyncingMeansSession'
    BY <1>1, <2>1 DEF IInv, SyncingMeansSession
  <2> QED
    BY <2>1, <2>3, <2>4, <2>5
       DEF IInv, IdleMeansNothingToDo, ScansOnlyWhenScanning
<1>2. CASE mode # "idle"
  <2>1. UNCHANGED <<mode, poweredOn, radio, scanState, reports>>
    BY <1>2 DEF StartSyncScan, scannerVars
  <2> QED
    BY <1>2, <2>1 DEF IInv, TypeOK, ScannerTypeOK, IdleMeansNothingToDo,
                      ScansOnlyWhenScanning, SyncingMeansSession
<1> QED BY <1>1, <1>2

\* A report is handled, in whatever mode. If it begins a session, the radio
\* is off afterwards: it was off before, or this turned it off.
LEMMA DiscoverKeepsIInv ==
    ASSUME IInv, NEW d \in Devices, HandleDeviceDiscovered(d)
    PROVE  IInv'
<1> USE DEF HandleDeviceDiscovered, TakeReport, Remember
<1>1. reports' \in [Devices -> 0 .. MaxReports]
  BY MaxReportsAssumption DEF IInv, TypeOK, ScannerTypeOK
<1>2. infoCache' \subseteq Devices
  BY DEF IInv, TypeOK
<1>3. CASE Wanted(d)
  <2>1. BeginSync
    BY <1>3
  <2>2. radio' = FALSE
    BY <2>1 DEF BeginSync, TurnOff, IInv, TypeOK, ScannerTypeOK,
                ScansOnlyWhenScanning
  <2>3. scanState' \in ScanStates
    BY <2>1 DEF BeginSync, TurnOff, IInv, TypeOK, ScannerTypeOK, ScanStates
  <2>4. /\ mode' = "syncing" /\ step' = "connect" /\ link' = "connecting"
        /\ attached' = AdvertisedSerial /\ configs' \subseteq configs
    BY <2>1 DEF BeginSync
  <2>5. AdvertisedSerial \in Accepted /\ AdvertisedSerial # None
    BY <1>3, SerialsAssumption DEF Wanted, IInv, TypeOK
  <2>6. TypeOK'
    <3>1. ScannerTypeOK'
      BY <1>1, <2>2, <2>3 DEF IInv, TypeOK, ScannerTypeOK
    <3>2. configs' \subseteq Accepted
      BY <2>4 DEF IInv, TypeOK
    <3> QED BY <1>2, <2>4, <2>5, <3>1, <3>2 DEF TypeOK, Steps
  <2> QED
    BY <2>2, <2>4, <2>5, <2>6
       DEF IInv, IdleMeansNothingToDo, ScansOnlyWhenScanning,
           SyncingMeansSession
<1>4. CASE ~Wanted(d)
  <2>1. UNCHANGED <<poweredOn, radio, scanState, mode, configs, link, step,
                    attached>>
    BY <1>4 DEF sessionVars
  <2> QED
    BY <1>1, <1>2, <2>1
       DEF IInv, TypeOK, ScannerTypeOK, IdleMeansNothingToDo,
           ScansOnlyWhenScanning, SyncingMeansSession
<1> QED BY <1>3, <1>4

\* A function of the series calls back, and the series goes on.
LEMMA SeriesKeepsIInv ==
    ASSUME IInv, SeriesStep
    PROVE  IInv'
<1>1. ASSUME NEW to \in Steps \ {"none"}, step # "none", Continue(to)
      PROVE  IInv'
  BY <1>1 DEF Continue, scannerVars, IInv, TypeOK, ScannerTypeOK,
              IdleMeansNothingToDo, ScansOnlyWhenScanning, SyncingMeansSession
<1>2. CASE ConnectDone \/ ConnectFails
  <2>1. step # "none" /\ step' = "discover" /\ link' \in {"up", "down"}
    BY <1>2 DEF ConnectDone, ConnectFails
  <2>2. UNCHANGED <<poweredOn, radio, scanState, reports, mode, configs,
                    infoCache, attached>>
    BY <1>2 DEF ConnectDone, ConnectFails, scannerVars
  <2>3. TypeOK'
    BY <2>1, <2>2 DEF IInv, TypeOK, ScannerTypeOK, Steps
  <2> QED
    BY <2>1, <2>2, <2>3 DEF IInv, IdleMeansNothingToDo,
       ScansOnlyWhenScanning, SyncingMeansSession
<1>3. CASE Discovered
  BY <1>1, <1>3 DEF Discovered, Steps, InfoReads
<1>4. CASE DiscoverFails
  <2>1. Restart(configs) /\ step' = "none"
        /\ UNCHANGED <<configs, infoCache, link, attached>>
    BY <1>4 DEF DiscoverFails
  <2>2. /\ ScannerTypeOK' /\ ScansOnlyWhenScanning'
        /\ mode' \in {"idle", "scanning"} /\ (mode' = "idle" => configs = {})
    BY <2>1, RestartFacts
  <2>3. TypeOK'
    BY <2>1, <2>2 DEF IInv, TypeOK, Steps
  <2> QED
    BY <2>1, <2>2, <2>3 DEF IInv, IdleMeansNothingToDo, SyncingMeansSession
<1>5. CASE ReadInfo
  <2>1. step # "none" /\ InfoReads[step] \in Steps \ {"none"}
    BY <1>5 DEF ReadInfo, InfoReads, ConfigReads, Steps
  <2> QED BY <1>1, <1>5, <2>1 DEF ReadInfo
<1>6. CASE ReadConfig
  <2>1. step # "none" /\ ConfigReads[step] \in Steps \ {"none"}
    BY <1>6 DEF ReadConfig, InfoReads, ConfigReads, Steps
  <2> QED BY <1>1, <1>6, <2>1 DEF ReadConfig
<1>7. CASE ReadThrows
  <2>1. step # "none"
    BY <1>7 DEF ReadThrows, Numeric, ConfigReads
  <2> QED BY <1>1, <1>7, <2>1 DEF ReadThrows, Steps
<1> QED BY <1>2, <1>3, <1>4, <1>5, <1>6, <1>7 DEF SeriesStep

\* The link is lost, on purpose or not, and the handler of the session runs.
LEMMA EndKeepsIInv ==
    ASSUME IInv, EndSession
    PROVE  IInv'
<1>1. /\ Restart(configs') /\ configs' \in SUBSET configs
      /\ step' = "none" /\ link' = "down" /\ attached' = None
      /\ UNCHANGED infoCache
  BY DEF EndSession
<1>2. /\ ScannerTypeOK' /\ ScansOnlyWhenScanning'
      /\ mode' \in {"idle", "scanning"} /\ (mode' = "idle" => configs' = {})
  BY <1>1, RestartFacts
<1>3. TypeOK'
  BY <1>1, <1>2 DEF IInv, TypeOK, Steps
<1> QED
  BY <1>1, <1>2, <1>3 DEF IInv, IdleMeansNothingToDo, SyncingMeansSession

\* The adapter powers up or down, or receives an advertisement.
LEMMA AdapterKeepsIInv ==
    ASSUME IInv, AdapterStep
    PROVE  IInv'
<1>1. ScannerTypeOK' /\ (radio' => radio /\ scanState' = scanState)
  <2>1. CASE PowerOn \/ PowerOff
    <3>1. ScannerTypeOK'
      BY <2>1 DEF PowerOn, PowerOff, IInv, TypeOK, ScannerTypeOK
    <3>2. radio' => radio /\ scanState' = scanState
      BY <2>1 DEF PowerOn, PowerOff
    <3> QED BY <3>1, <3>2
  <2>2. ASSUME NEW d \in Devices, Advertise(d)
        PROVE  ScannerTypeOK' /\ (radio' => radio /\ scanState' = scanState)
    BY <2>2, MaxReportsAssumption DEF Advertise, IInv, TypeOK, ScannerTypeOK
  <2>3. PowerOn \/ PowerOff \/ \E d \in Devices : Advertise(d)
    BY DEF AdapterStep
  <2> QED BY <2>1, <2>2, <2>3
<1> QED
  BY <1>1 DEF AdapterStep, sessionVars, IInv, TypeOK, IdleMeansNothingToDo,
              ScansOnlyWhenScanning, SyncingMeansSession

\* Every step of the process preserves the inductive invariant.
LEMMA NextKeepsIInv == IInv /\ [Next]_vars => IInv'
<1> SUFFICES ASSUME IInv, [Next]_vars PROVE IInv'
  OBVIOUS
<1>1. CASE UNCHANGED vars
  BY <1>1 DEF vars, scannerVars, sessionVars, IInv, TypeOK, ScannerTypeOK,
              IdleMeansNothingToDo, ScansOnlyWhenScanning, SyncingMeansSession
<1>2. ASSUME NEW s \in Serials, HandleSyncBeacon(s) \/ RefuseSyncBeacon(s)
      PROVE  IInv'
  BY <1>1, <1>2, SyncBeaconKeepsIInv DEF RefuseSyncBeacon
<1>3. ASSUME NEW d \in Devices, HandleDeviceDiscovered(d) PROVE IInv'
  BY <1>3, DiscoverKeepsIInv
<1>4. ASSUME NEW d \in Devices, ForgetInfo(d) PROVE IInv'
  BY <1>4 DEF ForgetInfo, scannerVars, sessionVars, IInv, TypeOK,
              ScannerTypeOK, IdleMeansNothingToDo, ScansOnlyWhenScanning,
              SyncingMeansSession
<1>5. CASE SeriesStep
  BY <1>5, SeriesKeepsIInv
<1>6. CASE Disconnected \/ LinkLost
  BY <1>6, EndKeepsIInv DEF Disconnected, LinkLost
<1>7. CASE AdapterStep
  BY <1>7, AdapterKeepsIInv
<1> QED BY <1>1, <1>2, <1>3, <1>4, <1>5, <1>6, <1>7 DEF Next

-----------------------------------------------------------------------------
\* The inductive invariant holds in every reachable state.
THEOREM SyncInvariant == Spec => []IInv
BY InitIInv, NextKeepsIInv, PTL DEF Spec

\* Every variable of the synchronisation keeps its type.
THEOREM SyncTypeOK == Spec => []TypeOK
<1>1. IInv => TypeOK BY DEF IInv
<1> QED BY <1>1, SyncInvariant, PTL

\* A request is never left lying while nothing is under way.
THEOREM NothingIsLeftLying == Spec => []IdleMeansNothingToDo
<1>1. IInv => IdleMeansNothingToDo BY DEF IInv
<1> QED BY <1>1, SyncInvariant, PTL

\* The radio never scans beside the connection of a session.
THEOREM RadioKeepsToItsMode == Spec => []ScansOnlyWhenScanning
<1>1. IInv => ScansOnlyWhenScanning BY DEF IInv
<1> QED BY <1>1, SyncInvariant, PTL

\* SYNCING means that a session with a disconnect handler is unfinished.
THEOREM SyncingIsASession == Spec => []SyncingMeansSession
<1>1. IInv => SyncingMeansSession BY DEF IInv
<1> QED BY <1>1, SyncInvariant, PTL
=============================================================================

--------------------------- MODULE MonitorProofs ----------------------------
(***************************************************************************)
(* The safety properties of Monitor, for any set of devices and any bound  *)
(* on the timers. CachedIsDescribed and CachedHasTimer are inductive by    *)
(* themselves; StoppedStaysQuiet needs ScanningIsStoppable, because        *)
(* stopScan turns the radio off only in the state "Scanning"; and that one *)
(* needs RadioIsPowered, because startScan without power leaves that state.*)
(***************************************************************************)
EXTENDS Monitor, TLAPS

\* What the cache holds has been described since it was last cleared.
CachedIsDescribed == cache \subseteq described

\* The radio runs only while the adapter has power.
RadioIsPowered == radio => poweredOn

IInv ==
    /\ TypeOK
    /\ RadioIsPowered
    /\ ScanningIsStoppable
    /\ StoppedStaysQuiet
    /\ CachedHasTimer
    /\ CachedIsDescribed

-----------------------------------------------------------------------------
\* The initial state of the process satisfies the inductive invariant.
LEMMA InitIInv == Init => IInv
<1> SUFFICES ASSUME Init PROVE IInv
  OBVIOUS
<1>1. ScannerTypeOK
  <2>1. reports = [d \in Devices |-> 0]
    BY DEF Init, ScannerInit
  <2>2. reports \in [Devices -> 0 .. MaxReports]
    BY <2>1, MaxReportsAssumption
  <2> QED BY <2>2 DEF Init, ScannerInit, ScannerTypeOK, ScanStates
<1>2. timers \in [Devices -> 0 .. MaxTimers]
  BY MaxTimersAssumption DEF Init
<1>3. TypeOK
  BY <1>1, <1>2 DEF Init, TypeOK
<1>4. RadioIsPowered /\ ScanningIsStoppable /\ StoppedStaysQuiet
  BY DEF Init, ScannerInit, RadioIsPowered, ScanningIsStoppable,
         StoppedStaysQuiet
<1>5. CachedHasTimer /\ CachedIsDescribed
  BY DEF Init, CachedHasTimer, CachedIsDescribed
<1> QED BY <1>3, <1>4, <1>5 DEF IInv

\* Both kinds of start, from the platform's user and from a reconnect.
LEMMA StartKeepsIInv ==
    ASSUME IInv, NEW explicit \in BOOLEAN, StartMonitor(explicit)
    PROVE  IInv'
<1>1. TypeOK'
  <2>1. ScannerTypeOK'
    <3>1. CASE stopped'
      BY <3>1 DEF IInv, TypeOK, ScannerTypeOK, StartMonitor, scannerVars
    <3>2. CASE ~stopped'
      <4>1. StartScan
        BY <3>2 DEF StartMonitor
      <4>2. radio' \in BOOLEAN
        BY <4>1 DEF StartScan
      <4>3. scanState' \in ScanStates
        BY <4>1 DEF StartScan, ScanStates
      <4>4. UNCHANGED <<poweredOn, reports>>
        BY <4>1 DEF StartScan
      <4> QED BY <4>2, <4>3, <4>4 DEF IInv, TypeOK, ScannerTypeOK
    <3> QED BY <3>1, <3>2
  <2>2. stopped' \in BOOLEAN
    BY DEF StartMonitor
  <2> QED BY <2>1, <2>2 DEF IInv, TypeOK, StartMonitor
<1>2. RadioIsPowered' /\ ScanningIsStoppable' /\ StoppedStaysQuiet'
  <2> USE DEF RadioIsPowered, ScanningIsStoppable, StoppedStaysQuiet
  <2>1. CASE stopped'
    <3>1. UNCHANGED <<poweredOn, radio, scanState>>
      BY <2>1 DEF StartMonitor, scannerVars
    <3>2. stopped
      BY <2>1 DEF StartMonitor
    <3> QED BY <3>1, <3>2 DEF IInv
  <2>2. CASE ~stopped'
    <3>1. StartScan
      BY <2>2 DEF StartMonitor
    <3>2. poweredOn' = poweredOn
      BY <3>1 DEF StartScan
    <3>3. radio' => poweredOn
      BY <3>1 DEF StartScan, IInv
    <3>4. poweredOn => scanState' = "Scanning"
      BY <3>1 DEF StartScan
    <3> QED BY <2>2, <3>2, <3>3, <3>4
  <2> QED BY <2>1, <2>2
<1>3. CachedHasTimer' /\ CachedIsDescribed'
  BY DEF IInv, CachedHasTimer, CachedIsDescribed, StartMonitor
<1> QED BY <1>1, <1>2, <1>3 DEF IInv

\* Both kinds of stop. Here the radio must be off in every case: either the
\* state is "Scanning" and the radio is turned off, or it was not running.
LEMMA StopKeepsIInv ==
    ASSUME IInv, NEW explicit \in BOOLEAN, StopMonitor(explicit)
    PROVE  IInv'
<1>1. TypeOK'
  BY DEF IInv, TypeOK, ScannerTypeOK, ScanStates, StopMonitor, StopScan,
         TurnOff
<1>2. radio' = FALSE
  BY DEF IInv, ScanningIsStoppable, TypeOK, ScannerTypeOK, StopMonitor,
         StopScan, TurnOff
<1>3. CachedHasTimer' /\ CachedIsDescribed'
  BY DEF CachedHasTimer, CachedIsDescribed, StopMonitor
<1> QED
  BY <1>1, <1>2, <1>3
     DEF IInv, RadioIsPowered, ScanningIsStoppable, StoppedStaysQuiet

\* A discovered device, by the three outcomes of the handler.
LEMMA DiscoverKeepsIInv ==
    ASSUME IInv, NEW d \in Devices, HandleDeviceDiscovered(d)
    PROVE  IInv'
<1> USE DEF IInv, HandleDeviceDiscovered, TakeReport
<1>1. /\ ScannerTypeOK'
      /\ RadioIsPowered' /\ ScanningIsStoppable' /\ StoppedStaysQuiet'
  <2>1. reports' \in [Devices -> 0 .. MaxReports]
    BY MaxReportsAssumption DEF TypeOK, ScannerTypeOK
  <2> QED
    BY <2>1 DEF TypeOK, ScannerTypeOK, RadioIsPowered, ScanningIsStoppable,
                StoppedStaysQuiet
<1>2. CASE ReportKnown(d)
  BY <1>1, <1>2 DEF ReportKnown, TypeOK, Reports, CachedHasTimer,
                    CachedIsDescribed
<1>3. CASE ReportThrows(d)
  BY <1>1, <1>3 DEF ReportThrows, TypeOK, CachedHasTimer, CachedIsDescribed
<1>4. CASE ReportNew(d)
  <2>1. timers' \in [Devices -> 0 .. MaxTimers]
    BY <1>4, MaxTimersAssumption DEF ReportNew, TypeOK
  <2>2. TypeOK'
    BY <1>1, <1>4, <2>1 DEF ReportNew, TypeOK, Reports
  <2>3. CachedHasTimer'
    <3> SUFFICES ASSUME NEW e \in Devices, e \in cache'
                 PROVE  timers'[e] > 0
      BY DEF CachedHasTimer
    <3>1. CASE e = d
      BY <1>4, <3>1, MaxTimersAssumption DEF ReportNew, TypeOK
    <3>2. CASE e # d
      BY <1>4, <3>2 DEF ReportNew, TypeOK, CachedHasTimer
    <3> QED BY <3>1, <3>2
  <2>4. CachedIsDescribed'
    BY <1>4 DEF ReportNew, CachedIsDescribed
  <2> QED BY <1>1, <2>2, <2>3, <2>4
<1> QED BY <1>2, <1>3, <1>4

\* A timer fires; it may be one that a stop left behind.
LEMMA ExpireKeepsIInv ==
    ASSUME IInv, NEW d \in Devices, ExpireCacheEntry(d)
    PROVE  IInv'
<1> USE DEF IInv, ExpireCacheEntry, scannerVars
<1>1. TypeOK'
  BY MaxTimersAssumption DEF TypeOK, ScannerTypeOK
<1>2. CachedHasTimer'
  BY DEF CachedHasTimer, TypeOK
<1>3. CachedIsDescribed'
  BY DEF CachedIsDescribed
<1>4. RadioIsPowered' /\ ScanningIsStoppable' /\ StoppedStaysQuiet'
  BY DEF RadioIsPowered, ScanningIsStoppable, StoppedStaysQuiet
<1> QED BY <1>1, <1>2, <1>3, <1>4

\* The adapter powers up or down, or receives an advertisement.
LEMMA AdapterKeepsIInv == IInv /\ AdapterStep => IInv'
<1> SUFFICES ASSUME IInv, AdapterStep PROVE IInv'
  OBVIOUS
<1> USE DEF IInv, AdapterStep, Silently
<1>1. ScannerTypeOK'
  <2>1. CASE PowerOn \/ PowerOff
    BY <2>1 DEF PowerOn, PowerOff, TypeOK, ScannerTypeOK
  <2>2. ASSUME NEW d \in Devices, Advertise(d) PROVE ScannerTypeOK'
    BY <2>2, MaxReportsAssumption DEF Advertise, TypeOK, ScannerTypeOK
  <2> QED BY <2>1, <2>2 DEF Adapter
<1>2. TypeOK' /\ CachedHasTimer' /\ CachedIsDescribed'
  BY <1>1 DEF TypeOK, CachedHasTimer, CachedIsDescribed
<1>3. RadioIsPowered' /\ ScanningIsStoppable' /\ StoppedStaysQuiet'
  BY DEF Adapter, PowerOn, PowerOff, Advertise, RadioIsPowered,
         ScanningIsStoppable, StoppedStaysQuiet
<1> QED BY <1>1, <1>2, <1>3

\* Every step of the process preserves the inductive invariant.
LEMMA NextKeepsIInv == IInv /\ [Next]_vars => IInv'
<1> SUFFICES ASSUME IInv, [Next]_vars PROVE IInv'
  OBVIOUS
<1>1. CASE PlatformCommand
  BY <1>1, StartKeepsIInv, StopKeepsIInv
     DEF PlatformCommand, ConnectedToPlatform, DisconnectedFromPlatform,
         StartBleScan, StopBleScan
<1>2. ASSUME NEW d \in Devices, HandleDeviceDiscovered(d) PROVE IInv'
  BY <1>2, DiscoverKeepsIInv
<1>3. ASSUME NEW d \in Devices, ExpireCacheEntry(d) PROVE IInv'
  BY <1>3, ExpireKeepsIInv
<1>4. CASE AdapterStep
  BY <1>4, AdapterKeepsIInv
<1>5. CASE UNCHANGED vars
  BY <1>5 DEF vars, scannerVars, monitorVars, IInv, TypeOK, ScannerTypeOK,
              RadioIsPowered, ScanningIsStoppable, StoppedStaysQuiet,
              CachedHasTimer, CachedIsDescribed
<1> QED BY <1>1, <1>2, <1>3, <1>4, <1>5 DEF Next

-----------------------------------------------------------------------------
\* The inductive invariant holds in every reachable state.
THEOREM MonitorInvariant == Spec => []IInv
BY InitIInv, NextKeepsIInv, PTL DEF Spec

\* Every variable of the process keeps its type.
THEOREM MonitorTypeOK == Spec => []TypeOK
<1>1. IInv => TypeOK BY DEF IInv
<1> QED BY <1>1, MonitorInvariant, PTL

\* A running radio can always be stopped.
THEOREM RadioStoppable == Spec => []ScanningIsStoppable
<1>1. IInv => ScanningIsStoppable BY DEF IInv
<1> QED BY <1>1, MonitorInvariant, PTL

\* No connect, disconnect or discovery restarts a scan the user stopped.
THEOREM ExplicitStopHolds == Spec => []StoppedStaysQuiet
<1>1. IInv => StoppedStaysQuiet BY DEF IInv
<1> QED BY <1>1, MonitorInvariant, PTL

\* No cache entry is immortal: each has a pending timer.
THEOREM CacheEntriesExpire == Spec => []CachedHasTimer
<1>1. IInv => CachedHasTimer BY DEF IInv
<1> QED BY <1>1, MonitorInvariant, PTL

\* The short form of a device follows its full form since the last stop.
THEOREM SlimFollowsFull == Spec => SlimAfterFull
<1> DEFINE A == \A d \in Devices : sent' = Slim(d) => d \in described
<1>1. IInv /\ [Next]_vars => [A]_vars
  <2> SUFFICES ASSUME IInv, Next, NEW d \in Devices, sent' = Slim(d)
               PROVE  d \in described
    OBVIOUS
  <2>1. Slim(d) # NoMessage /\ \A e \in Devices : Slim(d) # Full(e)
    BY DEF Slim, NoMessage, Full
  <2>2. PICK e \in Devices : HandleDeviceDiscovered(e)
    BY <2>1 DEF Next, PlatformCommand, ConnectedToPlatform,
       DisconnectedFromPlatform, StartBleScan, StopBleScan, StartMonitor,
       StopMonitor, ExpireCacheEntry, AdapterStep, Silently
  <2>3. ReportKnown(e)
    BY <2>1, <2>2 DEF HandleDeviceDiscovered, ReportNew, ReportThrows
  <2>4. e = d
    BY <2>3 DEF ReportKnown, Slim
  <2> QED BY <2>3, <2>4 DEF ReportKnown, IInv, CachedIsDescribed
<1> QED BY <1>1, MonitorInvariant, PTL DEF Spec, SlimAfterFull

-----------------------------------------------------------------------------
\* The Monitor implements DeviceFeed: handlers that publish describe or
\* mention a device, all others at most forget some.
LEMMA NextImplementsFeed == IInv /\ [Next]_vars => [Feed!Next]_Feed!feedVars
<1> SUFFICES ASSUME IInv, [Next]_vars
             PROVE  Feed!Next \/ UNCHANGED <<cache, sent>>
  BY DEF Feed!feedVars
<1> USE DEF NoMessage, Feed!NoMessage
<1>1. CASE PlatformCommand
  <2>1. cache' \in SUBSET cache /\ sent' = NoMessage
    BY <1>1 DEF PlatformCommand, ConnectedToPlatform, DisconnectedFromPlatform,
       StartBleScan, StopBleScan, StartMonitor, StopMonitor
  <2> QED BY <2>1 DEF Feed!Next, Feed!Forget
<1>2. ASSUME NEW d \in Devices, HandleDeviceDiscovered(d) PROVE Feed!Next
  <2>1. CASE ReportKnown(d)
    BY <2>1 DEF ReportKnown, Slim, Feed!Slim, Feed!Mention, Feed!Next
  <2>2. CASE ReportNew(d)
    BY <2>2 DEF ReportNew, Full, Feed!Full, Feed!Describe, Feed!Next
  <2>3. CASE ReportThrows(d)
    BY <2>3 DEF ReportThrows, Feed!Forget, Feed!Next
  <2> QED BY <1>2, <2>1, <2>2, <2>3 DEF HandleDeviceDiscovered
<1>3. ASSUME NEW d \in Devices, ExpireCacheEntry(d) PROVE Feed!Next
  BY <1>3 DEF ExpireCacheEntry, Feed!Forget, Feed!Next
<1>4. CASE AdapterStep
  BY <1>4 DEF AdapterStep, Silently, Feed!Forget, Feed!Next
<1>5. CASE UNCHANGED vars
  BY <1>5 DEF vars, monitorVars
<1> QED BY <1>1, <1>2, <1>3, <1>4, <1>5 DEF Next

\* Everything the Monitor does is allowed by the abstract DeviceFeed.
THEOREM MonitorImplementsFeed == Spec => ImplementsFeed
<1>1. Init => Feed!Init
  BY DEF Init, NoMessage, Feed!Init, Feed!NoMessage
<1> QED
  BY <1>1, NextImplementsFeed, MonitorInvariant, PTL
     DEF Spec, ImplementsFeed, Feed!Spec
=============================================================================

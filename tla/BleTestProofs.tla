--------------------------- MODULE BleTestProofs ----------------------------
(***************************************************************************)
(* The safety properties of BleTest, for any devices and any bound on the  *)
(* reports. OneInCharge is inductive beside the types; NeverDeaf needs     *)
(* PowerlessIsReset, for a scan that is started on an adapter that is down *)
(* has only the interval of an earlier stateChange to bring it up.         *)
(***************************************************************************)
EXTENDS BleTest, TLAPS

\* An adapter that is known to be down is being reset.
PowerlessIsReset == power = "poweredOff" => resetInterval

IInv ==
    /\ TypeOK
    /\ OneInCharge
    /\ PowerlessIsReset
    /\ NeverDeaf

-----------------------------------------------------------------------------
\* The initial state of the client satisfies the inductive invariant.
LEMMA InitIInv == Init => IInv
<1> SUFFICES ASSUME Init PROVE IInv
  OBVIOUS
<1>1. TypeOK
  <2>1. reports = [d \in Devices |-> 0]
    BY DEF Init, ScannerInit
  <2>2. reports \in [Devices -> 0 .. MaxReports]
    BY <2>1, MaxReportsAssumption
  <2> QED BY <2>2 DEF Init, ScannerInit, ScannerTypeOK, TypeOK
<1>2. OneInCharge /\ PowerlessIsReset /\ NeverDeaf
  BY DEF Init, ScannerInit, OneInCharge, PowerlessIsReset, NeverDeaf
<1> QED BY <1>1, <1>2 DEF IInv

\* noble's stateChange turns every listening scanner into one that scans or
\* one that waits and is reset, whatever it did before.
LEMMA StateChangeIsHeard ==
    ASSUME IInv, NEW s \in {"poweredOn", "poweredOff"}, StateChange(s),
           UNCHANGED listeners
    PROVE  /\ power' \in {"poweredOn", "poweredOff"}
           /\ radio' \in BOOLEAN
           /\ scanState' \in {"Idle", "Scanning", "waitingForAdapter"}
           /\ resetInterval' \in BOOLEAN
           /\ PowerlessIsReset'
           /\ NeverDeaf'
<1>1. /\ power' = s /\ power' # power
      /\ resetInterval' = (s # "poweredOn")
  BY DEF StateChange
<1>2. radio' \in BOOLEAN /\ scanState' \in {"Idle", "Scanning", "waitingForAdapter"}
  BY DEF StateChange, IInv, TypeOK, ScannerTypeOK
<1>3. NeverDeaf'
  <2>1. CASE s = "poweredOn"
    BY <2>1 DEF StateChange, IInv, NeverDeaf
  <2>2. CASE s = "poweredOff"
    BY <2>2 DEF StateChange, NeverDeaf
  <2> QED BY <2>1, <2>2
<1> QED BY <1>1, <1>2, <1>3 DEF PowerlessIsReset

\* A report taken from noble leaves the types of what noble holds.
LEMMA TakeReportType ==
    ASSUME IInv, NEW d \in Devices, TakeReport(d)
    PROVE  reports' \in [Devices -> 0 .. MaxReports]
BY MaxReportsAssumption DEF TakeReport, IInv, TypeOK, ScannerTypeOK

\* A report begins a session or does nothing but leave noble.
LEMMA ReportKeepsIInv ==
    ASSUME IInv, NEW d \in Devices, DeviceDiscovered(d)
    PROVE  IInv'
<1>1. reports' \in [Devices -> 0 .. MaxReports]
  BY TakeReportType DEF DeviceDiscovered
<1>2. UNCHANGED <<power, resetInterval, hciconfig>>
  BY DEF DeviceDiscovered
<1>3. CASE listeners > 0 /\ d \in BlueBars
  <2>1. BeginSession
    BY <1>3 DEF DeviceDiscovered
  <2>2. listeners = 1 /\ restarts = 0
    BY <1>3 DEF IInv, TypeOK, OneInCharge
  <2>3. radio' \in BOOLEAN /\ scanState' \in {"Idle", "Scanning", "waitingForAdapter"}
    BY <2>1 DEF BeginSession, TurnOff, IInv, TypeOK, ScannerTypeOK
  <2>4. TypeOK'
    BY <1>1, <1>2, <2>1, <2>3
       DEF BeginSession, IInv, TypeOK, ScannerTypeOK
  <2>5. OneInCharge' /\ NeverDeaf'
    BY <2>1, <2>2 DEF BeginSession, OneInCharge, NeverDeaf
  <2> QED BY <1>2, <2>4, <2>5 DEF IInv, PowerlessIsReset
<1>4. CASE ~(listeners > 0 /\ d \in BlueBars)
  <2>1. UNCHANGED <<radio, scanState, testVars>>
    BY <1>4 DEF DeviceDiscovered
  <2>2. TypeOK'
    BY <1>1, <1>2, <2>1 DEF IInv, TypeOK, ScannerTypeOK, testVars
  <2> QED
    BY <1>2, <2>1, <2>2
       DEF IInv, OneInCharge, PowerlessIsReset, NeverDeaf, testVars
<1> QED BY <1>3, <1>4

\* The steps of a series change the step and the link only.
LEMMA SeriesKeepsIInv == ASSUME IInv, SeriesStep PROVE IInv'
<1>1. /\ UNCHANGED <<scannerVars, listeners, awaiting, restarts>>
      /\ step' \in {"none", "connect", "discover", "info", "config", "disconnect"}
      /\ link' \in {"down", "connecting", "up", "gone"}
  BY DEF SeriesStep, Connected, ConnectFails, Discovered, DiscoverFails,
         InfoRead, ConfigRead, ConfigThrows, Continue, IInv, TypeOK
<1> QED
  BY <1>1 DEF IInv, TypeOK, ScannerTypeOK, scannerVars, OneInCharge,
              PowerlessIsReset, NeverDeaf

\* The end of a session hands its charge over to a timeout, if it had one.
LEMMA EndSessionKeepsIInv == ASSUME IInv, EndSession PROVE IInv'
<1>1. UNCHANGED <<scannerVars, listeners>>
  BY DEF EndSession
<1>2. restarts' \in Nat /\ OneInCharge'
  BY <1>1 DEF EndSession, IInv, TypeOK, OneInCharge
<1>3. TypeOK'
  BY <1>1, <1>2 DEF EndSession, IInv, TypeOK, ScannerTypeOK, scannerVars
<1> QED
  BY <1>1, <1>2, <1>3 DEF IInv, scannerVars, PowerlessIsReset, NeverDeaf

\* A timeout hands it over to the listener it attaches, and starts a scan
\* that is on or that the interval brings on.
LEMMA RestartKeepsIInv == ASSUME IInv, Restart PROVE IInv'
<1>1. /\ UNCHANGED <<power, resetInterval, reports, step, link, awaiting>>
      /\ restarts' \in Nat /\ listeners' \in Nat
  BY DEF Restart, StartScan, IInv, TypeOK
<1>2. OneInCharge'
  BY DEF Restart, IInv, TypeOK, OneInCharge
<1>3. CASE power = "poweredOn"
  <2>1. radio' = TRUE /\ scanState' = "Scanning" /\ hciconfig' = hciconfig
    BY <1>3 DEF Restart, StartScan
  <2> QED
    BY <1>1, <1>2, <1>3, <2>1
       DEF IInv, TypeOK, ScannerTypeOK, PowerlessIsReset, NeverDeaf
<1>4. CASE power # "poweredOn"
  <2>1. radio' = radio /\ scanState' = "waitingForAdapter" /\ hciconfig' = "down"
    BY <1>4 DEF Restart, StartScan, ResetAdapter
  <2> QED
    BY <1>1, <1>2, <1>4, <2>1
       DEF IInv, TypeOK, ScannerTypeOK, PowerlessIsReset, NeverDeaf
<1> QED BY <1>3, <1>4

\* What the adapter does, one action of it at a time.
LEMMA AdapterKeepsIInv == ASSUME IInv, AdapterStep PROVE IInv'
<1>1. UNCHANGED <<listeners, step, awaiting, restarts>>
  BY DEF AdapterStep, Beside
<1>2. link' \in {"down", "connecting", "up", "gone"}
  BY DEF AdapterStep, Beside, IInv, TypeOK
<1>3. OneInCharge'
  BY <1>1 DEF IInv, OneInCharge
<1>4. ScannerTypeOK' /\ PowerlessIsReset' /\ NeverDeaf'
  <2> DEFINE Quiet == UNCHANGED <<power, radio, scanState, resetInterval>>
  <2>1. ASSUME Quiet, hciconfig' \in {"none", "down", "up"},
               reports' \in [Devices -> 0 .. MaxReports]
        PROVE  ScannerTypeOK' /\ PowerlessIsReset' /\ NeverDeaf'
    BY <1>1, <2>1
       DEF IInv, TypeOK, ScannerTypeOK, PowerlessIsReset, NeverDeaf
  <2>2. ASSUME NEW s \in {"poweredOn", "poweredOff"}, StateChange(s),
               hciconfig' \in {"none", "down", "up"}, UNCHANGED reports
        PROVE  ScannerTypeOK' /\ PowerlessIsReset' /\ NeverDeaf'
    BY <1>1, <2>2, StateChangeIsHeard DEF IInv, TypeOK, ScannerTypeOK
  <2>3. hciconfig \in {"none", "down", "up"}
        /\ reports \in [Devices -> 0 .. MaxReports]
    BY DEF IInv, TypeOK, ScannerTypeOK
  <2> HIDE DEF Quiet
  <2>4. CASE FirstStateChange
    BY <2>2, <2>3, <2>4 DEF FirstStateChange
  <2>5. CASE AdapterLost
    BY <2>2, <2>3, <2>5 DEF AdapterLost
  <2>6. CASE ResetTick
    BY <2>1, <2>3, <2>6 DEF ResetTick, ResetAdapter, Quiet
  <2>7. CASE HciDown
    BY <2>1, <2>2, <2>3, <2>7 DEF HciDown, Quiet
  <2>8. CASE HciUp
    BY <2>1, <2>2, <2>3, <2>8 DEF HciUp, Quiet
  <2>9. CASE HciUpFails
    BY <2>1, <2>3, <2>9 DEF HciUpFails, Quiet
  <2>10. ASSUME NEW d \in Devices, Advertise(d)
         PROVE  ScannerTypeOK' /\ PowerlessIsReset' /\ NeverDeaf'
    <3>1. reports' \in [Devices -> 0 .. MaxReports]
      BY <2>3, <2>10, MaxReportsAssumption DEF Advertise
    <3> QED BY <2>1, <2>3, <2>10, <3>1 DEF Advertise, Quiet
  <2> QED
    BY <2>4, <2>5, <2>6, <2>7, <2>8, <2>9, <2>10
       DEF AdapterStep, Beside, Adapter
<1> QED
  BY <1>1, <1>2, <1>3, <1>4 DEF IInv, TypeOK

-----------------------------------------------------------------------------
\* No action leaves the inductive invariant.
LEMMA NextIInv == IInv /\ [Next]_vars => IInv'
<1> SUFFICES ASSUME IInv, [Next]_vars PROVE IInv'
  OBVIOUS
<1>1. ASSUME NEW d \in Devices, DeviceDiscovered(d) PROVE IInv'
  BY <1>1, ReportKeepsIInv
<1>2. CASE SeriesStep
  BY <1>2, SeriesKeepsIInv
<1>3. CASE Disconnected \/ LinkLost
  BY <1>3, EndSessionKeepsIInv DEF Disconnected, LinkLost
<1>4. CASE Restart
  BY <1>4, RestartKeepsIInv
<1>5. CASE AdapterStep
  BY <1>5, AdapterKeepsIInv
<1>6. CASE UNCHANGED vars
  BY <1>6 DEF vars, testVars, scannerVars, IInv, TypeOK, ScannerTypeOK,
              OneInCharge, PowerlessIsReset, NeverDeaf
<1> QED BY <1>1, <1>2, <1>3, <1>4, <1>5, <1>6 DEF Next

LEMMA TestInvariant == Spec => []IInv
BY InitIInv, NextIInv, PTL DEF Spec

\* Every variable of the client and its scanner keeps its type.
THEOREM BleTestTypeOK == Spec => []TypeOK
BY TestInvariant, PTL DEF IInv

\* Whatever ends a session, and whenever reports come, exactly one listener,
\* session or timeout is in charge of what happens next.
THEOREM OneIsInCharge == Spec => []OneInCharge
BY TestInvariant, PTL DEF IInv

\* Whoever listens is heard, or the adapter is being reset for it.
THEOREM ListenersAreHeard == Spec => []NeverDeaf
BY TestInvariant, PTL DEF IInv
=============================================================================

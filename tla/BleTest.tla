------------------------------ MODULE BleTest -------------------------------
(***************************************************************************)
(* legacy/bleTest.js, the client of the earlier program's scanner that     *)
(* works: it waits for a BlueBar beacon, connects to it (legacy/bluebar.js),*)
(* reads all it has, disconnects, and begins anew five seconds later.      *)
(***************************************************************************)
EXTENDS LegacyScanner

CONSTANT BlueBars       \* the devices whose name says they are beacons

ASSUME BlueBarsAssumption == BlueBars \subseteq Devices

VARIABLES
    listeners,          \* how often deviceDiscovered is attached
    step,               \* the running function of the series, "none" if it
                        \* ended or nothing will ever continue it
    link,               \* the connection; "gone" with the adapter under it
    awaiting,           \* the session's 'disconnect' handler is attached
    restarts            \* pending timeouts of onDisconnect

testVars == <<listeners, step, link, awaiting, restarts>>
vars == <<scannerVars, testVars>>

TypeOK ==
    /\ ScannerTypeOK
    /\ listeners \in Nat
    /\ step \in {"none", "connect", "discover", "info", "config", "disconnect"}
    /\ link \in {"down", "connecting", "up", "gone"}
    /\ awaiting \in BOOLEAN
    /\ restarts \in Nat

\* bleTest.js:107 has called restart().
Init ==
    /\ ScannerInit
    /\ listeners = 1
    /\ step = "none"
    /\ link = "down"
    /\ awaiting = FALSE
    /\ restarts = 0

-----------------------------------------------------------------------------
(* A report of the scanner.                                                *)

\* A mutated BeginSession: the scan is stopped, the listener stays.
BeginSessionListening ==
    /\ TurnOff
    /\ awaiting' = TRUE
    /\ step' = "connect"
    /\ link' = IF power = "poweredOn" THEN "connecting" ELSE "gone"
    /\ UNCHANGED <<listeners, restarts>>

\* deviceDiscovered(), then dumpBeaconData() up to connect(). The scanner may
\* have lost its adapter since it received the report.
BeginSession ==
    /\ listeners' = 0
    /\ TurnOff
    /\ awaiting' = TRUE
    /\ step' = "connect"
    /\ link' = IF power = "poweredOn" THEN "connecting" ELSE "gone"
    /\ UNCHANGED restarts

\* A report noble emits when nobody listens is lost.
DeviceDiscovered(d) ==
    /\ TakeReport(d)
    /\ IF listeners > 0 /\ d \in BlueBars THEN BeginSession
       ELSE UNCHANGED <<radio, scanState, testVars>>
    /\ UNCHANGED <<power, resetInterval, hciconfig>>

-----------------------------------------------------------------------------
(* The series of dumpBeaconData(). noble answers over a link that is up.   *)

Continue(from, to) ==
    /\ step = from /\ link = "up"
    /\ step' = to
    /\ UNCHANGED <<scannerVars, listeners, link, awaiting, restarts>>

Connected ==
    /\ step = "connect" /\ link = "connecting"
    /\ link' = "up"
    /\ step' = "discover"
    /\ UNCHANGED <<scannerVars, listeners, awaiting, restarts>>

\* The series ends with the error. There was no link, so there will be no
\* 'disconnect' either, and the handler waits for it in vain.
ConnectFails ==
    /\ step = "connect"
    /\ link' = "down"
    /\ step' = "none"
    /\ UNCHANGED <<scannerVars, listeners, awaiting, restarts>>

Discovered == Continue("discover", "info")

\* The series ends with the error, and the link stays.
DiscoverFails == Continue("discover", "none")

\* readDeviceInfo(): texts, which cannot fail.
InfoRead == Continue("info", "config")

\* readConfiguration(): a number that is missing, fails or is short throws
\* in noble's callback (Characteristics, the older manager).
ConfigRead == Continue("config", "disconnect")
ConfigThrows == Continue("config", "none")

SeriesStep ==
    \/ Connected
    \/ ConnectFails
    \/ Discovered
    \/ DiscoverFails
    \/ InfoRead
    \/ ConfigRead
    \/ ConfigThrows

-----------------------------------------------------------------------------
(* The end of a session.                                                   *)

\* A mutated EndSession: the restart is left to the end of the series.
EndSessionOfSeries ==
    /\ link' = "down"
    /\ step' = "none"
    /\ awaiting' = FALSE
    /\ restarts' = IF step = "disconnect" THEN restarts + 1 ELSE restarts
    /\ UNCHANGED <<scannerVars, listeners>>

\* The peripheral's 'disconnect', which the BlueBar passes on, once.
EndSession ==
    /\ link' = "down"
    /\ step' = "none"
    /\ awaiting' = FALSE
    /\ restarts' = IF awaiting THEN restarts + 1 ELSE restarts
    /\ UNCHANGED <<scannerVars, listeners>>

Disconnected == step = "disconnect" /\ link = "up" /\ EndSession

\* A connection can be lost at any time, and noble may or may not notice that
\* one is gone with the adapter.
LinkLost == link \in {"up", "gone"} /\ step # "connect" /\ EndSession

\* The timeout of onDisconnect().
Restart ==
    /\ restarts > 0
    /\ restarts' = restarts - 1
    /\ listeners' = listeners + 1
    /\ StartScan
    /\ UNCHANGED <<step, link, awaiting>>

-----------------------------------------------------------------------------
\* What the adapter does, with a link or without.
Beside(A) ==
    /\ A
    /\ link' = IF link # "down" /\ power' # "poweredOn" THEN "gone" ELSE link
    /\ UNCHANGED <<listeners, step, awaiting, restarts>>

AdapterStep == Beside(Adapter)

Next ==
    \/ \E d \in Devices : DeviceDiscovered(d)
    \/ SeriesStep
    \/ Disconnected
    \/ LinkLost
    \/ Restart
    \/ AdapterStep

Spec == Init /\ [][Next]_vars

\* Timers fire, noble answers over a link that is up and says what adapter it
\* finds, shell commands end, a beacon goes on advertising, and hciconfig
\* brings the adapter up if it is tried again and again.
Fairness ==
    /\ WF_vars(SeriesStep)
    /\ WF_vars(Disconnected)
    /\ WF_vars(Restart)
    /\ WF_vars(Beside(FirstStateChange))
    /\ WF_vars(Beside(ResetTick))
    /\ WF_vars(Beside(HciDown))
    /\ SF_vars(Beside(HciUp))
    /\ \A d \in BlueBars :
           WF_vars(DeviceDiscovered(d)) /\ WF_vars(Beside(Advertise(d)))

FairSpec == Spec /\ Fairness

-----------------------------------------------------------------------------
(* Safety *)

\* Exactly one thing is in charge of what happens next: a listener, the
\* handler of one session's end, or one timeout. Listeners that are attached
\* anew each time, reports that come late and sessions that end in the middle
\* of a series leave neither two of them nor none (bleTest.js:14, 21, 27, 100).
OneInCharge ==
    listeners + restarts + (IF awaiting THEN 1 ELSE 0) = 1

\* Whoever listens is heard: the radio scans, or the scanner waits for an
\* adapter that is down and that something will bring up, whatever became
\* of the adapter since the scan was started (bleScanner.js:58-77).
NeverDeaf ==
    listeners > 0 =>
        \/ radio /\ scanState = "Scanning" /\ power = "poweredOn"
        \/ /\ scanState = "waitingForAdapter" /\ power # "poweredOn"
           /\ power = "unknown" \/ resetInterval

(* Liveness *)

\* However often the adapter fails and cannot be reset, a listener gets its
\* scan back (bleScanner.js:64-75).
ScanReturns == listeners > 0 ~> (radio \/ awaiting)

\* A session whose end nothing will bring about: its series is over, or the
\* connection went with the adapter.
Broken == awaiting /\ (step = "none" \/ link = "gone")

\* Sessions and scans alternate for ever, whatever ends a session, unless
\* one is broken for good or the adapter keeps failing under the scan.
KeepsTesting ==
    BlueBars # {} =>
        \/ []<>(listeners > 0) /\ []<>awaiting
        \/ <>[]Broken
        \/ []<>(listeners > 0 /\ ~radio)
=============================================================================

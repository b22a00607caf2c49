--------------------------- MODULE LegacyScanner ----------------------------
(***************************************************************************)
(* legacy/bleScanner.js over noble and the adapter. Unlike its successor   *)
(* (BleScanner) it listens to noble's stateChange, waits for an adapter    *)
(* that is down, and resets it with hciconfig.                             *)
(***************************************************************************)
EXTENDS Naturals

CONSTANTS
    Devices,            \* the BLE peripherals in range
    MaxReports          \* bound: reports of one device waiting in noble

ASSUME MaxReportsAssumption == MaxReports \in Nat \ {0}

VARIABLES
    power,              \* noble.state
    radio,              \* the adapter is scanning
    scanState,          \* the module variable state
    resetInterval,      \* adapterResetInterval is running
    hciconfig,          \* what the shell command does next: "down", "up"
    reports             \* advertisements received, 'discover' not yet emitted

scannerVars == <<power, radio, scanState, resetInterval, hciconfig, reports>>

ScannerTypeOK ==
    /\ power \in {"unknown", "poweredOn", "poweredOff"}
    /\ radio \in BOOLEAN
    /\ scanState \in {"Idle", "Scanning", "waitingForAdapter"}
    /\ resetInterval \in BOOLEAN
    /\ hciconfig \in {"none", "down", "up"}
    /\ reports \in [Devices -> 0 .. MaxReports]

\* The client starts a scan as soon as it is loaded, before noble has said
\* anything of the adapter.
ScannerInit ==
    /\ power = "unknown"
    /\ radio = FALSE
    /\ scanState = "waitingForAdapter"
    /\ resetInterval = FALSE
    /\ hciconfig = "down"
    /\ reports = [d \in Devices |-> 0]

-----------------------------------------------------------------------------
(* What the client calls.                                                  *)

\* resetAdapter(): "hciconfig down; hciconfig up" in a shell. A command
\* given while another one runs is one with it.
ResetAdapter == hciconfig' = "down"

StartScan ==
    /\ IF power = "poweredOn"
       THEN radio' = TRUE /\ scanState' = "Scanning" /\ UNCHANGED hciconfig
       ELSE scanState' = "waitingForAdapter" /\ ResetAdapter /\ UNCHANGED radio
    /\ UNCHANGED <<power, resetInterval, reports>>

\* A mutated TurnOff: the state gets a name nobody compares with.
TurnOffMisnamed ==
    IF scanState = "Scanning"
    THEN radio' = FALSE /\ scanState' = "Stopped"
    ELSE UNCHANGED <<radio, scanState>>

\* stopScan(), which leaves a scanner that waits for the adapter waiting.
TurnOff ==
    IF scanState = "Scanning"
    THEN radio' = FALSE /\ scanState' = "Idle"
    ELSE UNCHANGED <<radio, scanState>>

\* discover(): one advertisement leaves noble as a deviceDiscovered event.
TakeReport(d) ==
    /\ reports[d] > 0
    /\ reports' = [reports EXCEPT ![d] = @ - 1]

-----------------------------------------------------------------------------
(* noble and the adapter                                                   *)

\* A mutated StateChange: the adapter comes back to a scanner that forgot.
StateChangeForgotten(s) ==
    /\ s # power
    /\ power' = s
    /\ radio' = FALSE
    /\ scanState' = IF s = "poweredOn" THEN scanState ELSE "Idle"
    /\ resetInterval' = (s # "poweredOn")

\* noble.on('stateChange'): whatever the scanner was doing, it waits for an
\* adapter that is down, and scans when that comes up.
StateChange(s) ==
    /\ s # power
    /\ power' = s
    /\ resetInterval' = (s # "poweredOn")
    /\ IF s = "poweredOn"
       THEN IF scanState = "waitingForAdapter"
            THEN radio' = TRUE /\ scanState' = "Scanning"
            ELSE UNCHANGED <<radio, scanState>>
       ELSE radio' = FALSE /\ scanState' = "waitingForAdapter"

\* noble says for the first time what it found.
FirstStateChange ==
    /\ power = "unknown"
    /\ \E s \in {"poweredOn", "poweredOff"} : StateChange(s)
    /\ UNCHANGED <<hciconfig, reports>>

AdapterLost ==
    /\ power = "poweredOn"
    /\ StateChange("poweredOff")
    /\ UNCHANGED <<hciconfig, reports>>

\* A mutated ResetTick: a timeout in the place of the interval.
ResetTickOnce ==
    /\ resetInterval
    /\ ResetAdapter
    /\ resetInterval' = FALSE
    /\ UNCHANGED <<power, radio, scanState, reports>>

\* Every 30 seconds without an adapter.
ResetTick ==
    /\ resetInterval
    /\ ResetAdapter
    /\ UNCHANGED <<power, radio, scanState, resetInterval, reports>>

HciDown ==
    /\ hciconfig = "down"
    /\ hciconfig' = "up"
    /\ IF power = "poweredOn" THEN StateChange("poweredOff")
       ELSE UNCHANGED <<power, radio, scanState, resetInterval>>
    /\ UNCHANGED reports

HciUp ==
    /\ hciconfig = "up"
    /\ hciconfig' = "none"
    /\ IF power # "poweredOn" THEN StateChange("poweredOn")
       ELSE UNCHANGED <<power, radio, scanState, resetInterval>>
    /\ UNCHANGED reports

HciUpFails ==
    /\ hciconfig = "up"
    /\ hciconfig' = "none"
    /\ UNCHANGED <<power, radio, scanState, resetInterval, reports>>

Advertise(d) ==
    /\ radio
    /\ reports[d] < MaxReports
    /\ reports' = [reports EXCEPT ![d] = @ + 1]
    /\ UNCHANGED <<power, radio, scanState, resetInterval, hciconfig>>

Adapter ==
    \/ FirstStateChange
    \/ AdapterLost
    \/ ResetTick
    \/ HciDown
    \/ HciUp
    \/ HciUpFails
    \/ \E d \in Devices : Advertise(d)
=============================================================================

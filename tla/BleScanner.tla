----------------------------- MODULE BleScanner -----------------------------
(***************************************************************************)
(* lib/bluesense-superhub/ble-scanner.js and the noble library under it.   *)
(* Every process that requires the file has one adapter, one noble and one *)
(* module-level scan state, so a process is modelled by one instance of    *)
(* this module.                                                            *)
(***************************************************************************)
EXTENDS Naturals

CONSTANTS
    Devices,            \* the BLE peripherals in range
    MaxReports          \* bound: reports of one device waiting in noble

ASSUME MaxReportsAssumption == MaxReports \in Nat \ {0}

VARIABLES
    poweredOn,          \* noble.state = 'poweredOn'
    radio,              \* the adapter is scanning
    scanState,          \* the module variable state of ble-scanner.js
    reports             \* advertisements received, 'discover' not yet emitted,
                        \* by device

scannerVars == <<poweredOn, radio, scanState, reports>>

ScanStates == {"", "Scanning", "waitingForAdapter", "Idle"}

ScannerTypeOK ==
    /\ poweredOn \in BOOLEAN
    /\ radio \in BOOLEAN
    /\ scanState \in ScanStates
    /\ reports \in [Devices -> 0 .. MaxReports]

\* noble learns the state of the adapter some time after the start.
ScannerInit ==
    /\ poweredOn = FALSE
    /\ radio = FALSE
    /\ scanState = ""
    /\ reports = [d \in Devices |-> 0]

-----------------------------------------------------------------------------
(* The two methods a component calls from its own handlers.                *)

\* A mutated StartScan: the radio is started, the state is not updated.
StartScanUnrecorded ==
    /\ radio' = (poweredOn \/ radio)
    /\ UNCHANGED <<scanState, poweredOn, reports>>

StartScan ==
    /\ radio' = (poweredOn \/ radio)
    /\ scanState' = IF poweredOn THEN "Scanning" ELSE "waitingForAdapter"
    /\ UNCHANGED <<poweredOn, reports>>

\* A mutated TurnOff: the state is set to a name no other method tests.
TurnOffMisnamed ==
    IF scanState = "Scanning"
    THEN radio' = FALSE /\ scanState' = "idle"
    ELSE UNCHANGED <<radio, scanState>>

\* What stopScan does to the adapter and the state.
TurnOff ==
    IF scanState = "Scanning"
    THEN radio' = FALSE /\ scanState' = "Idle"
    ELSE UNCHANGED <<radio, scanState>>

StopScan == TurnOff /\ UNCHANGED <<poweredOn, reports>>

\* discover(): one advertisement leaves noble as a deviceDiscovered event.
TakeReport(d) ==
    /\ reports[d] > 0
    /\ reports' = [reports EXCEPT ![d] = @ - 1]

-----------------------------------------------------------------------------
(* The adapter. Nothing in ble-scanner.js listens to noble's stateChange:  *)
(* an adapter that comes up, or comes back, does not start a scan.         *)

PowerOn ==
    /\ ~poweredOn
    /\ poweredOn' = TRUE
    /\ UNCHANGED <<radio, scanState, reports>>

PowerOff ==
    /\ poweredOn
    /\ poweredOn' = FALSE
    /\ radio' = FALSE
    /\ UNCHANGED <<scanState, reports>>

Advertise(d) ==
    /\ radio
    /\ reports[d] < MaxReports
    /\ reports' = [reports EXCEPT ![d] = @ + 1]
    /\ UNCHANGED <<poweredOn, radio, scanState>>

Adapter ==
    \/ PowerOn
    \/ PowerOff
    \/ \E d \in Devices : Advertise(d)
=============================================================================

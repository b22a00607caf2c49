-------------------------------- MODULE Hub ---------------------------------
(***************************************************************************)
(* The hub as it is deployed (processes.json): the Monitor process and the *)
(* InfoPublisher of the Controller process (controller/info-publisher.js)  *)
(* behind the Router process, over the redis bus.                          *)
(***************************************************************************)
EXTENDS Naturals, Sequences, FiniteSets

CONSTANTS
    Devices, MaxReports, Unparsable, MaxTimers,     \* see Monitor
    Router, MonitorBus, InfoBus, MaxInbox,          \* see Bus
    Failing, Restarting, Witnesses,                 \* see RouterProcess
    Commands        \* which of start and stop the platform sends

VARIABLES
    poweredOn, radio, scanState, reports,           \* see BleScanner
    stopped, cache, timers, sent, described,        \* see Monitor
    subscriber, publisher, inbox,                   \* see Bus
    ws, connected, forwarded, heard, spoken         \* see RouterProcess

Clients == {Router, MonitorBus, InfoBus}

Mon == INSTANCE Monitor

StartBleScan == [kind |-> "start"]      \* route Superhub/StartScan
StopBleScan == [kind |-> "stop"]        \* route Superhub/StopScan
Info == [kind |-> "info"]               \* route Superhub/ReportInfo

Rt == INSTANCE RouterProcess WITH
          PlatformMessages <- Commands,
          ComponentMessages <- Mon!Reports \cup {Info}

ASSUME ClientsAssumption ==
    /\ Router # MonitorBus /\ Router # InfoBus /\ MonitorBus # InfoBus
    /\ Witnesses \subseteq {MonitorBus, InfoBus}
ASSUME CommandsAssumption == Commands \subseteq {StartBleScan, StopBleScan}
ASSUME MonitorAssumption ==
    /\ Unparsable \subseteq Devices
    /\ MaxTimers \in Nat \ {0} /\ MaxReports \in Nat \ {0}
ASSUME BoundsAssumption == MaxInbox \in [Clients -> Nat \ {0}]

monVars == <<poweredOn, radio, scanState, reports, stopped, cache, timers,
             sent, described>>
routerVars == <<subscriber, publisher, inbox, ws, connected, forwarded, heard,
                spoken>>
vars == <<monVars, routerVars>>

Init == Mon!Init /\ Rt!Init

-----------------------------------------------------------------------------
(* The Monitor process.                                                    *)

MonitorHandles(m, Handler) ==
    /\ Rt!Receive(MonitorBus)
    /\ Head(inbox[MonitorBus]) = m
    /\ Handler

MonitorReceives ==
    \/ MonitorHandles(Rt!Connected, Mon!ConnectedToPlatform)
    \/ MonitorHandles(Rt!Disconnected, Mon!DisconnectedFromPlatform)
    \/ MonitorHandles(StartBleScan, Mon!StartBleScan)
    \/ MonitorHandles(StopBleScan, Mon!StopBleScan)

MonitorDiscovers(d) ==
    /\ Mon!HandleDeviceDiscovered(d)
    /\ IF sent' = Mon!NoMessage THEN UNCHANGED routerVars
       ELSE Rt!Emit(MonitorBus, sent')

MonitorExpires(d) == Mon!ExpireCacheEntry(d) /\ UNCHANGED routerVars

AdapterStep == Mon!AdapterStep /\ UNCHANGED routerVars

\* A new Monitor process: nothing is remembered, not even an explicit stop,
\* and noble, which is part of it, begins with a silent adapter.
RestartMonitor ==
    /\ Rt!RestartComponent(MonitorBus)
    /\ poweredOn' = FALSE /\ radio' = FALSE /\ scanState' = ""
    /\ reports' = [d \in Devices |-> 0]
    /\ stopped' = FALSE
    /\ cache' = {} /\ described' = {}
    /\ timers' = [d \in Devices |-> 0]
    /\ sent' = Mon!NoMessage

-----------------------------------------------------------------------------
(* The InfoPublisher.                                                      *)

\* A mutated InfoReceives: the info is published for the wrong status.
InfoReceivesLate ==
    /\ IF Rt!Arrived(InfoBus) /\ Head(inbox[InfoBus]) = Rt!Disconnected
       THEN Rt!Reply(InfoBus, Info)
       ELSE Rt!Receive(InfoBus)
    /\ UNCHANGED monVars

InfoReceives ==
    /\ IF Rt!Arrived(InfoBus) /\ Head(inbox[InfoBus]) = Rt!Connected
       THEN Rt!Reply(InfoBus, Info)
       ELSE Rt!Receive(InfoBus)
    /\ UNCHANGED monVars

\* A new Controller process, for what the InfoPublisher has of it.
RestartController == Rt!RestartComponent(InfoBus) /\ UNCHANGED monVars

-----------------------------------------------------------------------------
(* The Router process, the platform and redis.                             *)

RouterStep == Rt!RouterStep /\ UNCHANGED monVars

ConnectionStep ==
    /\ \E c \in Clients : Rt!Connection(c)
    /\ UNCHANGED monVars

-----------------------------------------------------------------------------
Next ==
    \/ MonitorReceives
    \/ \E d \in Devices : MonitorDiscovers(d) \/ MonitorExpires(d)
    \/ AdapterStep
    \/ InfoReceives
    \/ RouterStep
    \/ ConnectionStep
    \/ RestartMonitor
    \/ RestartController

Spec == Init /\ [][Next]_vars

\* Every process runs its pending callbacks, redis answers, and devices
\* in range keep advertising. Whether the adapter gets its power, whether the
\* platform can be reached, and who is restarted, is left open. Publishing is
\* strongly fair, for only the bound MaxInbox, which the code does not have,
\* ever delays it.
Advertise(d) == Mon!Silently(Mon!Advertise(d)) /\ UNCHANGED routerVars
OnBusMessage == Rt!OnBusMessage /\ UNCHANGED monVars
Connect ==
    /\ \E c \in Clients : Rt!Quietly(Rt!OnReady(c) \/ Rt!PublisherReady(c))
    /\ UNCHANGED monVars

Fairness ==
    /\ WF_vars(MonitorReceives)
    /\ \A d \in Devices : /\ SF_vars(MonitorDiscovers(d))
                          /\ WF_vars(MonitorExpires(d))
                          /\ WF_vars(Advertise(d))
    /\ SF_vars(InfoReceives)
    /\ WF_vars(OnBusMessage)
    /\ WF_vars(Connect)

FairSpec == Spec /\ Fairness

-----------------------------------------------------------------------------
(* Safety *)

\* A hub that has lost the platform does not scan: once the Monitor has
\* worked off what the Router sent it, the radio is off, whichever processes
\* were restarted, when and how often. The claim is about hubs whose Router
\* can still publish and whose Monitor listens, and it begins with the first
\* status of the present Router process: one that never connects never says
\* that the platform is gone (router.js:52).
QuietWhenOffline ==
    /\ ~connected
    /\ spoken
    /\ publisher[Router] = "ready"
    /\ subscriber[MonitorBus] = "subscribed"
    /\ inbox[MonitorBus] = <<>>
    => ~radio

(* Liveness *)

BusWorks ==
    \A c \in Clients :
        subscriber[c] = "subscribed" /\ publisher[c] = "ready"

\* While the socket is open and a scan goes on, the platform is sent every
\* device that can be parsed in full again and again: whatever descriptions
\* it missed while it was away are made up for.
PlatformLearnsDevices ==
    \A d \in Devices \ Unparsable :
        <>[](ws = "open" /\ radio /\ BusWorks) => []<>(forwarded = Mon!Full(d))

\* When every component has reached the bus and word of a connection is on its
\* way, the info is sent over that connection, unless the connection is cut
\* or a process is restarted before.
InfoFollowsConnect ==
    (ws = "open" /\ BusWorks /\ \E i \in DOMAIN inbox[InfoBus] :
                                  inbox[InfoBus][i] = Rt!Connected)
        ~> (forwarded = Info \/ ws # "open" \/ ~BusWorks)

(* What the tests say, and the hub does not do *)

\* info-publisher.spec.js:44: "should publish the current application info
\* every time we connect to the platform".
InfoOnEveryConnect == (ws = "open") ~> (forwarded = Info \/ ws # "open")

\* monitor.spec.js:57: on ConnectedToPlatform the Monitor "should start
\* scanning for BLE devices".
ScansWhileConnected ==
    <>[](poweredOn /\ ~stopped /\ heard[MonitorBus].last = Rt!Connected) => <>[]radio
=============================================================================

----------------------------- MODULE HubProofs ------------------------------
(***************************************************************************)
(* Proofs about the hub as it is deployed. It is a Router process whose    *)
(* environment are the Monitor and the InfoPublisher, so that what is      *)
(* proved of the Router process holds of the hub; and its Monitor keeps    *)
(* the invariant of the Monitor process, restarts included.                *)
(***************************************************************************)
EXTENDS Hub, TLAPS

MP == INSTANCE MonitorProofs
RP == INSTANCE RouterProofs WITH
          PlatformMessages <- Commands,
          ComponentMessages <- Mon!Reports \cup {Info}

\* What RouterProcess assumes of its constants, the hub's meet: no component
\* publishes what only the Router says.
LEMMA RouterAssumptions ==
    /\ Router \in Clients
    /\ MaxInbox \in [Clients -> Nat \ {0}]
    /\ Witnesses \subseteq RP!Components
    /\ RP!RouterMessages \cap (Mon!Reports \cup {Info}) = {}
    /\ RP!StatusMessages \cap Commands = {}
    /\ RP!NoMessage \notin RP!RouterMessages \cup (Mon!Reports \cup {Info})
<1>1. /\ Router \in Clients
      /\ MaxInbox \in [Clients -> Nat \ {0}]
      /\ Witnesses \subseteq RP!Components
  BY ClientsAssumption, BoundsAssumption DEF Clients, RP!Components
<1>2. \A m \in RP!RouterMessages :
          m.kind \in {"connected", "disconnected", "start", "stop"}
  BY CommandsAssumption DEF RP!RouterMessages, RP!StatusMessages,
     RP!Connected, RP!Disconnected, StartBleScan, StopBleScan
<1>3. \A m \in Mon!Reports \cup {Info} : m.kind \in {"full", "slim", "info"}
  BY DEF Mon!Reports, Mon!Full, Mon!Slim, Info
<1>4. RP!NoMessage.kind = "none"
  BY DEF RP!NoMessage
<1>5. RP!StatusMessages \cap Commands = {}
  <2>1. \A m \in RP!StatusMessages : m.kind \in {"connected", "disconnected"}
    BY DEF RP!StatusMessages, RP!Connected, RP!Disconnected
  <2>2. \A m \in Commands : m.kind \in {"start", "stop"}
    BY CommandsAssumption DEF StartBleScan, StopBleScan
  <2> QED BY <2>1, <2>2
<1> QED BY <1>1, <1>2, <1>3, <1>4, <1>5

-----------------------------------------------------------------------------
(* The hub is a Router process with an environment.                        *)

\* Each action of the hub is a step of the Router process or of what it
\* takes for its environment.
LEMMA HubStepIsRouterStep == [Next]_vars => [Rt!Next]_(Rt!vars)
<1> SUFFICES ASSUME [Next]_vars PROVE Rt!Next \/ UNCHANGED Rt!vars
  OBVIOUS
<1>1. /\ MonitorBus \in Clients /\ InfoBus \in Clients
      /\ MonitorBus \in Rt!Components /\ InfoBus \in Rt!Components
  BY ClientsAssumption DEF Clients, Rt!Components
<1>2. CASE MonitorReceives
  <2>1. Rt!Receive(MonitorBus)
    BY <1>2 DEF MonitorReceives, MonitorHandles
  <2> QED BY <1>1, <2>1 DEF Rt!Next
<1>3. ASSUME NEW d \in Devices, MonitorDiscovers(d)
      PROVE  Rt!Next \/ UNCHANGED Rt!vars
  <2>1. CASE sent' = Mon!NoMessage
    BY <1>3, <2>1 DEF MonitorDiscovers, routerVars, Rt!vars, Rt!busVars,
       Rt!routerVars
  <2>2. CASE sent' # Mon!NoMessage
    <3>1. sent' \in {Mon!Full(d), Mon!Slim(d)}
      BY <1>3, <2>2 DEF MonitorDiscovers, Mon!HandleDeviceDiscovered,
         Mon!ReportKnown, Mon!ReportNew, Mon!ReportThrows
    <3>2. sent' \in Mon!Reports \cup {Info}
      BY <3>1 DEF Mon!Reports
    <3>3. Rt!Emit(MonitorBus, sent')
      BY <1>3, <2>2 DEF MonitorDiscovers
    <3> QED BY <1>1, <3>2, <3>3 DEF Rt!Next
  <2> QED BY <2>1, <2>2
<1>4. ASSUME NEW d \in Devices, MonitorExpires(d)
      PROVE  UNCHANGED Rt!vars
  BY <1>4 DEF MonitorExpires, routerVars, Rt!vars, Rt!busVars, Rt!routerVars
<1>5. CASE AdapterStep
  BY <1>5 DEF AdapterStep, routerVars, Rt!vars, Rt!busVars, Rt!routerVars
<1>6. CASE InfoReceives
  <2>1. Rt!Reply(InfoBus, Info) \/ Rt!Receive(InfoBus)
    BY <1>6 DEF InfoReceives
  <2> QED BY <1>1, <2>1 DEF Rt!Next
<1>7. CASE RouterStep
  BY <1>7 DEF RouterStep, Rt!Next
<1>8. CASE ConnectionStep
  BY <1>8 DEF ConnectionStep, Rt!Next, Clients
<1>9. CASE RestartMonitor
  BY <1>1, <1>9 DEF RestartMonitor, Rt!Next
<1>10. CASE RestartController
  BY <1>1, <1>10 DEF RestartController, Rt!Next
<1>11. CASE UNCHANGED vars
  BY <1>11 DEF vars, routerVars, Rt!vars, Rt!busVars, Rt!routerVars
<1> QED BY <1>2, <1>3, <1>4, <1>5, <1>6, <1>7, <1>8, <1>9, <1>10, <1>11 DEF Next

\* Every behaviour of the hub is one of the Router process among components.
THEOREM HubIsRouter == Spec => Rt!Spec
<1>1. Init => Rt!Init
  BY DEF Init
<1> QED BY <1>1, HubStepIsRouterStep, PTL DEF Spec, Rt!Spec

\* Two instances of one module: RouterProofs extends RouterProcess.
LEMMA SameRouter ==
    /\ Rt!Init <=> RP!Init
    /\ Rt!Next <=> RP!Next
    /\ [Rt!Next]_(Rt!vars) <=> [RP!Next]_(RP!vars)
<1>1. UNCHANGED Rt!vars <=> UNCHANGED RP!vars
  BY DEF Rt!vars, RP!vars, Rt!busVars, RP!busVars, Rt!routerVars, RP!routerVars
<1>2. Rt!Init <=> RP!Init
  BY DEF Rt!Init, RP!Init, Rt!BusInit, RP!BusInit, Rt!RouterInit,
         RP!RouterInit, Rt!NoMessage, RP!NoMessage, Rt!Unheard, RP!Unheard
<1>3. Rt!Next <=> RP!Next
  BY DEF Rt!Next, RP!Next, Rt!Connected, RP!Connected, Rt!Disconnected,
         RP!Disconnected, Rt!NoMessage, RP!NoMessage,
         Rt!StatusMessages, RP!StatusMessages, Rt!RouterMessages,
         RP!RouterMessages, Rt!Components, RP!Components, Rt!Unheard,
         RP!Unheard, Rt!busVars, RP!busVars, Rt!routerVars,
         RP!routerVars, Rt!vars, RP!vars, Rt!SubscribedChannel,
         RP!SubscribedChannel, Rt!PublishChannel, RP!PublishChannel,
         Rt!Listeners, RP!Listeners, Rt!Room, RP!Room, Rt!Published,
         RP!Published, Rt!Publish, RP!Publish, Rt!Arrived,
         RP!Arrived, Rt!Taken, RP!Taken, Rt!Take, RP!Take,
         Rt!TakeAndPublish, RP!TakeAndPublish, Rt!OnReady,
         RP!OnReady, Rt!PublisherReady, RP!PublisherReady,
         Rt!SubscriberEnd, RP!SubscriberEnd, Rt!PublisherEnd,
         RP!PublisherEnd, Rt!BusRestart, RP!BusRestart, Rt!Announce,
         RP!Announce, Rt!WsOpen, RP!WsOpen, Rt!WsClose, RP!WsClose,
         Rt!Reconnect, RP!Reconnect, Rt!OnPlatformMessage,
         RP!OnPlatformMessage, Rt!OnBusMessage, RP!OnBusMessage,
         Rt!Hear, RP!Hear, Rt!Receive, RP!Receive, Rt!Reply,
         RP!Reply, Rt!Quietly, RP!Quietly, Rt!Emit, RP!Emit,
         Rt!Connection, RP!Connection, Rt!RestartRouter,
         RP!RestartRouter, Rt!RestartComponent, RP!RestartComponent,
         Rt!RouterStep, RP!RouterStep
<1> QED BY <1>1, <1>2, <1>3

\* It keeps the inductive invariant of the Router process.
THEOREM RouterInvariant == Spec => []RP!IInv
<1>1. Init => RP!IInv
  <2>1. RP!Init => RP!IInv
    BY RP!InitIInv, RouterAssumptions
  <2> QED BY <2>1, SameRouter DEF Init
<1>2. RP!IInv /\ [Next]_vars => RP!IInv'
  <2>1. RP!IInv /\ [RP!Next]_(RP!vars) => RP!IInv'
    BY RP!NextKeepsIInv, RouterAssumptions
  <2> QED BY <2>1, SameRouter, HubStepIsRouterStep
<1> QED BY <1>1, <1>2, PTL DEF Spec

\* What the Router process promises holds in the hub: messages do not come
\* back, and witnesses are told each change of the socket once.
THEOREM RouterPromises ==
    Spec => [](/\ Rt!NoEcho
               /\ Rt!StatusesAlternate
               /\ Rt!LastStatusIsCurrent)
<1>1. RP!IInv => Rt!NoEcho
  BY DEF RP!IInv, RP!BusInv, RP!NoEcho, Rt!NoEcho, RP!RouterMessages,
     Rt!RouterMessages, RP!StatusMessages, Rt!StatusMessages, RP!Connected,
     Rt!Connected, RP!Disconnected, Rt!Disconnected
<1>2. RP!IInv => RP!StatusesAlternate /\ RP!LastStatusIsCurrent
  BY RP!ToldIsRow, RouterAssumptions DEF RP!IInv, RP!WitnessInv,
     RP!StatusesAlternate, RP!LastStatusIsCurrent, RP!Alternates, RP!EndsIn
<1>3. /\ RP!StatusesAlternate <=> Rt!StatusesAlternate
      /\ RP!LastStatusIsCurrent <=> Rt!LastStatusIsCurrent
  BY DEF RP!StatusesAlternate, Rt!StatusesAlternate, RP!StatusAt,
     Rt!StatusAt, RP!Told, Rt!Told, RP!LastStatusIsCurrent,
     Rt!LastStatusIsCurrent, RP!CurrentStatus, Rt!CurrentStatus,
     RP!StatusMessages, Rt!StatusMessages, RP!Connected, Rt!Connected,
     RP!Disconnected, Rt!Disconnected
<1> QED BY <1>1, <1>2, <1>3, RouterInvariant, PTL

-----------------------------------------------------------------------------
(* The Monitor process of the hub.                                         *)

\* Two instances of one module: MonitorProofs extends Monitor.
LEMMA SameMonitor ==
    /\ Mon!Init <=> MP!Init
    /\ Mon!Next <=> MP!Next
<1>1. Mon!Init <=> MP!Init
  BY DEF Mon!Init, MP!Init, Mon!ScannerInit, MP!ScannerInit,
         Mon!NoMessage, MP!NoMessage
<1>2. Mon!Next <=> MP!Next
  BY DEF Mon!Next, MP!Next, Mon!NoMessage, MP!NoMessage, Mon!Full, MP!Full,
         Mon!Slim, MP!Slim, Mon!StartMonitor, MP!StartMonitor,
         Mon!StopMonitor, MP!StopMonitor, Mon!ConnectedToPlatform,
         MP!ConnectedToPlatform, Mon!DisconnectedFromPlatform,
         MP!DisconnectedFromPlatform, Mon!StartBleScan,
         MP!StartBleScan, Mon!StopBleScan, MP!StopBleScan,
         Mon!PlatformCommand, MP!PlatformCommand, Mon!ReportKnown,
         MP!ReportKnown, Mon!ReportNew, MP!ReportNew,
         Mon!ReportThrows, MP!ReportThrows,
         Mon!HandleDeviceDiscovered, MP!HandleDeviceDiscovered,
         Mon!ExpireCacheEntry, MP!ExpireCacheEntry, Mon!Silently,
         MP!Silently, Mon!AdapterStep, MP!AdapterStep, Mon!StartScan,
         MP!StartScan, Mon!StopScan, MP!StopScan, Mon!TurnOff,
         MP!TurnOff, Mon!TakeReport, MP!TakeReport, Mon!PowerOn,
         MP!PowerOn, Mon!PowerOff, MP!PowerOff, Mon!Advertise,
         MP!Advertise, Mon!Adapter, MP!Adapter, Mon!scannerVars,
         MP!scannerVars
<1> QED BY <1>1, <1>2

\* A step of the hub is one of the Monitor process, leaves it alone, or
\* starts it anew.
LEMMA HubStepIsMonitorStep ==
    [Next]_vars => [MP!Next]_(MP!vars) \/ MP!Init'
<1> SUFFICES ASSUME [Next]_vars PROVE Mon!Next \/ UNCHANGED monVars \/ Mon!Init'
  <2>1. UNCHANGED monVars => UNCHANGED MP!vars
    BY DEF monVars, MP!vars, MP!scannerVars, MP!monitorVars
  <2>2. Mon!Init' <=> MP!Init'
    BY DEF Mon!Init, MP!Init, Mon!ScannerInit, MP!ScannerInit,
         Mon!NoMessage, MP!NoMessage
  <2> QED BY <2>1, <2>2, SameMonitor
<1>1. CASE MonitorReceives
  BY <1>1 DEF MonitorReceives, MonitorHandles, Mon!Next, Mon!PlatformCommand
<1>2. ASSUME NEW d \in Devices, MonitorDiscovers(d) \/ MonitorExpires(d)
      PROVE  Mon!Next
  BY <1>2 DEF MonitorDiscovers, MonitorExpires, Mon!Next
<1>3. CASE AdapterStep
  BY <1>3 DEF AdapterStep, Mon!Next
<1>4. CASE InfoReceives \/ RouterStep \/ ConnectionStep \/ RestartController
  BY <1>4 DEF InfoReceives, RouterStep, ConnectionStep, RestartController
<1>5. CASE RestartMonitor
  BY <1>5 DEF RestartMonitor, Mon!Init, Mon!ScannerInit
<1>6. CASE UNCHANGED vars
  BY <1>6 DEF vars
<1> QED BY <1>1, <1>2, <1>3, <1>4, <1>5, <1>6 DEF Next

\* It keeps the inductive invariant of the Monitor process.
THEOREM MonitorInvariant == Spec => []MP!IInv
<1>1. MP!Init => MP!IInv
  BY MP!InitIInv, MonitorAssumption
<1>2. Init => MP!IInv
  BY <1>1, SameMonitor DEF Init
<1>3. MP!Init' => MP!IInv'
  BY <1>1, PTL
<1>4. MP!IInv /\ [MP!Next]_(MP!vars) => MP!IInv'
  BY MP!NextKeepsIInv, MonitorAssumption
<1>5. MP!IInv /\ [Next]_vars => MP!IInv'
  BY <1>3, <1>4, HubStepIsMonitorStep
<1> QED BY <1>2, <1>5, PTL DEF Spec

\* What the Monitor process promises holds in the hub: its radio can be
\* stopped, an explicit stop holds, and no cache entry stays for ever.
THEOREM MonitorPromises ==
    Spec => [](/\ Mon!ScanningIsStoppable
               /\ Mon!StoppedStaysQuiet
               /\ Mon!CachedHasTimer)
<1>1. MP!IInv => /\ Mon!ScanningIsStoppable
                 /\ Mon!StoppedStaysQuiet
                 /\ Mon!CachedHasTimer
  BY DEF MP!IInv, Mon!ScanningIsStoppable, MP!ScanningIsStoppable,
         Mon!StoppedStaysQuiet, MP!StoppedStaysQuiet, Mon!CachedHasTimer,
         MP!CachedHasTimer
<1> QED BY <1>1, MonitorInvariant, PTL

-----------------------------------------------------------------------------
(* A hub that has lost the platform.                                       *)

\* What may start a scan, and an inbox of the Monitor in which nothing does
\* any more: after the last word of a disconnection, or with the radio off.
Starts == {Rt!Connected, StartBleScan}
StaysQuiet(box, on) ==
    \/ ~on /\ \A i \in 1 .. Len(box) : box[i] \notin Starts
    \/ \E j \in 1 .. Len(box) :
           /\ box[j] = Rt!Disconnected
           /\ \A i \in 1 .. Len(box) : i > j => box[i] \notin Starts

Offline ==
    /\ ~connected
    /\ spoken
    /\ publisher[Router] = "ready"
    /\ subscriber[MonitorBus] = "subscribed"

\* A Monitor that is starting hears nothing and does not scan.
QuietInv ==
    /\ subscriber[MonitorBus] = "connecting" => ~radio
    /\ Offline => StaysQuiet(inbox[MonitorBus], radio)

IInv == MP!IInv /\ RP!IInv /\ QuietInv

\* What the Monitor does with its first message leaves the rest as quiet.
LEMMA WorksOff ==
    ASSUME NEW M, NEW box \in Seq(M), box # <<>>, MP!IInv,
           StaysQuiet(box, radio),
           \/ Head(box) = Rt!Connected /\ Mon!ConnectedToPlatform
           \/ Head(box) = Rt!Disconnected /\ Mon!DisconnectedFromPlatform
           \/ Head(box) = StartBleScan /\ Mon!StartBleScan
           \/ Head(box) = StopBleScan /\ Mon!StopBleScan
    PROVE  StaysQuiet(Tail(box), radio')
<1> DEFINE rest == Tail(box)
<1>1. /\ Len(box) \in Nat /\ Len(box) >= 1 /\ Len(rest) = Len(box) - 1
      /\ Head(box) = box[1]
      /\ \A i \in 1 .. Len(rest) : rest[i] = box[i + 1]
  OBVIOUS
<1>2. Head(box) = Rt!Disconnected => ~radio'
  <2> SUFFICES ASSUME Mon!DisconnectedFromPlatform PROVE ~radio'
    BY DEF Rt!Connected, Rt!Disconnected, StartBleScan, StopBleScan
  <2>1. radio => scanState = "Scanning"
    BY DEF MP!IInv, MP!ScanningIsStoppable
  <2>2. radio \in BOOLEAN
    BY DEF MP!IInv, MP!TypeOK, MP!ScannerTypeOK
  <2> QED BY <2>1, <2>2 DEF Mon!DisconnectedFromPlatform, Mon!StopMonitor,
             Mon!StopScan, Mon!TurnOff
<1>3. Head(box) \notin Starts => (radio' => radio)
  <2> SUFFICES ASSUME Mon!DisconnectedFromPlatform \/ Mon!StopBleScan
               PROVE  radio' => radio
    BY DEF Starts
  <2> QED BY DEF Mon!DisconnectedFromPlatform, Mon!StopBleScan,
             Mon!StopMonitor, Mon!StopScan, Mon!TurnOff
<1> HIDE DEF rest
<1>4. CASE ~radio /\ \A i \in 1 .. Len(box) : box[i] \notin Starts
  <2>1. Head(box) \notin Starts
    BY <1>1, <1>4
  <2>2. \A i \in 1 .. Len(rest) : rest[i] \notin Starts
    BY <1>1, <1>4
  <2> QED BY <1>3, <1>4, <2>1, <2>2 DEF StaysQuiet, rest
<1>5. ASSUME NEW j \in 1 .. Len(box), box[j] = Rt!Disconnected,
             \A i \in 1 .. Len(box) : i > j => box[i] \notin Starts
      PROVE  StaysQuiet(rest, radio')
  <2>1. CASE j = 1
    <3>1. \A i \in 1 .. Len(rest) : rest[i] \notin Starts
      BY <1>1, <1>5, <2>1
    <3>2. ~radio'
      BY <1>1, <1>2, <1>5, <2>1
    <3> QED BY <3>1, <3>2 DEF StaysQuiet
  <2>2. CASE j > 1
    <3>1. j - 1 \in 1 .. Len(rest) /\ rest[j - 1] = Rt!Disconnected
      BY <1>1, <1>5, <2>2
    <3>2. \A i \in 1 .. Len(rest) : i > j - 1 => rest[i] \notin Starts
      BY <1>1, <1>5, <2>2
    <3> QED BY <3>1, <3>2 DEF StaysQuiet
  <2> QED BY <1>1, <2>1, <2>2
<1> QED BY <1>4, <1>5 DEF StaysQuiet, rest

\* Word of a disconnection makes an inbox quiet, whatever it held before.
LEMMA SaysGoodbye ==
    ASSUME NEW M, NEW box \in Seq(M), NEW on, Rt!Disconnected \in M
    PROVE  StaysQuiet(Append(box, Rt!Disconnected), on)
<1> DEFINE new == Append(box, Rt!Disconnected)
<1>1. Len(new) \in 1 .. Len(new) /\ new[Len(new)] = Rt!Disconnected
  OBVIOUS
<1>2. \A i \in 1 .. Len(new) : ~(i > Len(new))
  BY <1>1
<1> HIDE DEF new
<1> QED BY <1>1, <1>2 DEF StaysQuiet, new

\* What is used of the invariants of the two processes.
LEMMA HubFacts ==
    ASSUME MP!IInv, RP!IInv
    PROVE  /\ \A c \in Clients : inbox[c] \in Seq(RP!Messages)
           /\ \A c \in Clients : subscriber[c] # "subscribed" => inbox[c] = <<>>
           /\ inbox = [c \in Clients |-> inbox[c]]
           /\ subscriber = [c \in Clients |-> subscriber[c]]
           /\ publisher = [c \in Clients |-> publisher[c]]
           /\ connected <=> ws = "open"
           /\ spoken => publisher[Router] # "connecting"
           /\ radio \in BOOLEAN
           /\ Rt!Disconnected \in RP!Messages
           /\ MonitorBus \in Clients /\ InfoBus \in Clients /\ Router \in Clients
<1>1. /\ inbox \in [Clients -> Seq(RP!Messages)]
      /\ subscriber \in [Clients -> {"connecting", "subscribed", "ended"}]
      /\ publisher \in [Clients -> {"connecting", "ready", "ended"}]
  BY DEF RP!IInv, RP!BusInv, RP!BusTypeOK
<1>2. \A c \in Clients : subscriber[c] # "subscribed" => inbox[c] = <<>>
  BY DEF RP!IInv, RP!BusInv, RP!NothingBeforeSubscribing
<1>3. /\ connected <=> ws = "open"
      /\ spoken => publisher[Router] # "connecting"
  BY DEF RP!IInv, RP!RouterInv, RP!ConnectedIsOpen, RP!SpokenWasReady
<1>4. radio \in BOOLEAN
  BY DEF MP!IInv, MP!TypeOK, MP!ScannerTypeOK
<1>5. Rt!Disconnected \in RP!Messages
  BY DEF Rt!Disconnected, RP!Disconnected, RP!Messages, RP!RouterMessages,
         RP!StatusMessages
<1> QED BY <1>1, <1>2, <1>3, <1>4, <1>5 DEF Clients

\* As long as nothing reaches the Monitor and its radio is not turned on, the
\* hub stays as quiet as it is.
LEMMA UndisturbedIsQuiet ==
    ASSUME QuietInv, inbox'[MonitorBus] = inbox[MonitorBus],
           radio' => radio, radio' \in BOOLEAN, radio \in BOOLEAN,
           subscriber'[MonitorBus] = subscriber[MonitorBus],
           Offline' => Offline
    PROVE  QuietInv'
<1>1. subscriber'[MonitorBus] = "connecting" => ~radio'
  BY DEF QuietInv
<1>2. StaysQuiet(inbox[MonitorBus], radio)
          => StaysQuiet(inbox[MonitorBus], radio')
  BY DEF StaysQuiet
<1>3. StaysQuiet(inbox[MonitorBus], radio)'
          <=> StaysQuiet(inbox[MonitorBus], radio')
  BY DEF StaysQuiet, Starts, Rt!Connected, Rt!Disconnected, StartBleScan
<1> QED BY <1>1, <1>2, <1>3 DEF QuietInv

\* What a component publishes does not reach the Monitor (bus.js:16-19).
LEMMA NotForTheMonitor ==
    ASSUME NEW c \in {MonitorBus, InfoBus}, NEW m, NEW boxes,
           boxes = [d \in Clients |-> boxes[d]]
    PROVE  Rt!Published(c, m, boxes)[MonitorBus] = boxes[MonitorBus]
BY ClientsAssumption
   DEF Rt!Published, Rt!Listeners, Rt!SubscribedChannel, Rt!PublishChannel,
       Clients

\* The steps of the Router.
LEMMA RouterKeepsQuiet ==
    ASSUME IInv, RouterStep
    PROVE  QuietInv'
<1> USE DEF IInv
<1>1. /\ inbox[MonitorBus] \in Seq(RP!Messages) /\ MonitorBus # Router
      /\ connected <=> ws = "open"
      /\ spoken => publisher[Router] # "connecting"
      /\ radio \in BOOLEAN /\ Rt!Disconnected \in RP!Messages
      /\ MonitorBus \in Clients /\ Router \in Clients
      /\ inbox = [c \in Clients |-> inbox[c]]
      /\ subscriber = [c \in Clients |-> subscriber[c]]
      /\ publisher = [c \in Clients |-> publisher[c]]
  BY HubFacts, ClientsAssumption
<1>2. UNCHANGED radio
  BY DEF RouterStep, monVars
<1>3. CASE Rt!WsOpen
  <2>1. connected'
    BY <1>1, <1>3 DEF Rt!WsOpen
  <2>2. UNCHANGED subscriber
    BY <1>3 DEF Rt!WsOpen, Rt!Announce, Rt!Publish, Rt!busVars
  <2> QED BY <1>2, <2>1, <2>2 DEF QuietInv, Offline
<1>4. CASE Rt!WsClose
  <2>1. CASE connected
    <3>1. /\ inbox' = Rt!Published(Router, Rt!Disconnected, inbox)
          /\ UNCHANGED <<subscriber, publisher>>
      BY <1>4, <2>1 DEF Rt!WsClose, Rt!Announce, Rt!Publish
    <3>2. ASSUME publisher[Router] = "ready",
                 subscriber[MonitorBus] = "subscribed"
          PROVE  inbox'[MonitorBus] = Append(inbox[MonitorBus], Rt!Disconnected)
      BY <1>1, <3>1, <3>2 DEF Rt!Published, Rt!Listeners,
         Rt!SubscribedChannel, Rt!PublishChannel
    <3>3. StaysQuiet(Append(inbox[MonitorBus], Rt!Disconnected), radio')
      BY <1>1, SaysGoodbye
    <3>4. Offline' => StaysQuiet(inbox'[MonitorBus], radio')
      BY <3>1, <3>2, <3>3 DEF Offline
    <3> QED BY <1>2, <3>1, <3>4 DEF QuietInv, StaysQuiet, Starts,
               Rt!Connected, Rt!Disconnected, StartBleScan
  <2>2. CASE ~connected
    <3>1. UNCHANGED <<connected, spoken, inbox, subscriber, publisher>>
      BY <1>4, <2>2 DEF Rt!WsClose, Rt!busVars
    <3> QED BY <1>1, <1>2, <3>1, UndisturbedIsQuiet DEF Offline
  <2> QED BY <2>1, <2>2
<1>5. CASE Rt!Reconnect
  <2>1. UNCHANGED <<connected, spoken, inbox, subscriber, publisher>>
    BY <1>5 DEF Rt!Reconnect, Rt!busVars
  <2> QED BY <1>1, <1>2, <2>1, UndisturbedIsQuiet DEF Offline
<1>6. CASE Rt!OnBusMessage
  <2>1. /\ UNCHANGED <<connected, spoken, subscriber, publisher>>
        /\ inbox'[MonitorBus] = inbox[MonitorBus]
    BY <1>1, <1>6 DEF Rt!OnBusMessage, Rt!Take, Rt!Taken
  <2> QED BY <1>1, <1>2, <2>1, UndisturbedIsQuiet DEF Offline
<1>7. ASSUME NEW m \in Commands, Rt!OnPlatformMessage(m) PROVE QuietInv'
  <2>1. connected' /\ UNCHANGED subscriber
    BY <1>1, <1>7 DEF Rt!OnPlatformMessage, Rt!Publish
  <2> QED BY <1>2, <2>1 DEF QuietInv, Offline
<1>8. CASE Rt!RestartRouter
  <2>1. ~spoken' /\ subscriber'[MonitorBus] = subscriber[MonitorBus]
    BY <1>1, <1>8 DEF Rt!RestartRouter, Rt!BusRestart
  <2> QED BY <1>2, <2>1 DEF QuietInv, Offline
<1> QED BY <1>3, <1>4, <1>5, <1>6, <1>7, <1>8 DEF RouterStep, Rt!RouterStep

\* A component gets a connection, or loses one.
LEMMA ConnectionKeepsQuiet ==
    ASSUME IInv, ConnectionStep
    PROVE  QuietInv'
<1> USE DEF IInv
<1>1. /\ \A c \in Clients : subscriber[c] # "subscribed" => inbox[c] = <<>>
      /\ spoken => publisher[Router] # "connecting"
      /\ radio \in BOOLEAN
      /\ MonitorBus \in Clients /\ Router \in Clients
      /\ inbox = [c \in Clients |-> inbox[c]]
      /\ subscriber = [c \in Clients |-> subscriber[c]]
      /\ publisher = [c \in Clients |-> publisher[c]]
  BY HubFacts
<1>2. PICK c \in Clients : Rt!Connection(c)
  BY DEF ConnectionStep
<1>3. UNCHANGED <<radio, connected, spoken>>
  BY <1>2 DEF ConnectionStep, monVars, Rt!Connection, Rt!Quietly
<1>4. CASE Rt!OnReady(c)
  <2>1. /\ subscriber[c] = "connecting"
        /\ subscriber' = [subscriber EXCEPT ![c] = "subscribed"]
        /\ UNCHANGED <<publisher, inbox>>
    BY <1>4 DEF Rt!OnReady
  <2>2. CASE c = MonitorBus
    <3>1. inbox'[MonitorBus] = <<>> /\ ~radio'
      BY <1>1, <1>3, <2>1, <2>2 DEF QuietInv
    <3>2. StaysQuiet(inbox[MonitorBus], radio)'
      BY <3>1 DEF StaysQuiet
    <3> QED BY <3>1, <3>2 DEF QuietInv
  <2>3. CASE c # MonitorBus
    <3>1. subscriber'[MonitorBus] = subscriber[MonitorBus]
      BY <1>1, <2>1, <2>3
    <3> QED BY <1>1, <1>3, <2>1, <3>1, UndisturbedIsQuiet DEF Offline
  <2> QED BY <2>2, <2>3
<1>5. CASE Rt!PublisherReady(c)
  <2>1. /\ publisher[c] = "connecting"
        /\ publisher' = [publisher EXCEPT ![c] = "ready"]
        /\ UNCHANGED <<subscriber, inbox>>
    BY <1>5 DEF Rt!PublisherReady
  <2>2. Offline' => Offline
    BY <1>1, <1>3, <2>1 DEF Offline
  <2> QED BY <1>1, <1>3, <2>1, <2>2, UndisturbedIsQuiet
<1>6. CASE Rt!SubscriberEnd(c)
  <2>1. /\ subscriber' = [subscriber EXCEPT ![c] = "ended"]
        /\ inbox' = [inbox EXCEPT ![c] = <<>>]
        /\ UNCHANGED publisher
    BY <1>6 DEF Rt!SubscriberEnd
  <2>2. CASE c = MonitorBus
    <3>1. subscriber'[MonitorBus] = "ended"
      BY <1>1, <2>1, <2>2
    <3> QED BY <3>1 DEF QuietInv, Offline
  <2>3. CASE c # MonitorBus
    <3>1. /\ subscriber'[MonitorBus] = subscriber[MonitorBus]
          /\ inbox'[MonitorBus] = inbox[MonitorBus]
      BY <1>1, <2>1, <2>3
    <3> QED BY <1>1, <1>3, <2>1, <3>1, UndisturbedIsQuiet DEF Offline
  <2> QED BY <2>2, <2>3
<1>7. CASE Rt!PublisherEnd(c)
  <2>1. /\ publisher' = [publisher EXCEPT ![c] = "ended"]
        /\ UNCHANGED <<subscriber, inbox>>
    BY <1>7 DEF Rt!PublisherEnd
  <2>2. Offline' => Offline
    BY <1>1, <1>3, <2>1 DEF Offline
  <2> QED BY <1>1, <1>3, <2>1, <2>2, UndisturbedIsQuiet
<1> QED BY <1>2, <1>4, <1>5, <1>6, <1>7 DEF Rt!Connection, Rt!Quietly

\* The steps of the Monitor and of the InfoPublisher.
LEMMA ComponentsKeepQuiet ==
    ASSUME IInv,
           \/ MonitorReceives
           \/ \E d \in Devices : MonitorDiscovers(d) \/ MonitorExpires(d)
           \/ AdapterStep
           \/ InfoReceives
           \/ RestartMonitor
           \/ RestartController
    PROVE  QuietInv'
<1> USE DEF IInv
<1>1. /\ inbox[MonitorBus] \in Seq(RP!Messages)
      /\ MonitorBus # InfoBus /\ MonitorBus # Router /\ InfoBus # Router
      /\ radio \in BOOLEAN
      /\ MonitorBus \in Clients /\ InfoBus \in Clients
      /\ inbox = [c \in Clients |-> inbox[c]]
      /\ subscriber = [c \in Clients |-> subscriber[c]]
      /\ publisher = [c \in Clients |-> publisher[c]]
  BY HubFacts, ClientsAssumption
<1>2. CASE MonitorReceives
  <2>1. PICK m : /\ Rt!Receive(MonitorBus) /\ Head(inbox[MonitorBus]) = m
                 /\ \/ m = Rt!Connected /\ Mon!ConnectedToPlatform
                    \/ m = Rt!Disconnected /\ Mon!DisconnectedFromPlatform
                    \/ m = StartBleScan /\ Mon!StartBleScan
                    \/ m = StopBleScan /\ Mon!StopBleScan
    BY <1>2 DEF MonitorReceives, MonitorHandles
  <2>2. /\ inbox[MonitorBus] # <<>>
        /\ inbox'[MonitorBus] = Tail(inbox[MonitorBus])
        /\ UNCHANGED <<subscriber, publisher, connected, spoken>>
    BY <1>1, <2>1 DEF Rt!Receive, Rt!Take, Rt!Taken, Rt!Arrived, Rt!Hear
  <2>3. StaysQuiet(inbox[MonitorBus], radio)
            => StaysQuiet(Tail(inbox[MonitorBus]), radio')
    BY <1>1, <2>1, <2>2, WorksOff
  <2>4. subscriber[MonitorBus] # "connecting"
    BY <1>1, <2>2, HubFacts
  <2>5. Offline' => Offline
    BY <2>2 DEF Offline
  <2>6. StaysQuiet(inbox[MonitorBus], radio)'
            <=> StaysQuiet(inbox'[MonitorBus], radio')
    BY DEF StaysQuiet, Starts, Rt!Connected, Rt!Disconnected, StartBleScan
  <2> QED BY <2>2, <2>3, <2>4, <2>5, <2>6 DEF QuietInv
<1>3. ASSUME NEW d \in Devices, MonitorDiscovers(d) PROVE QuietInv'
  <2>1. UNCHANGED radio
    BY <1>3 DEF MonitorDiscovers, Mon!HandleDeviceDiscovered
  <2>2. CASE sent' = Mon!NoMessage
    <3>1. UNCHANGED routerVars
      BY <1>3, <2>2 DEF MonitorDiscovers
    <3> QED BY <1>1, <2>1, <3>1, UndisturbedIsQuiet DEF routerVars, Offline
  <2>3. CASE sent' # Mon!NoMessage
    <3>1. /\ inbox' = Rt!Published(MonitorBus, sent', inbox)
          /\ UNCHANGED <<subscriber, publisher, connected, spoken>>
      BY <1>3, <2>3 DEF MonitorDiscovers, Rt!Emit, Rt!Quietly, Rt!Publish
    <3>2. inbox'[MonitorBus] = inbox[MonitorBus]
      BY <1>1, <3>1, NotForTheMonitor
    <3> QED BY <1>1, <2>1, <3>1, <3>2, UndisturbedIsQuiet DEF Offline
  <2> QED BY <2>2, <2>3
<1>4. ASSUME NEW d \in Devices, MonitorExpires(d) PROVE QuietInv'
  <2>1. UNCHANGED routerVars /\ UNCHANGED radio
    BY <1>4 DEF MonitorExpires, Mon!ExpireCacheEntry, Mon!scannerVars
  <2> QED BY <1>1, <2>1, UndisturbedIsQuiet DEF routerVars, Offline
<1>5. CASE AdapterStep
  <2>1. UNCHANGED routerVars /\ Mon!Adapter
    BY <1>5 DEF AdapterStep, Mon!AdapterStep, Mon!Silently
  <2>2. CASE radio' = radio
    BY <1>1, <2>1, <2>2, UndisturbedIsQuiet DEF routerVars, Offline
  <2>3. CASE radio' = FALSE
    <3>1. (radio' => radio) /\ radio' \in BOOLEAN
      BY <2>3
    <3> QED BY <1>1, <2>1, <3>1, UndisturbedIsQuiet DEF routerVars, Offline
  <2> QED BY <2>1, <2>2, <2>3 DEF Mon!Adapter, Mon!PowerOn, Mon!PowerOff,
             Mon!Advertise
<1>6. CASE InfoReceives
  <2>1. UNCHANGED <<radio, subscriber, publisher, connected, spoken>>
    BY <1>6 DEF InfoReceives, monVars, Rt!Reply, Rt!Receive, Rt!Hear, Rt!Take,
       Rt!TakeAndPublish
  <2>2. inbox'[MonitorBus] = inbox[MonitorBus]
    <3>1. /\ Rt!Taken(InfoBus) = [d \in Clients |-> Rt!Taken(InfoBus)[d]]
          /\ Rt!Taken(InfoBus)[MonitorBus] = inbox[MonitorBus]
      BY <1>1 DEF Rt!Taken
    <3>2. \/ inbox' = Rt!Taken(InfoBus)
          \/ inbox' = Rt!Published(InfoBus, Info, Rt!Taken(InfoBus))
      BY <1>6 DEF InfoReceives, Rt!Reply, Rt!Receive, Rt!Take, Rt!TakeAndPublish
    <3> QED BY <3>1, <3>2, NotForTheMonitor
  <2> QED BY <1>1, <2>1, <2>2, UndisturbedIsQuiet DEF Offline
<1>7. CASE RestartMonitor
  <2>1. subscriber'[MonitorBus] = "connecting" /\ ~radio'
    BY <1>1, <1>7 DEF RestartMonitor, Rt!RestartComponent, Rt!BusRestart
  <2> QED BY <2>1 DEF QuietInv, Offline
<1>8. CASE RestartController
  <2>1. /\ UNCHANGED <<radio, connected, spoken>>
        /\ inbox'[MonitorBus] = inbox[MonitorBus]
        /\ subscriber'[MonitorBus] = subscriber[MonitorBus]
        /\ publisher'[Router] = publisher[Router]
    BY <1>1, <1>8, HubFacts DEF RestartController, monVars, Rt!RestartComponent,
       Rt!BusRestart
  <2> QED BY <1>1, <2>1, UndisturbedIsQuiet DEF Offline
<1> QED BY <1>2, <1>3, <1>4, <1>5, <1>6, <1>7, <1>8

\* Every step of the hub preserves QuietInv.
LEMMA NextKeepsQuiet == IInv /\ [Next]_vars => QuietInv'
<1> SUFFICES ASSUME IInv, [Next]_vars PROVE QuietInv'
  OBVIOUS
<1>1. CASE UNCHANGED vars
  <2>1. UNCHANGED radio /\ UNCHANGED routerVars /\ radio \in BOOLEAN
    BY <1>1, HubFacts DEF vars, monVars, IInv
  <2> QED BY <2>1, UndisturbedIsQuiet DEF routerVars, Offline, IInv
<1>2. CASE RouterStep
  BY <1>2, RouterKeepsQuiet
<1>3. CASE ConnectionStep
  BY <1>3, ConnectionKeepsQuiet
<1> QED BY <1>1, <1>2, <1>3, ComponentsKeepQuiet DEF Next

\* A hub that has lost the platform does not scan, whichever processes were
\* restarted, for every set of devices, any bounds and any redis failures
\* (monitor.js, router.js:68-76).
THEOREM OfflineIsQuiet == Spec => []QuietWhenOffline
<1>1. Init => QuietInv
  BY DEF Init, Mon!Init, Mon!ScannerInit, Rt!Init, Rt!RouterInit, QuietInv,
     Offline
<1>2. IInv => QuietWhenOffline
  <2> SUFFICES ASSUME IInv, Offline, inbox[MonitorBus] = <<>> PROVE ~radio
    BY DEF QuietWhenOffline, Offline
  <2> QED BY DEF IInv, QuietInv, StaysQuiet
<1>3. MP!IInv /\ RP!IInv /\ QuietInv /\ [Next]_vars => QuietInv'
  BY NextKeepsQuiet DEF IInv
<1>4. Spec => []QuietInv
  BY <1>1, <1>3, MonitorInvariant, RouterInvariant, PTL DEF Spec
<1>5. Spec => []IInv
  BY <1>4, MonitorInvariant, RouterInvariant, PTL DEF IInv
<1> QED BY <1>2, <1>5, PTL
=============================================================================

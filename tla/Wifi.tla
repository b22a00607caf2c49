-------------------------------- MODULE Wifi --------------------------------
(***************************************************************************)
(* WiFi management: controller/wireless.js over the adapter of wireless.js *)
(* over the "wireless" package, whose events drive both. The package polls *)
(* the interface: it tracks the networks it sees, and announces a link as  *)
(* 'join' when it tracks the network, as 'former' when it does not yet.    *)
(***************************************************************************)
EXTENDS Lists, FiniteSets

CONSTANTS
    Addresses,      \* access points, by hardware address
    Profiles,       \* records [ssid, wpa]: network name, WPA or WPA2 or open
    Handles,        \* bound: setTimeout handles alive at one time
    PassLengths,    \* passphrases the platform sends, by length, or None
    None

ASSUME ProfilesAssumption ==
    /\ \A p \in Profiles : p.wpa \in BOOLEAN
    /\ None \notin Profiles
ASSUME PassAssumption == PassLengths \subseteq Nat \cup {None}
ASSUME HandlesAssumption == None \notin Handles \cup Addresses

VARIABLES
    tracked,        \* package: the profile of each network it tracks
    assoc,          \* package: the access point the interface is linked to
    libConnected,   \* package: wireless.connected
    connected,      \* adapter: this.connected
    network,        \* adapter: this.network
    started,        \* the bus was ready once: tracking has been started
    wifiNetworks,   \* controller: _wifiNetworks
    sendEvents,     \* controller: _sendWiFiScanEvents
    currentScan,    \* controller: _currentScan, a timer handle
    timers,         \* pending scan timeouts
    out,            \* the kind of message this step published
    joinRequest,    \* what this step handed to the package's join()
    told            \* history: the link the platform last heard of

libVars == <<tracked, assoc, libConnected>>
adapterVars == <<connected, network>>
scanVars == <<sendEvents, currentScan, timers>>
vars == <<libVars, adapterVars, started, wifiNetworks, scanVars, out,
          joinRequest, told>>

Network(a, p) == [address |-> a, profile |-> p]
Networks == {Network(a, p) : a \in Addresses, p \in Profiles}
Kinds == {"none", "updated", "error", "joined", "left"}

TypeOK ==
    /\ tracked \in [Addresses -> Profiles \cup {None}]
    /\ assoc \in Addresses \cup {None}
    /\ libConnected \in BOOLEAN /\ connected \in BOOLEAN
    /\ started \in BOOLEAN /\ sendEvents \in BOOLEAN
    /\ network \in Networks \cup {None}
    /\ wifiNetworks \in Seq(Networks)
    /\ currentScan \in Handles \cup {None}
    /\ timers \subseteq Handles
    /\ out \in Kinds
    /\ joinRequest \in [network : Networks, pass : PassLengths] \cup {None}
    /\ told \in Networks \cup {None}

Init ==
    /\ tracked = [a \in Addresses |-> None]
    /\ assoc = None
    /\ libConnected = FALSE
    /\ connected = FALSE
    /\ network = None
    /\ started = FALSE
    /\ wifiNetworks = <<>>
    /\ sendEvents = FALSE
    /\ currentScan = None
    /\ timers = {}
    /\ out = "none"
    /\ joinRequest = None
    /\ told = None

-----------------------------------------------------------------------------
(* Publishing. A handler publishes at most one message.                    *)

Silent == out' = "none" /\ UNCHANGED told
PublishUpdate ==
    /\ out' = IF sendEvents THEN "updated" ELSE "none"
    /\ UNCHANGED told
WifiError == out' = "error" /\ UNCHANGED told
PublishLink(n) ==
    /\ out' = IF n = None THEN "left" ELSE "joined"
    /\ told' = n

NoJoin == joinRequest' = None

-----------------------------------------------------------------------------
(* The list of networks. The adapter passes on appear, change, signal and  *)
(* vanish; the controller edits its list by address.                       *)

WifiAppeared(a, p) ==
    /\ started
    /\ tracked[a] = None
    /\ tracked' = [tracked EXCEPT ![a] = p]
    /\ wifiNetworks' = Append(wifiNetworks, Network(a, p))
    /\ PublishUpdate /\ NoJoin
    /\ UNCHANGED <<assoc, libConnected, adapterVars, started, scanVars>>

\* A mutated WifiVanished: the list is filtered by network name.
WifiVanishedByName(a) ==
    /\ tracked[a] # None
    /\ tracked' = [tracked EXCEPT ![a] = None]
    /\ wifiNetworks' = Filter(wifiNetworks,
                          {n \in Networks : n.profile.ssid # tracked[a].ssid})
    /\ PublishUpdate /\ NoJoin
    /\ UNCHANGED <<assoc, libConnected, adapterVars, started, scanVars>>

WifiVanished(a) ==
    /\ tracked[a] # None
    /\ tracked' = [tracked EXCEPT ![a] = None]
    /\ wifiNetworks' = Filter(wifiNetworks, {n \in Networks : n.address # a})
    /\ PublishUpdate /\ NoJoin
    /\ UNCHANGED <<assoc, libConnected, adapterVars, started, scanVars>>

\* A mutated WifiChange: the new profile is published but not kept.
WifiChangeDropped(a, p) ==
    /\ tracked[a] # None
    /\ tracked' = [tracked EXCEPT ![a] = p]
    /\ PublishUpdate /\ NoJoin
    /\ UNCHANGED <<assoc, libConnected, adapterVars, started, scanVars,
                   wifiNetworks>>

\* A 'signal' event is a change that leaves the profile as it was.
WifiChange(a, p) ==
    /\ tracked[a] # None
    /\ tracked' = [tracked EXCEPT ![a] = p]
    /\ wifiNetworks' = [i \in DOMAIN wifiNetworks |->
                           IF wifiNetworks[i].address = a
                           THEN Network(a, p) ELSE wifiNetworks[i]]
    /\ PublishUpdate /\ NoJoin
    /\ UNCHANGED <<assoc, libConnected, adapterVars, started, scanVars>>

-----------------------------------------------------------------------------
(* The scan window: five minutes in which updates are published.           *)

\* A mutated EndScan: updates stop, the scan is still on record.
EndScanHalfway ==
    /\ sendEvents' = FALSE
    /\ UNCHANGED currentScan

\* _stopWiFiScan: the timer of the scan is not cancelled.
EndScan ==
    /\ sendEvents' = FALSE
    /\ currentScan' = None

StopWiFiScan ==
    /\ EndScan
    /\ Silent /\ NoJoin
    /\ UNCHANGED <<libVars, adapterVars, started, wifiNetworks, timers>>

\* A mutated StartWiFiScan: the running scan's timer is cancelled and no
\* other is set.
StartWiFiScanNoTimer ==
    /\ \E h \in Handles \ timers :
           /\ timers' = IF currentScan = None THEN timers \cup {h}
                        ELSE timers \ {currentScan}
           /\ currentScan' = IF currentScan = None THEN h ELSE currentScan
    /\ sendEvents' = TRUE
    /\ Silent /\ NoJoin
    /\ UNCHANGED <<libVars, adapterVars, started, wifiNetworks>>

StartWiFiScan ==
    /\ \E h \in Handles \ timers :
           /\ timers' = (timers \ {currentScan}) \cup {h}
           /\ currentScan' = h
    /\ sendEvents' = (sendEvents \/ currentScan = None)
    /\ Silent /\ NoJoin
    /\ UNCHANGED <<libVars, adapterVars, started, wifiNetworks>>

\* Any pending timer ends the scan that is running, its own or a later one.
ScanTimeout(h) ==
    /\ h \in timers
    /\ timers' = timers \ {h}
    /\ EndScan
    /\ Silent /\ NoJoin
    /\ UNCHANGED <<libVars, adapterVars, started, wifiNetworks>>

-----------------------------------------------------------------------------
(* Joining a network.                                                      *)

\* _joinNetwork takes the first network of that name.
Candidates(ssid) ==
    Filter(wifiNetworks, {n \in Networks : n.profile.ssid = ssid})

\* A mutated PassRejected: only the lower bound is tested.
PassRejectedIfShort(n, pass) == n.profile.wpa /\ pass # None /\ pass < 8

PassRejected(n, pass) ==
    n.profile.wpa /\ pass # None /\ (pass < 8 \/ pass > 63)

\* Reading the length of an absent passphrase throws.
PassThrows(n, pass) == n.profile.wpa /\ pass = None

JoinUnknown(ssid) ==
    /\ Candidates(ssid) = <<>>
    /\ WifiError /\ NoJoin
    /\ UNCHANGED scanVars

JoinRefused(ssid, pass) ==
    /\ Candidates(ssid) # <<>>
    /\ PassRejected(Head(Candidates(ssid)), pass)
    /\ WifiError /\ NoJoin
    /\ UNCHANGED scanVars

JoinThrows(ssid, pass) ==
    /\ Candidates(ssid) # <<>>
    /\ PassThrows(Head(Candidates(ssid)), pass)
    /\ Silent /\ NoJoin
    /\ UNCHANGED scanVars

JoinStarts(ssid, pass) ==
    LET candidates == Candidates(ssid)
    IN  /\ candidates # <<>>
        /\ ~PassRejected(Head(candidates), pass)
        /\ ~PassThrows(Head(candidates), pass)
        /\ EndScan
        /\ joinRequest' = [network |-> Head(candidates), pass |-> pass]
        /\ Silent
        /\ UNCHANGED timers

JoinNetwork(ssid, pass) ==
    /\ \/ JoinUnknown(ssid)
       \/ JoinRefused(ssid, pass)
       \/ JoinThrows(ssid, pass)
       \/ JoinStarts(ssid, pass)
    /\ UNCHANGED <<libVars, adapterVars, started, wifiNetworks>>

-----------------------------------------------------------------------------
(* The link, as the package's poll finds it.                               *)

\* A mutated WifiJoined: the adapter keeps the package's record of the
\* network, which it forgets to normalize.
WifiJoinedRaw ==
    /\ assoc # None /\ ~libConnected
    /\ tracked[assoc] # None
    /\ libConnected' = TRUE
    /\ connected' = TRUE
    /\ network' = tracked[assoc]
    /\ PublishLink(network') /\ NoJoin
    /\ IF currentScan # None THEN EndScan ELSE UNCHANGED <<sendEvents, currentScan>>
    /\ UNCHANGED <<tracked, assoc, started, wifiNetworks, timers>>

\* onJoin of the adapter, then _wifiJoined of the controller.
WifiJoined ==
    /\ assoc # None /\ ~libConnected
    /\ tracked[assoc] # None
    /\ libConnected' = TRUE
    /\ connected' = TRUE
    /\ network' = Network(assoc, tracked[assoc])
    /\ PublishLink(network') /\ NoJoin
    /\ IF currentScan # None THEN EndScan ELSE UNCHANGED <<sendEvents, currentScan>>
    /\ UNCHANGED <<tracked, assoc, started, wifiNetworks, timers>>

\* A mutated OnFormer: the package goes on believing it has announced a link.
OnFormerIgnored ==
    /\ started
    /\ assoc # None /\ ~libConnected
    /\ tracked[assoc] = None
    /\ libConnected' = TRUE
    /\ Silent /\ NoJoin
    /\ UNCHANGED <<tracked, assoc, adapterVars, started, wifiNetworks, scanVars>>

\* The package sets wireless.connected, emits 'former'; onFormer resets it.
OnFormer ==
    /\ started
    /\ assoc # None /\ ~libConnected
    /\ tracked[assoc] = None
    /\ libConnected' = FALSE
    /\ Silent /\ NoJoin
    /\ UNCHANGED <<tracked, assoc, adapterVars, started, wifiNetworks, scanVars>>

\* onLeave of the adapter keeps connected and network; then _wifiLeft.
WifiLeft ==
    /\ assoc = None /\ libConnected
    /\ libConnected' = FALSE
    /\ PublishLink(None) /\ NoJoin
    /\ UNCHANGED <<tracked, assoc, adapterVars, started, wifiNetworks, scanVars>>

\* onError of the adapter, then _wifiError: the platform hears of it, and
\* whatever was going on goes on.
OnError ==
    /\ started
    /\ WifiError /\ NoJoin
    /\ UNCHANGED <<libVars, adapterVars, started, wifiNetworks, scanVars>>

-----------------------------------------------------------------------------
(* The bus.                                                                *)

\* Later 'ready' events find no listener: the handler is registered once.
Ready ==
    /\ ~started
    /\ started' = TRUE
    /\ Silent /\ NoJoin
    /\ UNCHANGED <<libVars, adapterVars, wifiNetworks, scanVars>>

OnConnectedToPlatform ==
    /\ PublishLink(network) /\ NoJoin
    /\ UNCHANGED <<libVars, adapterVars, started, wifiNetworks, scanVars>>

-----------------------------------------------------------------------------
(* The interface itself.                                                   *)

Associate(a) ==
    /\ assoc = None /\ ~libConnected
    /\ assoc' = a
    /\ Silent /\ NoJoin
    /\ UNCHANGED <<tracked, libConnected, adapterVars, started, wifiNetworks,
                   scanVars>>

Disassociate ==
    /\ assoc # None
    /\ assoc' = None
    /\ Silent /\ NoJoin
    /\ UNCHANGED <<tracked, libConnected, adapterVars, started, wifiNetworks,
                   scanVars>>

-----------------------------------------------------------------------------
LibraryEvent ==
    \/ \E a \in Addresses :
           \/ WifiVanished(a)
           \/ \E p \in Profiles : WifiAppeared(a, p) \/ WifiChange(a, p)
    \/ WifiJoined
    \/ OnFormer
    \/ WifiLeft
    \/ OnError

PlatformCommand ==
    \/ StartWiFiScan
    \/ StopWiFiScan
    \/ \E p \in Profiles, pass \in PassLengths : JoinNetwork(p.ssid, pass)
    \/ OnConnectedToPlatform

Next ==
    \/ Ready
    \/ LibraryEvent
    \/ PlatformCommand
    \/ \E h \in Handles : ScanTimeout(h)
    \/ \E a \in Addresses : Associate(a)
    \/ Disassociate

Spec == Init /\ [][Next]_vars

\* Timers fire, the package goes on polling the link and the networks.
Fairness ==
    /\ \A h \in Handles : WF_vars(ScanTimeout(h))
    /\ WF_vars(WifiJoined)
    /\ WF_vars(OnFormer)
    /\ WF_vars(WifiLeft)

FairSpec == Spec /\ Fairness

-----------------------------------------------------------------------------
(* Safety *)

\* The controller's list, edited event by event, is what the package tracks:
\* every network once, under its latest profile.
ListMatchesTracked ==
    LET listed == ToSet(wifiNetworks)
    IN  /\ listed = {Network(a, tracked[a]) :
                         a \in {b \in Addresses : tracked[b] # None}}
        /\ Len(wifiNetworks) = Cardinality(listed)

\* The two records of a running scan agree, and a running scan has a pending
\* timer, although stops leave timers behind and starts cancel them.
ScanHasTimer ==
    /\ sendEvents <=> currentScan # None
    /\ sendEvents => currentScan \in timers

\* What is handed to the package is a network it still tracks, as it is now,
\* with a passphrase WPA accepts (wireless.spec.js:194, 206, 220).
JoinIsCurrentAndValid ==
    [][joinRequest' # None =>
          LET n == joinRequest'.network
          IN  /\ tracked[n.address] = n.profile
              /\ n.profile.wpa => joinRequest'.pass \in 8 .. 63]_vars

(* Liveness *)

\* Once the platform stops asking for scans, the updates end.
ScanEnds == <>[][~StartWiFiScan]_vars => <>[]~sendEvents

\* A lasting link to a tracked network is announced, also when it was first
\* found before its network was tracked (wireless.js:94-99).
LinkIsAnnounced ==
    \A a \in Addresses :
        <>[](assoc = a /\ tracked[a] # None)
            => <>[](network # None /\ network.address = a)

(* The abstract view *)

View == INSTANCE NetworkView WITH view <- ToSet(wifiNetworks)

\* The list of networks implements NetworkView.
ImplementsView == View!Spec

(* What the tests say, and the code does not do *)

\* wireless.spec.js:254 and 274: a scan runs for five minutes. Only its own
\* timer, hence never an older one, may end it.
ScanRunsItsTime ==
    [][\A h \in timers :
          ScanTimeout(h) /\ currentScan # None => h = currentScan]_vars

\* wireless-adapter.spec.js:76: leaving a network sets the properties to say
\* that we are not connected, so the platform is not told otherwise.
NotToldOfLostLink == told \in Networks => libConnected
=============================================================================

----------------------------- MODULE WifiProofs -----------------------------
(***************************************************************************)
(* Proofs about the WiFi controller, for any access points, profiles,      *)
(* passphrases and number of timers.                                       *)
(***************************************************************************)
EXTENDS Wifi, ListProofs

\* The list holds nothing twice, so that its length counts its entries.
NothingTwice == IsInjective(wifiNetworks)

\* What is listed: each network the package tracks, as it tracks it.
Tracked == {a \in Addresses : tracked[a] # None}
ListedAsTracked ==
    ToSet(wifiNetworks) = {Network(a, tracked[a]) : a \in Tracked}

IInv ==
    /\ TypeOK
    /\ ScanHasTimer
    /\ NothingTwice
    /\ ListedAsTracked

-----------------------------------------------------------------------------
\* A network is its address and its profile.
LEMMA NetworkFacts ==
    /\ \A a \in Addresses, p \in Profiles :
           /\ Network(a, p) \in Networks
           /\ Network(a, p).address = a
           /\ Network(a, p).profile = p
    /\ \A n \in Networks :
           /\ n.address \in Addresses
           /\ n.profile \in Profiles
           /\ n = Network(n.address, n.profile)
BY DEF Network, Networks

\* An entry of the list is a tracked network in its present state, and the
\* entry of every tracked network is there.
LEMMA ListEntries ==
    ASSUME IInv
    PROVE  /\ ToSet(wifiNetworks) \subseteq Networks
           /\ \A n \in Networks :
                  n \in ToSet(wifiNetworks) <=> tracked[n.address] = n.profile
<1>1. tracked \in [Addresses -> Profiles \cup {None}]
  BY DEF IInv, TypeOK
<1>2. ToSet(wifiNetworks) = {Network(a, tracked[a]) : a \in Tracked}
  BY DEF IInv, ListedAsTracked
<1>3. \A a \in Tracked : a \in Addresses /\ tracked[a] \in Profiles
  BY <1>1 DEF Tracked
<1>4. ToSet(wifiNetworks) \subseteq Networks
  BY <1>2, <1>3, NetworkFacts
<1>5. ASSUME NEW n \in Networks
      PROVE  n \in ToSet(wifiNetworks) <=> tracked[n.address] = n.profile
  <2>1. ASSUME n \in ToSet(wifiNetworks) PROVE tracked[n.address] = n.profile
    <3>1. PICK a \in Tracked : n = Network(a, tracked[a])
      BY <1>2, <2>1
    <3> QED BY <1>3, <3>1, NetworkFacts
  <2>2. ASSUME tracked[n.address] = n.profile PROVE n \in ToSet(wifiNetworks)
    <3>1. n.address \in Tracked
      BY <2>2, NetworkFacts, ProfilesAssumption DEF Tracked
    <3> QED BY <1>2, <2>2, <3>1, NetworkFacts
  <2> QED BY <2>1, <2>2
<1> QED BY <1>4, <1>5

\* A tracked address has an entry, and an entry has a tracked address.
LEMMA AddressListed ==
    ASSUME IInv, NEW a \in Addresses
    PROVE  (\E n \in ToSet(wifiNetworks) : n.address = a) <=> tracked[a] # None
<1>1. tracked[a] \in Profiles \cup {None}
  BY DEF IInv, TypeOK
<1>2. ASSUME tracked[a] # None
      PROVE  \E n \in ToSet(wifiNetworks) : n.address = a
  <2>1. Network(a, tracked[a]) \in ToSet(wifiNetworks)
    BY <1>1, <1>2, ListEntries, NetworkFacts
  <2> QED BY <1>1, <1>2, <2>1, NetworkFacts
<1>3. ASSUME NEW n \in ToSet(wifiNetworks), n.address = a
      PROVE  tracked[a] # None
  <2>1. n \in Networks /\ tracked[a] = n.profile
    BY <1>3, ListEntries
  <2> QED BY <2>1, NetworkFacts, ProfilesAssumption
<1> QED BY <1>2, <1>3

\* No two entries of the list have the same address.
LEMMA AddressesDiffer ==
    ASSUME IInv, NEW i \in DOMAIN wifiNetworks, NEW j \in DOMAIN wifiNetworks,
           wifiNetworks[i].address = wifiNetworks[j].address
    PROVE  i = j
<1>1. /\ wifiNetworks[i] \in ToSet(wifiNetworks)
      /\ wifiNetworks[j] \in ToSet(wifiNetworks)
  BY DEF ToSet
<1>2. wifiNetworks[i] \in Networks /\ wifiNetworks[j] \in Networks
  BY <1>1, ListEntries
<1>3. wifiNetworks[i].profile = wifiNetworks[j].profile
  BY <1>1, <1>2, ListEntries
<1>4. wifiNetworks[i] = wifiNetworks[j]
  BY <1>2, <1>3, NetworkFacts
<1> QED BY <1>4 DEF IInv, NothingTwice, IsInjective

-----------------------------------------------------------------------------
(* What the three events of the package do to the list.                    *)

\* onAppear: the list has one more entry.
LEMMA Appeared ==
    ASSUME IInv, NEW a \in Addresses, NEW p \in Profiles, WifiAppeared(a, p)
    PROVE  /\ wifiNetworks' \in Seq(Networks)
           /\ NothingTwice'
           /\ ToSet(wifiNetworks') = ToSet(wifiNetworks) \cup {Network(a, p)}
<1>1. wifiNetworks \in Seq(Networks) /\ IsInjective(wifiNetworks)
  BY DEF IInv, TypeOK, NothingTwice
<1>2. Network(a, p) \in Networks /\ Network(a, p).address = a
  BY NetworkFacts
<1>3. Network(a, p) \notin ToSet(wifiNetworks)
  BY <1>2, AddressListed DEF WifiAppeared
<1>4. wifiNetworks' = Append(wifiNetworks, Network(a, p))
  BY DEF WifiAppeared
<1> QED BY <1>1, <1>2, <1>3, <1>4, AppendFacts DEF NothingTwice

\* onVanish: the entries with another address stay.
LEMMA Vanished ==
    ASSUME IInv, NEW a \in Addresses, WifiVanished(a)
    PROVE  /\ wifiNetworks' \in Seq(Networks)
           /\ NothingTwice'
           /\ ToSet(wifiNetworks') =
                  {n \in ToSet(wifiNetworks) : n.address # a}
<1> DEFINE others == {n \in Networks : n.address # a}
<1>1. wifiNetworks \in Seq(Networks) /\ IsInjective(wifiNetworks)
  BY DEF IInv, TypeOK, NothingTwice
<1>2. wifiNetworks' = Filter(wifiNetworks, others)
  BY DEF WifiVanished
<1>3. ToSet(wifiNetworks) \cap others =
          {n \in ToSet(wifiNetworks) : n.address # a}
  BY ListEntries
<1> HIDE DEF others
<1> QED BY <1>1, <1>2, <1>3, FilterFacts DEF NothingTwice

\* onChange and onSignal: the entry with the address is replaced in place.
LEMMA Changed ==
    ASSUME IInv, NEW a \in Addresses, NEW p \in Profiles, WifiChange(a, p)
    PROVE  /\ wifiNetworks' \in Seq(Networks)
           /\ NothingTwice'
           /\ ToSet(wifiNetworks') =
                  {n \in ToSet(wifiNetworks) : n.address # a}
                      \cup {Network(a, p)}
<1>1. wifiNetworks \in Seq(Networks)
  BY DEF IInv, TypeOK
<1> DEFINE new(i) == IF wifiNetworks[i].address = a
                     THEN Network(a, p) ELSE wifiNetworks[i]
<1>2. wifiNetworks' = [i \in DOMAIN wifiNetworks |-> new(i)]
  BY DEF WifiChange
<1>3. Network(a, p) \in Networks /\ Network(a, p).address = a
  BY NetworkFacts
<1>4. \A i \in DOMAIN wifiNetworks :
          /\ wifiNetworks[i] \in Networks
          /\ new(i) \in Networks
          /\ new(i).address = wifiNetworks[i].address
  BY <1>1, <1>3
<1>5. wifiNetworks' \in Seq(Networks)
  BY <1>1, <1>2, <1>4
<1>6. NothingTwice'
  BY <1>2, <1>4, AddressesDiffer DEF NothingTwice, IsInjective
<1>7. PICK k \in DOMAIN wifiNetworks : wifiNetworks[k].address = a
  BY AddressListed DEF WifiChange, ToSet
<1>8. ToSet(wifiNetworks') = {new(i) : i \in DOMAIN wifiNetworks}
  BY <1>2 DEF ToSet
<1>9. {new(i) : i \in DOMAIN wifiNetworks} =
          {n \in ToSet(wifiNetworks) : n.address # a} \cup {Network(a, p)}
  BY <1>3, <1>7 DEF ToSet
<1> QED BY <1>5, <1>6, <1>8, <1>9

-----------------------------------------------------------------------------
(* The inductive invariant.                                                *)

\* The network that appeared is tracked and listed.
LEMMA AppearedIsListed ==
    ASSUME IInv, NEW a \in Addresses, NEW p \in Profiles, WifiAppeared(a, p)
    PROVE  ListedAsTracked'
<1>1. tracked \in [Addresses -> Profiles \cup {None}]
  BY DEF IInv, TypeOK
<1>2. tracked[a] = None /\ tracked' = [tracked EXCEPT ![a] = p] /\ p # None
  BY ProfilesAssumption DEF WifiAppeared
<1>3. Tracked' = Tracked \cup {a} /\ a \notin Tracked
  BY <1>1, <1>2 DEF Tracked
<1>4. (\A b \in Tracked : tracked'[b] = tracked[b]) /\ tracked'[a] = p
  BY <1>1, <1>2, <1>3 DEF Tracked
<1>5. ToSet(wifiNetworks') = ToSet(wifiNetworks) \cup {Network(a, p)}
  BY Appeared
<1>6. ToSet(wifiNetworks) = {Network(b, tracked[b]) : b \in Tracked}
  BY DEF IInv, ListedAsTracked
<1> QED BY <1>3, <1>4, <1>5, <1>6 DEF ListedAsTracked

\* The network that vanished is neither tracked nor listed any more.
LEMMA VanishedIsListed ==
    ASSUME IInv, NEW a \in Addresses, WifiVanished(a)
    PROVE  ListedAsTracked'
<1>1. tracked \in [Addresses -> Profiles \cup {None}]
  BY DEF IInv, TypeOK
<1>2. tracked' = [tracked EXCEPT ![a] = None]
  BY DEF WifiVanished
<1>3. Tracked' = Tracked \ {a}
  BY <1>1, <1>2 DEF Tracked
<1>4. \A b \in Tracked' : tracked'[b] = tracked[b]
  BY <1>1, <1>2, <1>3 DEF Tracked
<1>5. ToSet(wifiNetworks') = {n \in ToSet(wifiNetworks) : n.address # a}
  BY Vanished
<1>6. ToSet(wifiNetworks) = {Network(b, tracked[b]) : b \in Tracked}
  BY DEF IInv, ListedAsTracked
<1>7. \A b \in Tracked : Network(b, tracked[b]).address = b
  BY DEF Network
<1> QED BY <1>3, <1>4, <1>5, <1>6, <1>7 DEF ListedAsTracked

\* The network that changed is tracked and listed with its new profile.
LEMMA ChangedIsListed ==
    ASSUME IInv, NEW a \in Addresses, NEW p \in Profiles, WifiChange(a, p)
    PROVE  ListedAsTracked'
<1>1. tracked \in [Addresses -> Profiles \cup {None}]
  BY DEF IInv, TypeOK
<1>2. tracked[a] # None /\ tracked' = [tracked EXCEPT ![a] = p] /\ p # None
  BY ProfilesAssumption DEF WifiChange
<1>3. Tracked' = Tracked /\ a \in Tracked
  BY <1>1, <1>2 DEF Tracked
<1>4. (\A b \in Tracked \ {a} : tracked'[b] = tracked[b]) /\ tracked'[a] = p
  BY <1>1, <1>2 DEF Tracked
<1>5. ToSet(wifiNetworks') =
          {n \in ToSet(wifiNetworks) : n.address # a} \cup {Network(a, p)}
  BY Changed
<1>6. ToSet(wifiNetworks) = {Network(b, tracked[b]) : b \in Tracked}
  BY DEF IInv, ListedAsTracked
<1>7. \A b \in Tracked : Network(b, tracked[b]).address = b
  BY DEF Network
<1> QED BY <1>3, <1>4, <1>5, <1>6, <1>7 DEF ListedAsTracked

\* A step that leaves the package's networks and the list alone.
LEMMA SameList ==
    ASSUME IInv, UNCHANGED <<tracked, wifiNetworks>>
    PROVE  wifiNetworks' \in Seq(Networks) /\ NothingTwice' /\ ListedAsTracked'
BY DEF IInv, TypeOK, NothingTwice, ListedAsTracked, Tracked, ToSet, IsInjective

\* _joinNetwork hands on an entry of the list, as the package tracks it, with
\* a passphrase that passed the test.
LEMMA JoinFacts ==
    ASSUME IInv, NEW ssid, NEW pass \in PassLengths, JoinStarts(ssid, pass)
    PROVE  LET n == Head(Candidates(ssid))
           IN  /\ joinRequest' = [network |-> n, pass |-> pass]
               /\ n \in Networks
               /\ tracked[n.address] = n.profile
               /\ n.profile.wpa => pass \in 8 .. 63
<1> DEFINE named == {n \in Networks : n.profile.ssid = ssid}
           n == Head(Candidates(ssid))
<1>1. wifiNetworks \in Seq(Networks)
  BY DEF IInv, TypeOK
<1>2. Candidates(ssid) = Filter(wifiNetworks, named)
  BY DEF Candidates
<1> HIDE DEF named
<1>3. /\ Candidates(ssid) \in Seq(Networks)
      /\ ToSet(Candidates(ssid)) = ToSet(wifiNetworks) \cap named
  BY <1>1, <1>2, FilterFacts
<1>4. Candidates(ssid) # <<>>
  BY DEF JoinStarts
<1>5. n \in ToSet(Candidates(ssid))
  BY <1>3, <1>4 DEF ToSet
<1>6. n \in Networks /\ tracked[n.address] = n.profile
  BY <1>3, <1>5, ListEntries
<1>7. /\ joinRequest' = [network |-> n, pass |-> pass]
      /\ ~PassRejected(n, pass) /\ ~PassThrows(n, pass)
  BY DEF JoinStarts
<1>8. ASSUME n.profile.wpa PROVE pass \in 8 .. 63
  <2>1. pass \in Nat
    BY <1>7, <1>8, PassAssumption DEF PassThrows
  <2> QED BY <1>7, <1>8, <2>1 DEF PassRejected, PassThrows
<1> QED BY <1>6, <1>7, <1>8

-----------------------------------------------------------------------------
\* At the start nothing is tracked and nothing is listed.
LEMMA InitIInv == Init => IInv
<1> SUFFICES ASSUME Init PROVE IInv
  OBVIOUS
<1>1. TypeOK
  <2>1. tracked \in [Addresses -> Profiles \cup {None}]
    BY DEF Init
  <2>2. wifiNetworks \in Seq(Networks) /\ timers \subseteq Handles
    BY DEF Init
  <2>3. out \in Kinds /\ sendEvents \in BOOLEAN /\ started \in BOOLEAN
    BY DEF Init, Kinds
  <2>4. libConnected \in BOOLEAN /\ connected \in BOOLEAN
    BY DEF Init
  <2> QED BY <2>1, <2>2, <2>3, <2>4 DEF Init, TypeOK
<1>2. ScanHasTimer
  BY DEF Init, ScanHasTimer
<1>3. NothingTwice /\ ToSet(wifiNetworks) = {}
  BY DEF Init, NothingTwice, IsInjective, ToSet
<1>4. Tracked = {}
  BY DEF Init, Tracked
<1> QED BY <1>1, <1>2, <1>3, <1>4 DEF IInv, ListedAsTracked

\* Whatever happens to other timers, a scan that ends needs none.
LEMMA EndScanFacts ==
    ASSUME IInv, EndScan, timers' \subseteq timers
    PROVE  /\ sendEvents' \in BOOLEAN
           /\ currentScan' \in Handles \cup {None}
           /\ timers' \subseteq Handles
           /\ ScanHasTimer'
BY DEF IInv, TypeOK, ScanHasTimer, EndScan

\* The events of the list.
LEMMA ListStep ==
    ASSUME IInv, NEW a \in Addresses,
           \/ WifiVanished(a)
           \/ \E p \in Profiles : WifiAppeared(a, p) \/ WifiChange(a, p)
    PROVE  IInv'
<1>1. /\ wifiNetworks' \in Seq(Networks)
      /\ NothingTwice' /\ ListedAsTracked'
  BY Appeared, Vanished, Changed, AppearedIsListed, VanishedIsListed,
     ChangedIsListed
<1>2. tracked' \in [Addresses -> Profiles \cup {None}]
  BY DEF IInv, TypeOK, WifiAppeared, WifiVanished, WifiChange
<1>3. /\ UNCHANGED <<assoc, libConnected, adapterVars, started, scanVars>>
      /\ PublishUpdate /\ NoJoin
  BY DEF WifiAppeared, WifiVanished, WifiChange
<1>4. out' \in Kinds /\ told' \in Networks \cup {None}
  BY <1>3 DEF IInv, TypeOK, PublishUpdate, Kinds
<1>5. TypeOK'
  BY <1>1, <1>2, <1>3, <1>4
     DEF IInv, TypeOK, adapterVars, scanVars, NoJoin
<1>6. ScanHasTimer'
  BY <1>3 DEF IInv, ScanHasTimer, scanVars
<1> QED BY <1>1, <1>5, <1>6 DEF IInv

\* The commands that start and stop a scan, and the timer that ends one.
LEMMA ScanStep ==
    ASSUME IInv,
           \/ StartWiFiScan \/ StopWiFiScan
           \/ \E h \in Handles : ScanTimeout(h)
    PROVE  IInv'
<1>1. /\ UNCHANGED <<libVars, adapterVars, started, wifiNetworks>>
      /\ Silent /\ NoJoin
  BY DEF StartWiFiScan, StopWiFiScan, ScanTimeout
<1>2. /\ sendEvents' \in BOOLEAN
      /\ currentScan' \in Handles \cup {None}
      /\ timers' \subseteq Handles
      /\ ScanHasTimer'
  <2>1. CASE StartWiFiScan
    <3>1. PICK h \in Handles \ timers :
              timers' = (timers \ {currentScan}) \cup {h} /\ currentScan' = h
      BY <2>1 DEF StartWiFiScan
    <3>2. h # None
      BY HandlesAssumption
    <3>3. sendEvents' = (sendEvents \/ currentScan = None)
      BY <2>1 DEF StartWiFiScan
    <3>4. sendEvents' = TRUE
      BY <3>3 DEF IInv, TypeOK, ScanHasTimer
    <3> QED BY <3>1, <3>2, <3>4 DEF IInv, TypeOK, ScanHasTimer
  <2>2. CASE StopWiFiScan
    BY <2>2, EndScanFacts DEF StopWiFiScan
  <2>3. CASE \E h \in Handles : ScanTimeout(h)
    BY <2>3, EndScanFacts DEF ScanTimeout
  <2> QED BY <2>1, <2>2, <2>3
<1>3. wifiNetworks' \in Seq(Networks) /\ NothingTwice' /\ ListedAsTracked'
  BY <1>1, SameList DEF libVars
<1>4. TypeOK'
  BY <1>1, <1>2, <1>3
     DEF IInv, TypeOK, libVars, adapterVars, Silent, NoJoin, Kinds
<1> QED BY <1>2, <1>3, <1>4 DEF IInv

\* The platform's request to join a network.
LEMMA JoinStep ==
    ASSUME IInv, NEW p \in Profiles, NEW pass \in PassLengths,
           JoinNetwork(p.ssid, pass)
    PROVE  IInv'
<1>1. UNCHANGED <<libVars, adapterVars, started, wifiNetworks>>
  BY DEF JoinNetwork
<1>2. wifiNetworks' \in Seq(Networks) /\ NothingTwice' /\ ListedAsTracked'
  BY <1>1, SameList DEF libVars
<1>3. /\ joinRequest' \in [network : Networks, pass : PassLengths] \cup {None}
      /\ out' \in Kinds
      /\ UNCHANGED told
      /\ sendEvents' \in BOOLEAN
      /\ currentScan' \in Handles \cup {None}
      /\ timers' \subseteq Handles
      /\ ScanHasTimer'
  <2>1. CASE \/ JoinUnknown(p.ssid) \/ JoinRefused(p.ssid, pass)
             \/ JoinThrows(p.ssid, pass)
    <3>1. /\ NoJoin /\ UNCHANGED scanVars
          /\ WifiError \/ Silent
      BY <2>1 DEF JoinUnknown, JoinRefused, JoinThrows
    <3>2. ScanHasTimer'
      BY <3>1 DEF IInv, ScanHasTimer, scanVars
    <3> QED BY <3>1, <3>2
            DEF IInv, TypeOK, NoJoin, scanVars, WifiError, Silent, Kinds
  <2>2. CASE JoinStarts(p.ssid, pass)
    <3>1. EndScan /\ Silent /\ UNCHANGED timers
      BY <2>2 DEF JoinStarts
    <3>2. joinRequest' \in [network : Networks, pass : PassLengths]
      BY <2>2, JoinFacts
    <3> QED BY <3>1, <3>2, EndScanFacts DEF IInv, TypeOK, Silent, Kinds
  <2> QED BY <2>1, <2>2 DEF JoinNetwork
<1>4. TypeOK'
  BY <1>1, <1>2, <1>3 DEF IInv, TypeOK, libVars, adapterVars
<1> QED BY <1>2, <1>3, <1>4 DEF IInv

\* The announcement of a link, which ends a scan that is running.
LEMMA JoinedStep == ASSUME IInv, WifiJoined PROVE IInv'
<1>1. /\ UNCHANGED <<tracked, assoc, started, wifiNetworks, timers>>
      /\ assoc # None /\ tracked[assoc] # None
      /\ libConnected' = TRUE /\ connected' = TRUE
      /\ network' = Network(assoc, tracked[assoc])
      /\ PublishLink(network') /\ NoJoin
  BY DEF WifiJoined
<1>2. wifiNetworks' \in Seq(Networks) /\ NothingTwice' /\ ListedAsTracked'
  BY <1>1, SameList
<1>3. network' \in Networks
  <2>1. assoc \in Addresses /\ tracked[assoc] \in Profiles
    BY <1>1 DEF IInv, TypeOK
  <2> QED BY <1>1, <2>1, NetworkFacts
<1>4. /\ sendEvents' \in BOOLEAN
      /\ currentScan' \in Handles \cup {None}
      /\ timers' \subseteq Handles
      /\ ScanHasTimer'
  <2>1. CASE currentScan # None
    BY <1>1, <2>1, EndScanFacts DEF WifiJoined
  <2>2. CASE currentScan = None
    BY <1>1, <2>2 DEF WifiJoined, IInv, TypeOK, ScanHasTimer
  <2> QED BY <2>1, <2>2
<1>5. out' \in Kinds /\ told' \in Networks \cup {None}
  BY <1>1, <1>3 DEF PublishLink, Kinds
<1>6. TypeOK'
  BY <1>1, <1>2, <1>3, <1>4, <1>5 DEF IInv, TypeOK, NoJoin
<1> QED BY <1>2, <1>4, <1>6 DEF IInv

\* What is left: the rest of the link, the bus and the interface.
LEMMA OtherStep ==
    ASSUME IInv,
           \/ OnFormer \/ WifiLeft \/ OnError \/ Ready \/ OnConnectedToPlatform
           \/ Disassociate \/ \E a \in Addresses : Associate(a)
    PROVE  IInv'
<1>1. /\ UNCHANGED <<tracked, adapterVars, wifiNetworks, scanVars>>
      /\ NoJoin
  BY DEF OnFormer, WifiLeft, OnError, Ready, OnConnectedToPlatform,
         Disassociate, Associate, libVars
<1>2. wifiNetworks' \in Seq(Networks) /\ NothingTwice' /\ ListedAsTracked'
  BY <1>1, SameList
<1>3. /\ assoc' \in Addresses \cup {None}
      /\ libConnected' \in BOOLEAN
      /\ started' \in BOOLEAN
  BY DEF IInv, TypeOK, OnFormer, WifiLeft, OnError, Ready,
         OnConnectedToPlatform, Disassociate, Associate, libVars
<1>4. out' \in Kinds /\ told' \in Networks \cup {None}
  BY DEF IInv, TypeOK, OnFormer, WifiLeft, OnError, Ready,
         OnConnectedToPlatform, Disassociate, Associate, WifiError, Silent, PublishLink, Kinds
<1>5. TypeOK'
  BY <1>1, <1>2, <1>3, <1>4
     DEF IInv, TypeOK, adapterVars, scanVars, NoJoin
<1>6. ScanHasTimer'
  BY <1>1 DEF IInv, ScanHasTimer, scanVars
<1> QED BY <1>2, <1>5, <1>6 DEF IInv

\* A stuttering step.
LEMMA StutterStep == ASSUME IInv, UNCHANGED vars PROVE IInv'
<1>1. UNCHANGED <<tracked, assoc, libConnected, connected, network, started,
                  wifiNetworks, sendEvents, currentScan, timers, out,
                  joinRequest, told>>
  BY DEF vars, libVars, adapterVars, scanVars
<1>2. wifiNetworks' \in Seq(Networks) /\ NothingTwice' /\ ListedAsTracked'
  BY <1>1, SameList
<1>3. TypeOK'
  BY <1>1 DEF IInv, TypeOK
<1>4. ScanHasTimer'
  BY <1>1 DEF IInv, ScanHasTimer
<1> QED BY <1>2, <1>3, <1>4 DEF IInv

\* Every step keeps the inductive invariant.
LEMMA StepIInv == IInv /\ [Next]_vars => IInv'
<1> SUFFICES ASSUME IInv, [Next]_vars PROVE IInv'
  OBVIOUS
<1>1. CASE LibraryEvent
  BY <1>1, ListStep, JoinedStep, OtherStep DEF LibraryEvent
<1>2. CASE PlatformCommand
  BY <1>2, ScanStep, JoinStep, OtherStep DEF PlatformCommand
<1>3. CASE \/ Ready \/ Disassociate
           \/ \E a \in Addresses : Associate(a)
  BY <1>3, OtherStep
<1>4. CASE \E h \in Handles : ScanTimeout(h)
  BY <1>4, ScanStep
<1>5. CASE UNCHANGED vars
  BY <1>5, StutterStep
<1> QED BY <1>1, <1>2, <1>3, <1>4, <1>5 DEF Next

\* The inductive invariant holds of every reachable state.
THEOREM WifiInvariant == Spec => []IInv
BY InitIInv, StepIInv, PTL DEF Spec

-----------------------------------------------------------------------------
\* The controller, the adapter and the package stay within their types.
THEOREM WifiTypeCorrect == Spec => []TypeOK
<1>1. IInv => TypeOK
  BY DEF IInv
<1> QED BY <1>1, WifiInvariant, PTL

\* A running scan has a timer that will end it (startWiFiScan restarts the
\* timer, stopWiFiScan leaves it).
THEOREM RunningScanHasTimer == Spec => []ScanHasTimer
<1>1. IInv => ScanHasTimer
  BY DEF IInv
<1> QED BY <1>1, WifiInvariant, PTL

\* The list is a numbering of its entries.
LEMMA Counted == ASSUME IInv PROVE ListMatchesTracked
<1> DEFINE listed == ToSet(wifiNetworks)
<1>1. listed = {Network(a, tracked[a]) :
                    a \in {b \in Addresses : tracked[b] # None}}
  BY DEF IInv, ListedAsTracked, Tracked
<1>2. wifiNetworks \in Seq(Networks) /\ IsInjective(wifiNetworks)
  BY DEF IInv, TypeOK, NothingTwice
<1>3. Len(wifiNetworks) \in Nat /\ DOMAIN wifiNetworks = 1 .. Len(wifiNetworks)
  BY <1>2
<1>4. wifiNetworks \in [1 .. Len(wifiNetworks) -> listed]
  BY <1>2, <1>3 DEF ToSet
<1>5. \A n \in listed : \E i \in 1 .. Len(wifiNetworks) : wifiNetworks[i] = n
  BY <1>3 DEF ToSet
<1>6. wifiNetworks \in Bijection(1 .. Len(wifiNetworks), listed)
  BY <1>2, <1>4, <1>5 DEF Bijection, Injection, Surjection
<1>7. Cardinality(listed) = Len(wifiNetworks)
  <2> HIDE DEF listed
  <2> QED BY <1>3, <1>6, FS_CountingElements DEF ExistsBijection
<1> QED BY <1>1, <1>7 DEF ListMatchesTracked

\* The controller's list is what the package tracks, each network once.
THEOREM ListIsTracked == Spec => []ListMatchesTracked
BY Counted, WifiInvariant, PTL

\* A join is of a network that is still tracked, under its present profile,
\* and with a passphrase of 8 to 63 characters if it needs one.
THEOREM JoinsAreValid == Spec => JoinIsCurrentAndValid
<1> DEFINE Valid == joinRequest' # None =>
               LET n == joinRequest'.network
               IN  /\ tracked[n.address] = n.profile
                   /\ n.profile.wpa => joinRequest'.pass \in 8 .. 63
<1>1. IInv /\ [Next]_vars => [Valid]_vars
  <2> SUFFICES ASSUME IInv, Next, joinRequest' # None PROVE Valid
    OBVIOUS
  <2>1. PICK p \in Profiles, pass \in PassLengths : JoinStarts(p.ssid, pass)
    BY DEF Next, LibraryEvent, PlatformCommand, NoJoin,
           WifiAppeared, WifiVanished, WifiChange, WifiJoined, OnFormer,
           WifiLeft, OnError, StartWiFiScan, StopWiFiScan, ScanTimeout,
           JoinNetwork, JoinUnknown, JoinRefused, JoinThrows, Ready,
           OnConnectedToPlatform, Associate, Disassociate
  <2> QED BY <2>1, JoinFacts
<1> QED BY <1>1, WifiInvariant, PTL DEF Spec, JoinIsCurrentAndValid

-----------------------------------------------------------------------------
(* The refinement of NetworkView.                                          *)

\* An event of the package is the step of the view of the same name, and
\* every other step leaves the view alone.
LEMMA StepRefines == IInv /\ [Next]_vars => [View!Next]_(ToSet(wifiNetworks))
<1> SUFFICES ASSUME IInv, [Next]_vars,
                    ToSet(wifiNetworks') # ToSet(wifiNetworks)
             PROVE  View!Next
  BY DEF ToSet
<1>1. PICK a \in Addresses :
          \/ WifiVanished(a)
          \/ \E p \in Profiles : WifiAppeared(a, p) \/ WifiChange(a, p)
  BY DEF Next, LibraryEvent, PlatformCommand, vars, WifiJoined, OnFormer,
         WifiLeft, OnError, StartWiFiScan, StopWiFiScan, ScanTimeout, JoinNetwork,
         Ready, OnConnectedToPlatform, Associate, Disassociate
<1>2. View!Seen(a) <=> tracked[a] # None
  BY AddressListed DEF View!Seen
<1>3. CASE WifiVanished(a)
  <2>1. ToSet(wifiNetworks') = View!Without(a)
    BY <1>3, Vanished DEF View!Without
  <2>2. View!Seen(a)
    BY <1>2, <1>3 DEF WifiVanished
  <2> QED BY <2>1, <2>2 DEF View!Next, View!Vanish
<1>4. ASSUME NEW p \in Profiles, WifiAppeared(a, p) PROVE View!Next
  <2>1. ToSet(wifiNetworks') = ToSet(wifiNetworks) \cup {View!Network(a, p)}
    BY <1>4, Appeared DEF View!Network, Network
  <2>2. ~View!Seen(a)
    BY <1>2, <1>4 DEF WifiAppeared
  <2> QED BY <2>1, <2>2 DEF View!Next, View!Appear
<1>5. ASSUME NEW p \in Profiles, WifiChange(a, p) PROVE View!Next
  <2>1. ToSet(wifiNetworks') = View!Without(a) \cup {View!Network(a, p)}
    BY <1>5, Changed DEF View!Without, View!Network, Network
  <2>2. View!Seen(a)
    BY <1>2, <1>5 DEF WifiChange
  <2> QED BY <2>1, <2>2 DEF View!Next, View!Change
<1> QED BY <1>1, <1>3, <1>4, <1>5

\* The list the platform sees implements the view it is promised.
THEOREM ListImplementsView == Spec => ImplementsView
<1>1. Init => View!Init
  BY DEF Init, View!Init, ToSet
<1> QED BY <1>1, StepRefines, WifiInvariant, PTL
        DEF Spec, ImplementsView, View!Spec
=============================================================================

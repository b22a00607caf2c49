--------------------------- MODULE FormatsProofs ----------------------------
(***************************************************************************)
(* Proofs about the parsers and the functions on characteristics, for any  *)
(* advertisements, texts, answers, values and serial numbers. A behaviour  *)
(* is one call, so each property is a fact about one operator: Computed    *)
(* says which operator gave the output, and lemmas say what it gives.      *)
(***************************************************************************)
EXTENDS Formats, ListProofs, SequenceTheorems, FunctionTheorems

\* The output is the result of the function that was called.
Computed ==
    \/ \E d \in Advertisements :
           /\ input = [kind |-> "device", device |-> d]
           /\ output \in {<<>>, <<Resolve(d)>>}
    \/ \E answers \in [InfoFields -> Answers] :
           /\ input = [kind |-> "info", answers |-> answers]
           /\ output \in {<<>>, <<[m \in Managers |-> DeviceInfo(m, answers)]>>}
    \/ \E c \in Configurations :
           /\ input = [kind |-> "configuration", answers |-> c]
           /\ output \in {<<>>, <<[m \in Managers |-> Configuration(m, c)]>>}
    \/ \E s \in HexSerials, v \in Values :
           /\ input = [kind |-> "write", serial |-> s, written |-> v]
           /\ output \in {<<>>, <<Write(s, v.type, v.value)>>}
    \/ \E i \in InterfaceLists :
           /\ input = [kind |-> "interfaces", list |-> i]
           /\ output \in {<<>>, <<A!IpAddresses(i)>>}

\* No call has been made at the start.
LEMMA InitComputed == Init => Computed
<1> SUFFICES ASSUME Init PROVE Computed
  OBVIOUS
<1>1. ASSUME NEW f \in InfoFields, NEW a \in Answers, NEW b \in Answers
      PROVE  [g \in InfoFields |-> IF g = f THEN a ELSE b] \in [InfoFields -> Answers]
  OBVIOUS
<1>2. output = <<>>
  BY DEF Init
<1> QED BY <1>1, <1>2 DEF Init, Computed

\* A step makes the call that input describes, or none.
LEMMA NextComputed == Computed /\ [Next]_vars => Computed'
<1> SUFFICES ASSUME Computed, [Next]_vars PROVE Computed'
  OBVIOUS
<1>1. CASE Discover
  <2>1. PICK d \in Advertisements : input = [kind |-> "device", device |-> d]
    BY <1>1 DEF Computed, Discover, Call
  <2>2. output' = <<Resolve(d)>> /\ input' = input
    BY <1>1, <2>1 DEF Discover, Call
  <2> QED BY <2>1, <2>2 DEF Computed
<1>2. CASE ReadDeviceInfo
  <2>1. PICK a \in [InfoFields -> Answers] : input = [kind |-> "info", answers |-> a]
    BY <1>2 DEF Computed, ReadDeviceInfo, Call
  <2>2. /\ output' = <<[m \in Managers |-> DeviceInfo(m, a)]>>
        /\ input' = input
    BY <1>2, <2>1 DEF ReadDeviceInfo, Call
  <2> QED BY <2>1, <2>2 DEF Computed
<1>3. CASE ReadConfiguration
  <2>1. PICK c \in Configurations : input = [kind |-> "configuration", answers |-> c]
    BY <1>3 DEF Computed, ReadConfiguration, Call
  <2>2. /\ output' = <<[m \in Managers |-> Configuration(m, c)]>>
        /\ input' = input
    BY <1>3, <2>1 DEF ReadConfiguration, Call
  <2> QED BY <2>1, <2>2 DEF Computed
<1>4. CASE WriteValue
  <2>1. PICK s \in HexSerials, v \in Values :
            input = [kind |-> "write", serial |-> s, written |-> v]
    BY <1>4 DEF Computed, WriteValue, Call
  <2>2. output' = <<Write(s, v.type, v.value)>> /\ input' = input
    BY <1>4, <2>1 DEF WriteValue, Call
  <2> QED BY <2>1, <2>2 DEF Computed
<1>5. CASE PublishInfo
  <2>1. PICK i \in InterfaceLists : input = [kind |-> "interfaces", list |-> i]
    BY <1>5 DEF Computed, PublishInfo, Call
  <2>2. output' = <<A!IpAddresses(i)>> /\ input' = input
    BY <1>5, <2>1 DEF PublishInfo, Call
  <2> QED BY <2>1, <2>2 DEF Computed
<1>6. CASE UNCHANGED vars
  BY <1>6 DEF vars, Computed
<1> QED BY <1>1, <1>2, <1>3, <1>4, <1>5, <1>6 DEF Next

\* Every output is what the function called gives for its arguments: the
\* inductive invariant behind all the properties.
THEOREM OutputIsComputed == Spec => []Computed
BY InitComputed, NextComputed, PTL DEF Spec

\* The same for each kind of call: the arguments and what was computed.
LEMMA DeviceCall ==
    ASSUME Computed, Called("device")
    PROVE  input.device \in Advertisements /\ Result = Resolve(input.device)
BY DEF Computed, Called, Result

\* The texts that were read.
LEMMA InfoCall ==
    ASSUME Computed, Called("info")
    PROVE  /\ input.answers \in [InfoFields -> Answers]
           /\ Result = [m \in Managers |-> DeviceInfo(m, input.answers)]
BY DEF Computed, Called, Result

\* The configuration that was read.
LEMMA ConfigurationCall ==
    ASSUME Computed, Called("configuration")
    PROVE  /\ input.answers \in Configurations
           /\ Result = [m \in Managers |-> Configuration(m, input.answers)]
BY DEF Computed, Called, Result

\* The value that was written.
LEMMA WriteCall ==
    ASSUME Computed, Called("write")
    PROVE  /\ input.serial \in HexSerials
           /\ input.written \in Values
           /\ Result = Write(input.serial, input.written.type, input.written.value)
BY DEF Computed, Called, Result

-----------------------------------------------------------------------------
(* Advertisements                                                          *)

\* What the resolver finds are the models of the parsers, each of its type.
LEMMA ResolvedModels ==
    ASSUME NEW dev, ~SensoroThrows(dev), NEW i \in DOMAIN Resolve(dev)
    PROVE  LET m == Resolve(dev)[i]
           IN  \/ /\ m.type = "iBeacon" /\ m = IBeacon(dev)
                  /\ IsIBeacon(dev.manufacturerData)
               \/ /\ m.type = "blueSenseBeacon" /\ m.beacon = IBeacon(dev)
                  /\ IsIBeacon(dev.manufacturerData)
               \/ m.type = "sensoroYunziBeacon"
<1> DEFINE x == ParseBlueSense(dev)
           y == ParseIBeacon(dev)
           z == ParseSensoro(dev)
           b == [type |-> "blueSenseBeacon", serial |-> dev.name.serial,
                 beacon |-> IBeacon(dev)]
           isIBeacon == IsIBeacon(dev.manufacturerData)
<1>1. x = <<>> \/ (isIBeacon /\ x = <<b>>)
  BY DEF ParseBlueSense
<1>2. y = <<>> \/ (isIBeacon /\ y = <<IBeacon(dev)>>)
  BY DEF ParseIBeacon
<1>3. PICK m : m.type = "sensoroYunziBeacon" /\ z \in {<<>>, <<m>>}
  <2>1. CASE Sensor(dev) = <<>>
    <3>1. z = <<>>
      BY <2>1 DEF ParseSensoro
    <3>2. [type |-> "sensoroYunziBeacon"].type = "sensoroYunziBeacon"
      OBVIOUS
    <3> QED BY <3>1, <3>2
  <2>2. CASE Sensor(dev) # <<>>
    <3>1. \E m : z = <<m>> /\ m.type = "sensoroYunziBeacon"
      BY <2>2 DEF ParseSensoro
    <3> QED BY <3>1
  <2> QED BY <2>1, <2>2
<1>4. Resolve(dev) = x \o y \o z
  BY DEF Resolve
<1>5. b.type = "blueSenseBeacon" /\ b.beacon = IBeacon(dev)
  OBVIOUS
<1>6. IBeacon(dev).type = "iBeacon"
  BY DEF IBeacon
<1> HIDE DEF x, y, z, b, isIBeacon
<1>7. \/ Resolve(dev)[i] = m
      \/ isIBeacon /\ Resolve(dev)[i] \in {b, IBeacon(dev)}
  BY <1>1, <1>2, <1>3, <1>4
<1> QED BY <1>3, <1>5, <1>6, <1>7 DEF isIBeacon

\* Every iBeacon that is reported is one the advertisement encodes.
LEMMA ReportedIBeacons ==
    ASSUME Computed, Called("device"), NEW m \in IBeacons
    PROVE  /\ input.device \in Advertisements
           /\ IsIBeacon(input.device.manufacturerData)
           /\ m = IBeacon(input.device)
<1> DEFINE dev == input.device
<1>1. dev \in Advertisements /\ Result = Resolve(dev)
  BY DeviceCall
<1>2. PICK i \in DOMAIN Result :
          \/ Result[i].type = "iBeacon" /\ m = Result[i]
          \/ Result[i].type = "blueSenseBeacon" /\ m = Result[i].beacon
  BY DEF IBeacons, Found
<1>3. ~SensoroThrows(dev)
  <2> SUFFICES ASSUME SensoroThrows(dev) PROVE FALSE
    OBVIOUS
  <2>1. Result = <<[type |-> "thrown"]>>
    BY <1>1 DEF Resolve, Thrown
  <2>2. Result[i].type = "thrown"
    BY <2>1
  <2> QED BY <1>2, <2>2
<1>4. i \in DOMAIN Resolve(dev)
  BY <1>1
<1> HIDE DEF dev
<1> QED BY <1>1, <1>2, <1>3, <1>4, ResolvedModels DEF dev

\* What a byte and two bytes are read as is what they are written as.
LEMMA ReadIsWritten ==
    ASSUME NEW h \in 0 .. 255, NEW l \in 0 .. 255
    PROVE  /\ (256 * h + l) \div 256 = h
           /\ (256 * h + l) % 256 = l
           /\ (IF l < 128 THEN l ELSE l - 256) % 256 = l
<1>1. (256 * h + l) \div 256 = h
  OBVIOUS
<1>2. (256 * h + l) % 256 = l
  OBVIOUS
<1>3. CASE l < 128
  BY <1>1, <1>2, <1>3
<1>4. CASE l >= 128
  <2>1. (l - 256) % 256 = l
    BY <1>4
  <2> QED BY <1>1, <1>2, <1>4, <2>1
<1> QED BY <1>3, <1>4

\* Four bytes cut out of a buffer, and one.
LEMMA CutOut ==
    ASSUME NEW b \in Bytes, NEW m \in 1 .. Len(b)
    PROVE  /\ SubSeq(b, m, m) = <<b[m]>>
           /\ m + 3 <= Len(b) =>
                  SubSeq(b, m, m + 3) = <<b[m], b[m + 1], b[m + 2], b[m + 3]>>
<1>1. b \in Seq(0 .. 255) /\ Len(b) \in Nat
  BY LenProperties DEF Bytes
<1>2. \A i \in 1 .. Len(b) : b[i] \in 0 .. 255
  BY <1>1, ElementOfSeq
<1>3. SubSeq(b, m, m) = <<b[m]>>
  <2>1. /\ SubSeq(b, m, m) \in Seq(0 .. 255) /\ Len(SubSeq(b, m, m)) = 1
        /\ SubSeq(b, m, m)[1] = b[m]
    <3>1. m \in Int /\ \A i \in m .. m : b[i] \in 0 .. 255
      BY <1>1, <1>2
    <3> QED BY <3>1, SubSeqProperties
  <2> DEFINE s == SubSeq(b, m, m)
             t == <<b[m]>>
  <2>2. t \in Seq(0 .. 255) /\ Len(t) = 1 /\ t[1] = b[m]
    BY <1>2
  <2>3. \A i \in 1 .. 1 : s[i] = t[i]
    BY <2>1, <2>2
  <2> HIDE DEF s, t
  <2>4. s = t
    BY <2>1, <2>2, <2>3, SeqEqual DEF s
  <2> QED BY <2>4 DEF s, t
<1>4. ASSUME m + 3 <= Len(b)
      PROVE  SubSeq(b, m, m + 3) = <<b[m], b[m + 1], b[m + 2], b[m + 3]>>
  <2> DEFINE s == SubSeq(b, m, m + 3)
             t == <<b[m], b[m + 1], b[m + 2], b[m + 3]>>
  <2>1. \A i \in m .. m + 3 : b[i] \in 0 .. 255
    <3> SUFFICES ASSUME NEW i \in m .. m + 3 PROVE b[i] \in 0 .. 255
      OBVIOUS
    <3>1. i \in 1 .. Len(b)
      BY <1>1, <1>4
    <3> QED BY <1>2, <3>1
  <2>2. /\ s \in Seq(0 .. 255) /\ Len(s) = 4
        /\ \A i \in 1 .. 4 : s[i] = b[m + i - 1]
    BY <1>1, <2>1, SubSeqProperties
  <2>3. t \in Seq(0 .. 255) /\ Len(t) = 4
    BY <1>1, <2>1
  <2>4. s[1] = b[m] /\ s[2] = b[m + 1] /\ s[3] = b[m + 2] /\ s[4] = b[m + 3]
    BY <1>1, <2>2
  <2>5. \A i \in 1 .. 4 : s[i] = t[i]
    BY <2>4
  <2> HIDE DEF s, t
  <2>6. s = t
    BY <2>2, <2>3, <2>5, SeqEqual
  <2> QED BY <2>6 DEF s, t
<1> QED BY <1>3, <1>4

\* What is read from an iBeacon frame and written down again is the frame.
LEMMA Reencoded ==
    ASSUME NEW dev, dev.manufacturerData \in Bytes,
           IsIBeacon(dev.manufacturerData)
    PROVE  Encoded(IBeacon(dev)) = SubSeq(dev.manufacturerData, 1, 25)
<1> DEFINE b == dev.manufacturerData
           m == IBeacon(dev)
           u == SubSeq(b, 5, 20)
<1>1. b \in Bytes /\ b \in Seq(0 .. 255) /\ Len(b) >= 25
  BY DEF Bytes, IsIBeacon
<1>2. b[1] + 256 * b[2] = 76 /\ b[3] = 2 /\ b[4] = 21
  BY DEF IsIBeacon, UInt16LE, UInt8
<1>3. /\ m.uuid = u
      /\ m.major = 256 * b[21] + b[22]
      /\ m.minor = 256 * b[23] + b[24]
      /\ m.measuredPower = IF b[25] < 128 THEN b[25] ELSE b[25] - 256
  BY DEF IBeacon, UInt16BE, Int8, UInt8
<1> HIDE DEF b, m
<1>4. Len(b) \in Nat
  BY <1>1, LenProperties
<1>5. \A i \in 1 .. 25 : i \in 1 .. Len(b) /\ b[i] \in 0 .. 255
  <2> SUFFICES ASSUME NEW i \in 1 .. 25
               PROVE  i \in 1 .. Len(b) /\ b[i] \in 0 .. 255
    OBVIOUS
  <2>1. i \in 1 .. Len(b)
    BY <1>1, <1>4
  <2> QED BY <1>1, <2>1, ElementOfSeq
<1>6. b[1] = 76 /\ b[2] = 0 /\ b[3] = 2 /\ b[4] = 21
  <2>1. ASSUME NEW l \in 0 .. 255, NEW h \in 0 .. 255, l + 256 * h = 76
        PROVE  l = 76 /\ h = 0
    BY <2>1
  <2>2. b[1] \in 0 .. 255 /\ b[2] \in 0 .. 255
    BY <1>5
  <2>3. b[1] = 76 /\ b[2] = 0
    BY <1>2, <2>1, <2>2
  <2> QED BY <1>2, <2>3
<1>7. /\ m.major \div 256 = b[21] /\ m.major % 256 = b[22]
      /\ m.minor \div 256 = b[23] /\ m.minor % 256 = b[24]
      /\ m.measuredPower % 256 = b[25]
  <2>1. /\ b[21] \in 0 .. 255 /\ b[22] \in 0 .. 255 /\ b[23] \in 0 .. 255
        /\ b[24] \in 0 .. 255 /\ b[25] \in 0 .. 255
    BY <1>5
  <2> QED BY <1>3, <2>1, ReadIsWritten
<1>8. Encoded(m) = <<76, 0, 2, 21>> \o u \o <<b[21], b[22], b[23], b[24]>>
                       \o <<b[25]>>
  BY <1>3, <1>7 DEF Encoded
<1>9. /\ SubSeq(b, 1, 4) = <<76, 0, 2, 21>>
      /\ SubSeq(b, 21, 24) = <<b[21], b[22], b[23], b[24]>>
      /\ SubSeq(b, 25, 25) = <<b[25]>>
  <2>1. 1 \in 1 .. Len(b) /\ 21 \in 1 .. Len(b) /\ 25 \in 1 .. Len(b)
    BY <1>5
  <2>2. SubSeq(b, 1, 1 + 3) = <<b[1], b[1 + 1], b[1 + 2], b[1 + 3]>>
    BY <1>1, <1>4, <2>1, CutOut
  <2>3. SubSeq(b, 21, 21 + 3) = <<b[21], b[21 + 1], b[21 + 2], b[21 + 3]>>
    BY <1>1, <1>4, <2>1, CutOut
  <2>4. SubSeq(b, 25, 25) = <<b[25]>>
    BY <1>1, <2>1, CutOut
  <2> QED BY <1>6, <2>2, <2>3, <2>4
<1>10. SubSeq(b, 1, 4) \o u = SubSeq(b, 1, 20)
  BY <1>1, <1>4, ConcatAdjacentSubSeq
<1>11. SubSeq(b, 1, 20) \o SubSeq(b, 21, 24) = SubSeq(b, 1, 24)
  BY <1>1, <1>4, ConcatAdjacentSubSeq
<1>12. SubSeq(b, 1, 24) \o SubSeq(b, 25, 25) = SubSeq(b, 1, 25)
  BY <1>1, <1>4, ConcatAdjacentSubSeq
<1> QED BY <1>8, <1>9, <1>10, <1>11, <1>12 DEF b, m

\* The iBeacon that is reported is the one that was received: nothing the
\* format defines is lost or altered by IBeacon.parse().
THEOREM IBeaconsReencode == Spec => []IBeaconReencodes
<1>1. Computed => IBeaconReencodes
  <2> SUFFICES ASSUME Computed, Called("device"), NEW m \in IBeacons
               PROVE  Encoded(m) = SubSeq(input.device.manufacturerData, 1, 25)
    BY DEF IBeaconReencodes
  <2>1. /\ input.device \in Advertisements
        /\ IsIBeacon(input.device.manufacturerData)
        /\ m = IBeacon(input.device)
    BY ReportedIBeacons
  <2>2. input.device.manufacturerData \in Bytes
    BY <2>1, AdvertisementsAssumption
  <2> QED BY <2>1, <2>2, Reencoded
<1> QED BY <1>1, OutputIsComputed, PTL

-----------------------------------------------------------------------------
\* For a measured power below zero, what is received better is not below a
\* limit that what is received worse is above.
LEMMA BelowIsMonotonic ==
    ASSUME NEW power \in Int, power < 0, NEW limit \in Int,
           NEW r \in Int, NEW s \in Int, r <= s, Below(r, power, limit)
    PROVE  Below(s, power, limit)
<1> DEFINE bound == limit * power
<1>1. 1000 * r > bound
  BY DEF Below
<1>2. bound \in Int
  OBVIOUS
<1> HIDE DEF bound
<1>3. 1000 * s > bound
  BY <1>1, <1>2
<1> QED BY <1>3 DEF Below, bound

\* The zones of ibeacon.js in their order.
LEMMA ZonesAreOrdered ==
    Zone("immediate") = 1 /\ Zone("near") = 2 /\ Zone("far") = 3
<1>1. DOMAIN Zones = 1 .. 3
  BY DEF Zones
<1>2. Zones[1] = "immediate" /\ Zones[2] = "near" /\ Zones[3] = "far"
  BY DEF Zones
<1>3. \A i \in 1 .. 3 : i = 1 \/ i = 2 \/ i = 3
  OBVIOUS
<1> HIDE DEF Zones
<1>4. Zone("immediate") = 1
  BY <1>1, <1>2, <1>3 DEF Zone
<1>5. Zone("near") = 2
  BY <1>1, <1>2, <1>3 DEF Zone
<1>6. Zone("far") = 3
  BY <1>1, <1>2, <1>3 DEF Zone
<1> QED BY <1>4, <1>5, <1>6

\* An iBeacon that is received better is not reported as farther away.
THEOREM LouderIsNearer == Spec => []NearerIsLouder
<1>1. Computed => NearerIsLouder
  <2> SUFFICES ASSUME Computed, Called("device"), NEW m \in IBeacons,
                      m.measuredPower < 0, NEW r \in input.device.rssi .. 0
               PROVE  Zone(Proximity(r, m.measuredPower)) <= Zone(m.proximity)
    BY DEF NearerIsLouder
  <2> DEFINE dev == input.device
             power == m.measuredPower
  <2>1. /\ dev \in Advertisements
        /\ IsIBeacon(dev.manufacturerData)
        /\ m = IBeacon(dev)
    BY ReportedIBeacons
  <2>2. dev.rssi \in Int /\ r \in Int /\ dev.rssi <= r
    <3>1. dev.rssi \in -128 .. 127
      BY <2>1, AdvertisementsAssumption
    <3>2. r \in dev.rssi .. 0
      OBVIOUS
    <3> HIDE DEF dev
    <3> QED BY <3>1, <3>2
  <2>3. m.proximity = Proximity(dev.rssi, power)
    BY <2>1 DEF IBeacon
  <2>4. power \in Int
    <3>1. dev.manufacturerData \in Seq(0 .. 255)
      BY <2>1, AdvertisementsAssumption DEF Bytes
    <3>2. dev.manufacturerData[25] \in 0 .. 255
      <4>1. 25 \in 1 .. Len(dev.manufacturerData)
        BY <2>1, <3>1, LenProperties DEF IsIBeacon
      <4> QED BY <3>1, <4>1, ElementOfSeq
    <3>3. power = IF dev.manufacturerData[25] < 128
                  THEN dev.manufacturerData[25]
                  ELSE dev.manufacturerData[25] - 256
      BY <2>1 DEF IBeacon, Int8, UInt8
    <3> QED BY <3>2, <3>3
  <2> HIDE DEF dev, power
  <2>5. Below(dev.rssi, power, 814) => Below(r, power, 814)
    BY <2>2, <2>4, BelowIsMonotonic DEF power
  <2>6. Below(dev.rssi, power, 1372) => Below(r, power, 1372)
    BY <2>2, <2>4, BelowIsMonotonic DEF power
  <2>7. Zone(Proximity(r, power)) <= Zone(Proximity(dev.rssi, power))
    BY <2>5, <2>6, ZonesAreOrdered DEF Proximity
  <2> QED BY <2>3, <2>7 DEF power
<1> QED BY <1>1, OutputIsComputed, PTL

-----------------------------------------------------------------------------
\* What is not empty has a first entry, and it is an entry of the list.
LEMMA FirstIsEntry ==
    ASSUME NEW U, NEW list \in Seq(U), NEW S, Filter(list, S) # <<>>
    PROVE  Head(Filter(list, S)) \in S /\ Head(Filter(list, S)) \in ToSet(list)
<1> DEFINE kept == Filter(list, S)
<1>1. kept \in Seq(U) /\ ToSet(kept) = ToSet(list) \cap S
  BY FilterFacts
<1> HIDE DEF kept
<1>2. kept # <<>> => Head(kept) = kept[1] /\ 1 \in DOMAIN kept
  BY <1>1, LenProperties, EmptySeq
<1>3. kept # <<>> => Head(kept) \in ToSet(kept)
  BY <1>2 DEF ToSet
<1> QED BY <1>1, <1>3 DEF kept

\* The first frame of a kind is a frame of that kind.
LEMMA FirstFrame ==
    ASSUME NEW dev \in Advertisements, NEW uuid, Frames(dev, uuid) # <<>>
    PROVE  LET f == Head(Frames(dev, uuid))
           IN  /\ f.uuid = uuid
               /\ f.data \in Bytes
               /\ \E i \in DOMAIN dev.serviceData : f = dev.serviceData[i]
<1> DEFINE list == dev.serviceData
           U == [uuid : STRING, data : Bytes]
           S == {s \in ToSet(list) : s.uuid = uuid}
           f == Head(Frames(dev, uuid))
<1>1. list \in Seq(U)
  BY AdvertisementsAssumption
<1>2. Frames(dev, uuid) = Filter(list, S)
  BY DEF Frames
<1>3. f \in S
  <2> HIDE DEF S, list, U
  <2> QED BY <1>1, <1>2, FirstIsEntry
<1>4. PICK i \in DOMAIN list : f = list[i]
  BY <1>3 DEF ToSet
<1>5. list[i] \in U
  <2> HIDE DEF list, U
  <2> QED BY <1>1, LenProperties, ElementOfSeq
<1> QED BY <1>3, <1>4, <1>5

\* Every byte the sensor parser reads is there in a well formed frame.
LEMMA WellFormedIsReadable ==
    ASSUME NEW dev \in Advertisements,
           \A i \in DOMAIN dev.serviceData : WellFormed(dev.serviceData[i])
    PROVE  ~SensoroThrows(dev)
<1>1. ASSUME Sensor(dev) # <<>>
      PROVE  SensorReadable(Head(Sensor(dev)).data)
  <2> DEFINE f == Head(Frames(dev, "81e7"))
  <2>1. f.uuid = "81e7" /\ f.data \in Bytes /\ WellFormed(f)
    BY <1>1, FirstFrame DEF Sensor
  <2>2. Len(f.data) = 23
    BY <2>1 DEF WellFormed
  <2> HIDE DEF f
  <2>3. SensorReadable(f.data)
    BY <2>2 DEF SensorReadable, Readable
  <2> QED BY <2>3 DEF f, Sensor
<1>2. ASSUME Eddystone(dev) # <<>>
      PROVE  EddystoneReadable(Head(Eddystone(dev)).data)
  <2> DEFINE f == Head(Frames(dev, "feaa"))
  <2>1. f.uuid = "feaa" /\ f.data \in Bytes /\ WellFormed(f)
    BY <1>2, FirstFrame DEF Eddystone
  <2>2. /\ f.data # <<>>
        /\ UInt8(f.data, 0) = EddystoneUid => Len(f.data) = 20
        /\ UInt8(f.data, 0) = EddystoneTlm => Len(f.data) = 14
    BY <2>1 DEF WellFormed
  <2>3. Len(f.data) \in Nat \ {0}
    BY <2>1, <2>2, EmptySeq DEF Bytes
  <2> HIDE DEF f
  <2>4. Readable(f.data, 0, 1)
    BY <2>3 DEF Readable
  <2>5. ASSUME UInt8(f.data, 0) = EddystoneUid PROVE Readable(f.data, 1, 1)
    <3>1. Len(f.data) = 20
      BY <2>2, <2>5
    <3> QED BY <3>1 DEF Readable
  <2>6. ASSUME UInt8(f.data, 0) = EddystoneTlm PROVE Readable(f.data, 4, 2)
    <3>1. Len(f.data) = 14
      BY <2>2, <2>6
    <3> QED BY <3>1 DEF Readable
  <2>7. EddystoneReadable(f.data)
    BY <2>4, <2>5, <2>6 DEF EddystoneReadable
  <2> QED BY <2>7 DEF f, Eddystone
<1> QED BY <1>1, <1>2 DEF SensoroThrows

\* Service data of the lengths of their formats makes no parser throw.
THEOREM WellFormedIsParsed == Spec => []WellFormedNeverThrows
<1>1. Computed => WellFormedNeverThrows
  <2> SUFFICES ASSUME Computed, Called("device"), Result = Thrown,
                      \A i \in DOMAIN input.device.serviceData :
                          WellFormed(input.device.serviceData[i])
               PROVE  FALSE
    BY DEF WellFormedNeverThrows
  <2> DEFINE dev == input.device
  <2>1. dev \in Advertisements /\ Result = Resolve(dev)
    BY DeviceCall
  <2> HIDE DEF dev
  <2>2. ~SensoroThrows(dev)
    BY <2>1, WellFormedIsReadable DEF dev
  <2>3. 1 \in DOMAIN Resolve(dev) /\ Resolve(dev)[1].type = "thrown"
    BY <2>1 DEF Thrown
  <2>4. LET m == Resolve(dev)[1]
        IN  m.type \in {"iBeacon", "blueSenseBeacon", "sensoroYunziBeacon"}
    BY <2>2, <2>3, ResolvedModels
  <2> QED BY <2>3, <2>4
<1> QED BY <1>1, OutputIsComputed, PTL

-----------------------------------------------------------------------------
(* Characteristics                                                         *)

\* A sequence is its first element followed by the rest.
LEMMA FirstAndRest ==
    ASSUME NEW t \in Seq(32 .. 126), t # <<>>
    PROVE  /\ t[1] \in 32 .. 126
           /\ Len(Tail(t)) = Len(t) - 1
           /\ t = <<t[1]>> \o Tail(t)
<1> DEFINE r == Tail(t)
           p == <<t[1]>>
           b == p \o r
<1>1. t \in Seq(Nat) /\ Len(t) \in Nat
  <2>1. 32 .. 126 \subseteq Nat
    OBVIOUS
  <2> QED BY <2>1, SeqMonotonic, LenProperties
<1>2. 1 \in 1 .. Len(t)
  BY <1>1, EmptySeq
<1>3. t[1] \in 32 .. 126 /\ t[1] \in Nat
  <2>1. t[1] \in 32 .. 126
    BY <1>2, ElementOfSeq
  <2>2. 32 .. 126 \subseteq Nat
    OBVIOUS
  <2> QED BY <2>1, <2>2
<1>4. p \in Seq(Nat) /\ Len(p) = 1 /\ p[1] = t[1]
  BY <1>3
<1> HIDE DEF p
<1>5. /\ r \in Seq(Nat) /\ Len(r) = Len(t) - 1
      /\ \A i \in 1 .. Len(r) : r[i] = t[i + 1]
  BY <1>1, HeadTailProperties
<1> HIDE DEF r
<1>6. /\ b \in Seq(Nat) /\ Len(b) = Len(p) + Len(r)
      /\ \A i \in 1 .. Len(p) + Len(r) :
             b[i] = IF i <= Len(p) THEN p[i] ELSE r[i - Len(p)]
  <2>1. p \in Seq(Nat) /\ r \in Seq(Nat)
    BY <1>4, <1>5
  <2> QED BY <2>1, ConcatProperties
<1> HIDE DEF b
<1>7. Len(b) = Len(t)
  BY <1>1, <1>4, <1>5, <1>6
<1>8. \A i \in 1 .. Len(b) : b[i] = t[i]
  <2> SUFFICES ASSUME NEW i \in 1 .. Len(b) PROVE b[i] = t[i]
    OBVIOUS
  <2>1. CASE i = 1
    BY <1>2, <1>4, <1>5, <1>6, <1>7, <2>1
  <2>2. CASE i # 1
    <3>1. i - 1 \in 1 .. Len(r) /\ ~(i <= 1) /\ (i - 1) + 1 = i
      BY <1>1, <1>5, <1>7, <2>2
    <3>2. b[i] = r[i - 1]
      BY <1>1, <1>4, <1>5, <1>6, <1>7, <3>1
    <3> QED BY <1>5, <3>1, <3>2
  <2> QED BY <2>1, <2>2
<1>9. b = t
  BY <1>1, <1>6, <1>7, <1>8, SeqEqual
<1> QED BY <1>3, <1>5, <1>9 DEF b, p, r

\* The prefix test takes a prefix that is there, and otherwise leaves a text
\* alone, unless its first character is its length less one. No character is
\* below the blank, so such a text has 33 characters or more.
LEMMA PrefixIsTold ==
    ASSUME NEW t \in Texts
    PROVE  /\ Unprefixed(<<Len(t)>> \o t) = t
           /\ ReadAs(t, Text(Unprefixed(t)))
<1>1. t \in Seq(32 .. 126) /\ Len(t) \in Nat
  BY TextsAssumption, LenProperties
<1>2. ReadAs(t, Text(Unprefixed(t)))
  <2>1. CASE t # <<>> /\ t[1] = Len(t) - 1
    <3>1. /\ t[1] \in 32 .. 126
          /\ Len(Tail(t)) = Len(t) - 1
          /\ t = <<t[1]>> \o Tail(t)
      BY <1>1, <2>1, FirstAndRest
    <3>2. Len(t) >= 33
      <4>1. ASSUME NEW n \in Nat, n - 1 \in 32 .. 126 PROVE n >= 33
        BY <4>1
      <4> QED BY <1>1, <2>1, <3>1, <4>1
    <3>3. Ambiguous(t)
      BY <2>1, <3>1 DEF Ambiguous
    <3>4. Unprefixed(t) = Tail(t)
      BY <2>1 DEF Unprefixed
    <3> QED BY <3>2, <3>3, <3>4 DEF ReadAs
  <2>2. CASE ~(t # <<>> /\ t[1] = Len(t) - 1)
    BY <2>2 DEF Unprefixed, ReadAs
  <2> QED BY <2>1, <2>2
<1>3. Unprefixed(<<Len(t)>> \o t) = t
  <2> DEFINE p == <<Len(t)>>
             b == p \o t
  <2>1. p \in Seq(Nat) /\ Len(p) = 1 /\ p[1] = Len(t)
    BY <1>1
  <2>2. t \in Seq(Nat)
    <3>1. 32 .. 126 \subseteq Nat
      OBVIOUS
    <3> QED BY <1>1, <3>1, SeqMonotonic
  <2> HIDE DEF p
  <2>3. /\ b \in Seq(Nat) /\ Len(b) = 1 + Len(t)
        /\ \A i \in 1 .. 1 + Len(t) :
               b[i] = IF i <= 1 THEN p[i] ELSE t[i - 1]
    <3>1. /\ b \in Seq(Nat) /\ Len(b) = Len(p) + Len(t)
          /\ \A i \in 1 .. Len(p) + Len(t) :
                 b[i] = IF i <= Len(p) THEN p[i] ELSE t[i - Len(p)]
      BY <2>1, <2>2, ConcatProperties
    <3> QED BY <2>1, <3>1
  <2>4. 1 \in 1 .. 1 + Len(t)
    BY <1>1
  <2> HIDE DEF b
  <2>5. b[1] = Len(t)
    BY <2>1, <2>3, <2>4
  <2>6. b # <<>>
    BY <1>1, <2>3, EmptySeq
  <2>7. Unprefixed(b) = Tail(b)
    BY <1>1, <2>3, <2>5, <2>6 DEF Unprefixed
  <2>8. /\ Tail(b) \in Seq(Nat) /\ Len(Tail(b)) = Len(t)
        /\ \A i \in 1 .. Len(Tail(b)) : Tail(b)[i] = b[i + 1]
    BY <1>1, <2>3, <2>6, HeadTailProperties
  <2>9. \A i \in 1 .. Len(t) : Tail(b)[i] = t[i]
    <3> SUFFICES ASSUME NEW i \in 1 .. Len(t) PROVE Tail(b)[i] = t[i]
      OBVIOUS
    <3>1. i + 1 \in 1 .. 1 + Len(t) /\ ~(i + 1 <= 1) /\ (i + 1) - 1 = i
      BY <1>1
    <3>2. Tail(b)[i] = b[i + 1]
      BY <2>8
    <3> QED BY <2>3, <3>1, <3>2
  <2>10. Tail(b) = t
    BY <2>2, <2>8, <2>9, SeqEqual
  <2> QED BY <2>7, <2>10 DEF b, p
<1> QED BY <1>2, <1>3

\* Either manager reads a text as it was given to the beacon, with its length
\* or without, of any length, unless its bytes do not say which.
THEOREM TextsSurvive == Spec => []TextSurvives
<1>1. Computed => TextSurvives
  <2> SUFFICES ASSUME Computed, Called("info"), NEW t \in Texts,
                      NEW f \in InfoFields, NEW m \in Managers
               PROVE  LET a == input.answers[f]
                      IN  /\ a = Data(<<Len(t)>> \o t) => Result[m][f] = Text(t)
                          /\ a = Data(t) => ReadAs(t, Result[m][f])
    BY DEF TextSurvives
  <2>1. Result[m][f] = ReadString(m, input.answers[f])
    BY InfoCall DEF DeviceInfo
  <2>2. \A b : ReadString(m, Data(b)) = Text(Unprefixed(b))
    BY DEF Data, ReadString
  <2> QED BY <2>1, <2>2, PrefixIsTold
<1> QED BY <1>1, OutputIsComputed, PTL

-----------------------------------------------------------------------------
\* What is read from a field of the configuration throws for the newer
\* managers only if the data is too short, is undefined only if there is
\* none, and agrees with what the older manager reads if there is some.
LEMMA FieldRead ==
    ASSUME NEW i \in DOMAIN ConfigFields, NEW a, IsAnswer(a)
    PROVE  LET f == ConfigFields[i]
               newer == ReadConfig("newer", f, a)
               older == ReadConfig("older", f, a)
               short == a.kind = "data" /\ Len(a.bytes) < Needed(f)
           IN  /\ newer = Unreadable <=> short
               /\ short => older = Unreadable
               /\ newer # Unreadable => (newer # Undefined <=> a.kind = "data")
               /\ a.kind = "data" => newer = older
<1>1. CASE a \in {Missing, Failed}
  BY <1>1 DEF ConfigFields, ReadConfig, ReadUuid, ReadUInt16, ReadUInt8,
              ReadInt8, Otherwise, Missing, Failed, Undefined, Unreadable,
              Number, Text
<1>2. CASE a = Data(a.bytes) /\ a.bytes \in Bytes
  <2>1. a.kind = "data" /\ Len(a.bytes) \in Nat
    BY <1>2, LenProperties DEF Data, Bytes
  <2>2. /\ \A n : Number(n) # Unreadable /\ Number(n) # Undefined
        /\ \A t : Text(t) # Unreadable /\ Text(t) # Undefined
    BY DEF Number, Text, Unreadable, Undefined
  <2> QED BY <2>1, <2>2
          DEF ConfigFields, ReadConfig, ReadUuid, ReadUInt16, ReadUInt8,
              ReadInt8, Readable, Needed
<1> QED BY <1>1, <1>2 DEF IsAnswer

\* A series ends if no read throws, and then with what was read.
LEMMA SeriesResult ==
    ASSUME NEW m, NEW answers
    PROVE  LET r == Configuration(m, answers)
               value(i) == ReadConfig(m, ConfigFields[i], answers[ConfigFields[i]])
           IN  /\ r.ended <=> \A i \in 1 .. 7 : value(i) # Unreadable
               /\ r.ended => \A i \in 1 .. 7 : r.fields[i] = value(i)
<1> DEFINE value(i) == ReadConfig(m, ConfigFields[i], answers[ConfigFields[i]])
           thrown(i) == \E j \in 1 .. i : value(j) = Unreadable
           r == Configuration(m, answers)
<1>1. Len(ConfigFields) = 7 /\ DOMAIN ConfigFields = 1 .. 7
  BY DEF ConfigFields
<1>2. /\ r.ended = ~thrown(7)
      /\ r.fields = [i \in 1 .. 7 |->
                         IF thrown(i) THEN Unread(ConfigFields[i]) ELSE value(i)]
  BY <1>1 DEF Configuration
<1> HIDE DEF value, r
<1>3. r.ended <=> \A i \in 1 .. 7 : value(i) # Unreadable
  BY <1>2
<1>4. ASSUME r.ended, NEW i \in 1 .. 7 PROVE r.fields[i] = value(i)
  <2>1. \A j \in 1 .. i : j \in 1 .. 7
    OBVIOUS
  <2>2. ~thrown(i)
    BY <1>3, <1>4, <2>1
  <2> HIDE DEF thrown
  <2> QED BY <1>2, <2>2
<1> QED BY <1>3, <1>4 DEF r, value

\* A missing characteristic costs the newer manager one field, and the older
\* one, if it gets to the end, has read the same.
THEOREM MissingCostsOneField == Spec => []MissingIsSkipped
<1>1. Computed => MissingIsSkipped
  <2> SUFFICES ASSUME Computed, Called("configuration")
               PROVE  LET newer == Result["newer"]  older == Result["older"]
                      IN  /\ newer.ended <=> \A i \in DOMAIN ConfigFields : ~Short(i)
                          /\ newer.ended => \A i \in DOMAIN ConfigFields :
                                 Present(i) <=> newer.fields[i] # Undefined
                          /\ older.ended =>
                                 /\ newer.ended
                                 /\ \A i \in DOMAIN ConfigFields :
                                        Present(i) => newer.fields[i] = older.fields[i]
    BY DEF MissingIsSkipped
  <2> DEFINE answers == input.answers
             newer == Configuration("newer", answers)
             older == Configuration("older", answers)
             answer(i) == answers[ConfigFields[i]]
             readNewer(i) == ReadConfig("newer", ConfigFields[i], answer(i))
             readOlder(i) == ReadConfig("older", ConfigFields[i], answer(i))
  <2>1. Result["newer"] = newer /\ Result["older"] = older
    BY ConfigurationCall DEF Managers
  <2>2. \A i \in DOMAIN ConfigFields : IsAnswer(answer(i))
    BY ConfigurationCall, BeaconsAssumption
  <2>3. DOMAIN ConfigFields = 1 .. 7
    BY DEF ConfigFields
  <2>4. \A i \in 1 .. 7 :
            /\ Short(i) <=> readNewer(i) = Unreadable
            /\ Short(i) => readOlder(i) = Unreadable
            /\ ~Short(i) => (readNewer(i) # Undefined <=> Present(i))
            /\ Present(i) => readNewer(i) = readOlder(i)
    <3> SUFFICES ASSUME NEW i \in DOMAIN ConfigFields
                 PROVE  /\ Short(i) <=> readNewer(i) = Unreadable
                        /\ Short(i) => readOlder(i) = Unreadable
                        /\ ~Short(i) => (readNewer(i) # Undefined <=> Present(i))
                        /\ Present(i) => readNewer(i) = readOlder(i)
      BY <2>3
    <3>1. Present(i) <=> answer(i).kind = "data"
      BY DEF Present
    <3>2. Short(i) <=> /\ answer(i).kind = "data"
                       /\ Len(answer(i).bytes) < Needed(ConfigFields[i])
      BY DEF Present, Short
    <3> QED BY <2>2, <3>1, <3>2, FieldRead
  <2>5. /\ newer.ended <=> \A i \in 1 .. 7 : readNewer(i) # Unreadable
        /\ newer.ended => \A i \in 1 .. 7 : newer.fields[i] = readNewer(i)
        /\ older.ended <=> \A i \in 1 .. 7 : readOlder(i) # Unreadable
        /\ older.ended => \A i \in 1 .. 7 : older.fields[i] = readOlder(i)
    BY SeriesResult
  <2> HIDE DEF newer, older, readNewer, readOlder
  <2>6. newer.ended <=> \A i \in 1 .. 7 : ~Short(i)
    BY <2>4, <2>5
  <2>7. newer.ended => \A i \in 1 .. 7 : Present(i) <=> newer.fields[i] # Undefined
    BY <2>4, <2>5, <2>6
  <2>8. older.ended => newer.ended
    BY <2>4, <2>5, <2>6
  <2>9. older.ended => \A i \in 1 .. 7 :
                           Present(i) => newer.fields[i] = older.fields[i]
    BY <2>4, <2>5, <2>8
  <2> QED BY <2>1, <2>3, <2>6, <2>7, <2>8, <2>9
<1> QED BY <1>1, OutputIsComputed, PTL

-----------------------------------------------------------------------------
\* The two bytes in front of what is written are the third and the fourth of
\* the serial number, and what is behind them is the encoded value.
LEMMA KeyAndValue ==
    ASSUME NEW serial \in HexSerials, NEW code \in Bytes
    PROVE  LET w == FromHex(AuthKey(serial)) \o code
           IN  /\ SubSeq(w, 1, 2) = SubSeq(FromHex(serial), 3, 4)
               /\ SubSeq(w, 3, Len(w)) = code
<1> DEFINE k == AuthKey(serial)
           h == FromHex(k)
           g == FromHex(serial)
           w == h \o code
<1>1. serial \in Seq(0 .. 15) /\ Len(serial) = 12
  BY BeaconsAssumption
<1>2. \A i \in 1 .. 12 : serial[i] \in 0 .. 15
  BY <1>1, ElementOfSeq
<1>3. /\ Len(k) = 4
      /\ \A i \in 1 .. 4 : k[i] = serial[i + 4]
  <2>1. \A i \in 5 .. 8 : serial[i] \in 0 .. 15
    BY <1>2
  <2>2. /\ Len(k) = 4
        /\ \A i \in 1 .. 4 : k[i] = serial[5 + i - 1]
    BY <2>1, SubSeqProperties DEF AuthKey
  <2> QED BY <2>2
<1> HIDE DEF k
<1>4. h = [i \in 1 .. 2 |-> 16 * k[2 * i - 1] + k[2 * i]]
  BY <1>3 DEF FromHex
<1>5. g = [i \in 1 .. 6 |-> 16 * serial[2 * i - 1] + serial[2 * i]]
  BY <1>1 DEF FromHex
<1>6. /\ h[1] = 16 * serial[5] + serial[6] /\ h[2] = 16 * serial[7] + serial[8]
      /\ g[3] = 16 * serial[5] + serial[6] /\ g[4] = 16 * serial[7] + serial[8]
  <2>1. h[1] = 16 * k[1] + k[2] /\ h[2] = 16 * k[3] + k[4]
    BY <1>4
  <2>2. k[1] = serial[5] /\ k[2] = serial[6] /\ k[3] = serial[7] /\ k[4] = serial[8]
    BY <1>3
  <2>3. g[3] = 16 * serial[5] + serial[6] /\ g[4] = 16 * serial[7] + serial[8]
    BY <1>5
  <2> QED BY <2>1, <2>2, <2>3
<1>7. h[1] \in Nat /\ h[2] \in Nat
  <2>1. /\ serial[5] \in 0 .. 15 /\ serial[6] \in 0 .. 15
        /\ serial[7] \in 0 .. 15 /\ serial[8] \in 0 .. 15
    BY <1>2
  <2>2. \A x \in 0 .. 15, y \in 0 .. 15 : 16 * x + y \in Nat
    OBVIOUS
  <2>3. 16 * serial[5] + serial[6] \in Nat /\ 16 * serial[7] + serial[8] \in Nat
    BY <2>1, <2>2
  <2> QED BY <1>6, <2>3
<1>8. h \in Seq(Nat) /\ Len(h) = 2
  <2>1. h \in [1 .. 2 -> Nat]
    <3>1. DOMAIN h = 1 .. 2 /\ h = [i \in 1 .. 2 |-> h[i]]
      BY <1>4
    <3>2. \A i \in 1 .. 2 : h[i] \in Nat
      BY <1>7
    <3> HIDE DEF h
    <3> QED BY <3>1, <3>2
  <2> HIDE DEF h
  <2>2. h \in Seq(Nat)
    BY <2>1, SeqDef
  <2> QED BY <2>1, <2>2, LenProperties
<1>9. code \in Seq(Nat) /\ Len(code) \in Nat
  <2>1. code \in Seq(0 .. 255) /\ 0 .. 255 \subseteq Nat
    BY DEF Bytes
  <2> QED BY <2>1, SeqMonotonic, LenProperties
<1> HIDE DEF h, g
<1>10. /\ w \in Seq(Nat) /\ Len(w) = 2 + Len(code)
       /\ \A i \in 1 .. 2 + Len(code) :
              w[i] = IF i <= 2 THEN h[i] ELSE code[i - 2]
  <2>1. /\ w \in Seq(Nat) /\ Len(w) = Len(h) + Len(code)
        /\ \A i \in 1 .. Len(h) + Len(code) :
               w[i] = IF i <= Len(h) THEN h[i] ELSE code[i - Len(h)]
    BY <1>8, <1>9, ConcatProperties
  <2> QED BY <1>8, <2>1
<1> HIDE DEF w
<1>11. SubSeq(w, 1, 2) = SubSeq(g, 3, 4)
  <2>1. w[1] = h[1] /\ w[2] = h[2]
    BY <1>9, <1>10
  <2>2. \A i \in 1 .. 2 : w[i] \in Nat
    BY <1>7, <2>1
  <2>3. \A i \in 3 .. 4 : g[i] \in Nat
    BY <1>6, <1>7
  <2>4. /\ SubSeq(w, 1, 2) \in Seq(Nat) /\ Len(SubSeq(w, 1, 2)) = 2
        /\ \A i \in 1 .. 2 : SubSeq(w, 1, 2)[i] = w[1 + i - 1]
    BY <2>2, SubSeqProperties
  <2>5. /\ SubSeq(g, 3, 4) \in Seq(Nat) /\ Len(SubSeq(g, 3, 4)) = 2
        /\ \A i \in 1 .. 2 : SubSeq(g, 3, 4)[i] = g[3 + i - 1]
    BY <2>3, SubSeqProperties
  <2>6. SubSeq(w, 1, 2)[1] = SubSeq(g, 3, 4)[1] /\ SubSeq(w, 1, 2)[2] = SubSeq(g, 3, 4)[2]
    BY <1>6, <2>1, <2>4, <2>5
  <2>7. \A i \in 1 .. 2 : SubSeq(w, 1, 2)[i] = SubSeq(g, 3, 4)[i]
    BY <2>6
  <2> QED BY <2>4, <2>5, <2>7, SeqEqual
<1>12. SubSeq(w, 3, Len(w)) = code
  <2> DEFINE v == SubSeq(w, 3, Len(w))
  <2>1. \A i \in 3 .. Len(w) : w[i] \in Nat
    <3> SUFFICES ASSUME NEW i \in 3 .. Len(w) PROVE w[i] \in Nat
      OBVIOUS
    <3>1. i \in 1 .. Len(w)
      BY <1>9, <1>10
    <3> QED BY <1>10, <3>1, ElementOfSeq
  <2>2. Len(w) \in Int
    BY <1>9, <1>10
  <2>3. /\ v \in Seq(Nat)
        /\ Len(v) = IF 3 <= Len(w) THEN Len(w) - 3 + 1 ELSE 0
        /\ \A i \in 1 .. Len(w) - 3 + 1 : v[i] = w[3 + i - 1]
    BY <2>1, <2>2, SubSeqProperties
  <2> HIDE DEF v
  <2>4. Len(v) = Len(code)
    BY <1>9, <1>10, <2>3
  <2>5. \A i \in 1 .. Len(v) : v[i] = code[i]
    <3> SUFFICES ASSUME NEW i \in 1 .. Len(code) PROVE v[i] = code[i]
      BY <2>4
    <3>1. i \in 1 .. Len(w) - 3 + 1 /\ 3 + i - 1 = i + 2
      BY <1>9, <1>10
    <3>2. i + 2 \in 1 .. 2 + Len(code) /\ ~(i + 2 <= 2) /\ (i + 2) - 2 = i
      BY <1>9
    <3>3. v[i] = w[i + 2]
      BY <2>3, <3>1
    <3>4. w[i + 2] = code[i]
      BY <1>10, <3>2
    <3> QED BY <3>3, <3>4
  <2> QED BY <1>9, <2>3, <2>4, <2>5, SeqEqual DEF v
<1> QED BY <1>11, <1>12 DEF w, h, g, k

\* Two bytes hold the numbers below 65536, one byte those below 256 and, for
\* the reader of signed bytes, those from -128.
LEMMA WordIsRead ==
    ASSUME NEW n \in Int, n >= 0, n < 65536
    PROVE  /\ n \div 256 \in 0 .. 255
           /\ n % 256 \in 0 .. 255
           /\ 256 * (n \div 256) + (n % 256) = n
<1>1. n \div 256 \in Int
  OBVIOUS
<1>2. n % 256 \in 0 .. 255
  OBVIOUS
<1>3. 256 * (n \div 256) + (n % 256) = n
  OBVIOUS
<1>4. ASSUME NEW q \in Int, NEW r \in Int, r >= 0, r < 256, 256 * q + r = n
      PROVE  q \in 0 .. 255
  BY <1>4
<1>5. n % 256 \in Int /\ n % 256 >= 0 /\ n % 256 < 256
  BY <1>2
<1> QED BY <1>1, <1>2, <1>3, <1>4, <1>5

\* A number that is written into one byte, with or without a sign, and read.
LEMMA ByteIsRead ==
    ASSUME NEW n \in -128 .. 255
    PROVE  /\ n % 256 \in 0 .. 255
           /\ n >= 0 => n % 256 = n
           /\ n < 128 => (IF n % 256 < 128 THEN n % 256 ELSE (n % 256) - 256) = n
<1>1. n % 256 \in 0 .. 255
  OBVIOUS
<1>2. CASE n >= 0
  <2>1. n % 256 = n
    BY <1>2
  <2> QED BY <1>2, <2>1
<1>3. CASE n < 0
  <2>1. n % 256 = n + 256
    BY <1>3
  <2> QED BY <1>3, <2>1
<1> QED BY <1>2, <1>3

\* Either manager reads a value from its bytes as it was, a text as far as
\* its bytes tell.
LEMMA ValueIsRead ==
    ASSUME NEW v \in Values, NEW m \in Managers
    PROVE  LET a == Data(Encode(v.type, v.value))
           IN  /\ Encode(v.type, v.value) \in Bytes
               /\ v.type = "string" => ReadAs(v.value, ReadString(m, a))
               /\ v.type = "uint16" => ReadUInt16(m, a) = Number(v.value)
               /\ v.type = "uint8" => ReadUInt8(m, a) = Number(v.value)
               /\ v.type = "int8" => ReadInt8(m, a) = Number(v.value)
<1> DEFINE n == v.value
           b == Encode(v.type, n)
<1> DEFINE asString == v.type = "string" => ReadAs(n, ReadString(m, Data(b)))
           asUInt16 == v.type = "uint16" => ReadUInt16(m, Data(b)) = Number(n)
           asUInt8 == v.type = "uint8" => ReadUInt8(m, Data(b)) = Number(n)
           asInt8 == v.type = "int8" => ReadInt8(m, Data(b)) = Number(n)
<1> SUFFICES b \in Bytes /\ asString /\ asUInt16 /\ asUInt8 /\ asInt8
  OBVIOUS
<1>1. Data(b).kind = "data" /\ Data(b).bytes = b
  BY DEF Data
<1>2. CASE v.type = "string" /\ n \in Texts
  <2>1. b = n
    BY <1>2 DEF Encode
  <2>2. n \in Bytes
    <3>1. n \in Seq(32 .. 126) /\ 32 .. 126 \subseteq 0 .. 255
      BY <1>2, TextsAssumption
    <3> QED BY <3>1, SeqMonotonic DEF Bytes
  <2> HIDE DEF b, n
  <2>3. ReadAs(n, ReadString(m, Data(b)))
    BY <1>1, <1>2, <2>1, PrefixIsTold DEF ReadString
  <2> QED BY <1>2, <2>1, <2>2, <2>3
<1>3. CASE v.type = "uint16" /\ n \in Nat /\ n < 65536
  <2>1. b = <<n \div 256, n % 256>>
    <3> HIDE DEF n
    <3>1. b = Word(n)
      BY <1>3 DEF Encode
    <3> QED BY <3>1 DEF Word
  <2> HIDE DEF b, n
  <2>2. /\ n \div 256 \in 0 .. 255 /\ n % 256 \in 0 .. 255
        /\ 256 * (n \div 256) + (n % 256) = n
    <3>1. n \in Int /\ n >= 0 /\ n < 65536
      BY <1>3
    <3> QED BY <3>1, WordIsRead
  <2>3. b \in Bytes /\ Len(b) = 2
    BY <2>1, <2>2 DEF Bytes
  <2>4. UInt16BE(b, 0) = n
    <3>1. UInt16BE(b, 0) = 256 * b[1] + b[2]
      BY DEF UInt16BE, UInt8
    <3>2. b[1] = n \div 256 /\ b[2] = n % 256
      BY <2>1
    <3> QED BY <2>2, <3>1, <3>2
  <2>5. ReadUInt16(m, Data(b)) = Number(n)
    BY <1>1, <2>3, <2>4 DEF ReadUInt16, Readable
  <2> QED BY <1>3, <2>3, <2>5
<1>4. CASE \/ v.type = "uint8" /\ n \in 0 .. 255
           \/ v.type = "int8" /\ n \in -128 .. 127
  <2>1. b = <<n % 256>>
    <3> HIDE DEF n
    <3>1. b = Byte(n)
      BY <1>4 DEF Encode
    <3> QED BY <3>1 DEF Byte
  <2> HIDE DEF b, n
  <2>2. /\ n % 256 \in 0 .. 255
        /\ n >= 0 => n % 256 = n
        /\ n < 128 => (IF n % 256 < 128 THEN n % 256 ELSE (n % 256) - 256) = n
    <3>1. n \in -128 .. 255
      BY <1>4
    <3> QED BY <3>1, ByteIsRead
  <2>3. b \in Bytes /\ Len(b) = 1 /\ b[1] = n % 256
    BY <2>1, <2>2 DEF Bytes
  <2>4. n >= 0 => ReadUInt8(m, Data(b)) = Number(n)
    BY <1>1, <2>2, <2>3 DEF ReadUInt8, UInt8, Readable
  <2>5. n < 128 => ReadInt8(m, Data(b)) = Number(n)
    BY <1>1, <2>2, <2>3 DEF ReadInt8, Int8, UInt8, Readable
  <2>6. CASE v.type = "uint8"
    <3>1. n >= 0
      BY <1>4, <2>6
    <3> QED BY <2>3, <2>4, <2>6, <3>1
  <2>7. CASE v.type = "int8"
    <3>1. n < 128
      BY <1>4, <2>7
    <3> QED BY <2>3, <2>5, <2>7, <3>1
  <2> QED BY <1>4, <2>6, <2>7
<1>5. InRange(v)
  BY ValuesAssumption
<1> QED
  <2> HIDE DEF b, asString, asUInt16, asUInt8, asInt8
  <2> QED BY <1>2, <1>3, <1>4, <1>5 DEF InRange

\* What is written under a serial number arrives behind its key, and both
\* managers read it back, a text as far as its bytes tell.
THEOREM WritesAreRead == Spec => []WrittenIsRead
<1>1. Computed => WrittenIsRead
  <2> SUFFICES ASSUME Computed, Called("write")
               PROVE  /\ SubSeq(Result, 1, 2) = SubSeq(FromHex(input.serial), 3, 4)
                      /\ \A m \in Managers :
                             LET w == input.written
                             IN  IF w.type = "string"
                                 THEN ReadAs(w.value, ReadBack(m, w.type))
                                 ELSE ReadBack(m, w.type) = Number(w.value)
    BY DEF WrittenIsRead
  <2> DEFINE serial == input.serial
             v == input.written
             code == Encode(v.type, v.value)
  <2>1. /\ serial \in HexSerials /\ v \in Values
        /\ Result = FromHex(AuthKey(serial)) \o code
    BY WriteCall DEF Write
  <2>2. code \in Bytes
    <3>1. "newer" \in Managers
      BY DEF Managers
    <3> QED BY <2>1, <3>1, ValueIsRead
  <2> HIDE DEF serial, v, code
  <2>3. SubSeq(Result, 1, 2) = SubSeq(FromHex(serial), 3, 4) /\ Stored = code
    BY <2>1, <2>2, KeyAndValue DEF Stored
  <2>4. ASSUME NEW m \in Managers
        PROVE  IF v.type = "string" THEN ReadAs(v.value, ReadBack(m, v.type))
               ELSE ReadBack(m, v.type) = Number(v.value)
    <3>1. /\ v.type = "string" => ReadAs(v.value, ReadString(m, Data(Stored)))
          /\ v.type = "uint16" => ReadUInt16(m, Data(Stored)) = Number(v.value)
          /\ v.type = "uint8" => ReadUInt8(m, Data(Stored)) = Number(v.value)
          /\ v.type = "int8" => ReadInt8(m, Data(Stored)) = Number(v.value)
      BY <2>1, <2>3, ValueIsRead DEF code
    <3>2. v.type \in {"string", "uint16", "uint8", "int8"}
      <4>1. InRange(v)
        BY <2>1, ValuesAssumption
      <4> QED BY <4>1 DEF InRange
    <3> QED BY <3>1, <3>2 DEF ReadBack
  <2> QED BY <2>3, <2>4 DEF serial, v
<1> QED BY <1>1, OutputIsComputed, PTL
-----------------------------------------------------------------------------
(* Addresses                                                               *)

\* Both operators are the Filter of Lists.
LEMMA SameFilter ==
    ASSUME NEW list, NEW S
    PROVE  A!Filter(list, S) = Filter(list, S)
BY DEF A!Filter, A!Kept, Filter, Kept

\* A set that is in a one-to-one relation with a finite set has its size.
LEMMA SameSize ==
    ASSUME NEW S, NEW T, NEW f \in [S -> T], IsFiniteSet(S),
           \A a, b \in S : f[a] = f[b] => a = b,
           \A t \in T : \E s \in S : f[s] = t
    PROVE  Cardinality(T) = Cardinality(S)
<1>1. f \in Bijection(S, T)
  BY Fun_IsBij
<1>2. ExistsBijection(S, T)
  BY <1>1, Fun_ExistsBij
<1> QED BY <1>2, FS_Bijection

\* An address that is published, and the places in the list of an interface
\* where such addresses are.
IsExternal(a) == a.family = "IPv4" /\ ~a.internal
Places(iface) ==
    {k \in DOMAIN iface.addresses : IsExternal(iface.addresses[k])}

\* pos gives for each external address of an interface where the operating
\* system lists it.
PlacedBy(pos, iface) ==
    LET n == Len(A!External(iface))
    IN  /\ n \in 0 .. Len(iface.addresses)
        /\ pos \in [1 .. n -> Places(iface)]
        /\ \A j \in 1 .. n :
               A!External(iface)[j] = iface.addresses[pos[j]]
        /\ \A i, j \in 1 .. n : i < j => pos[i] < pos[j]
        /\ \A m \in Places(iface) : \E j \in 1 .. n : pos[j] = m
        /\ DOMAIN A!External(iface) = 1 .. n

\* The addresses that are kept are the external ones, each once and in the
\* order in which the operating system lists them.
LEMMA ExternalPlaces ==
    ASSUME NEW iface \in Interface
    PROVE  \E pos : PlacedBy(pos, iface)
<1> DEFINE U == Address
           list == iface.addresses
           S == {a \in ToSet(list) : a.family = "IPv4" /\ a.internal = FALSE}
<1>1. list \in Seq(U)
  BY DEF Interface
<1>2. A!External(iface) = Filter(list, S)
  <2>1. A!ToSet(list) = ToSet(list)
    BY DEF A!ToSet, ToSet
  <2>2. A!External(iface) = A!Filter(list, S)
    BY <2>1 DEF A!External
  <2> QED BY <2>2, SameFilter
<1>3. PICK pos : Picks(pos, Filter(list, S), list, S, Len(list))
  <2> HIDE DEF S, list, U
  <2> QED BY <1>1, FilterPicks
<1>4. \A k \in 1 .. Len(list) : list[k] \in S <=> IsExternal(list[k])
  <2> SUFFICES ASSUME NEW k \in 1 .. Len(list)
               PROVE  list[k] \in S <=> IsExternal(list[k])
    OBVIOUS
  <2>1. list[k] \in U /\ list[k] \in ToSet(list)
    <3> HIDE DEF list, U, S
    <3> QED BY <1>1 DEF ToSet
  <2>2. list[k].internal \in BOOLEAN
    BY <2>1 DEF Address
  <2> QED BY <2>1, <2>2 DEF IsExternal
<1>5. Filter(list, S) \in Seq(U)
  <2> HIDE DEF S, list, U
  <2> QED BY <1>1, FilterFacts
<1> DEFINE kept == Filter(list, S)
           n == Len(kept)
<1>6. /\ DOMAIN kept = 1 .. n /\ n \in Nat
      /\ DOMAIN list = 1 .. Len(list) /\ Len(list) \in Nat
  BY <1>1, <1>5
<1>7. /\ n \in 0 .. Len(list)
      /\ pos \in [1 .. n -> 1 .. Len(list)]
      /\ \A i, j \in 1 .. n : i < j => pos[i] < pos[j]
      /\ \A j \in 1 .. n : list[pos[j]] \in S /\ kept[j] = list[pos[j]]
      /\ \A m \in 1 .. Len(list) : list[m] \in S => \E j \in 1 .. n : pos[j] = m
  BY <1>3 DEF Picks
<1> HIDE DEF S, U, kept, n
<1>8. \A j \in 1 .. n : pos[j] \in Places(iface)
  BY <1>4, <1>6, <1>7 DEF Places
<1>9. pos \in [1 .. n -> Places(iface)]
  BY <1>7, <1>8
<1>10. \A m \in Places(iface) : \E j \in 1 .. n : pos[j] = m
  BY <1>4, <1>6, <1>7 DEF Places
<1> QED BY <1>2, <1>6, <1>7, <1>9, <1>10 DEF PlacedBy, kept, n

\* k obeys the recursion of Key for the numbers up to n.
KeyTo(k, n, name) ==
    k = [m \in 0 .. n |->
            IF m = 0 THEN name ELSE Append(k[m \div 10], m % 10)]

\* A number without its last digit is smaller, and they make it up.
LEMMA LastDigit ==
    ASSUME NEW n \in Nat, n # 0
    PROVE  /\ n \div 10 \in 0 .. n - 1 /\ n % 10 \in 0 .. 9
           /\ n = 10 * (n \div 10) + (n % 10)
OBVIOUS

\* What obeys the recursion up to a number is continued by the next number.
LEMMA KeyContinued ==
    ASSUME NEW name, NEW n \in Nat, NEW k, KeyTo(k, n, name)
    PROVE  \E next : KeyTo(next, n + 1, name)
<1> DEFINE value == Append(k[(n + 1) \div 10], (n + 1) % 10)
           next == [m \in 0 .. n + 1 |-> IF m <= n THEN k[m] ELSE value]
<1>1. \A m \in 0 .. n : next[m] = k[m]
  OBVIOUS
<1>2. next[n + 1] = value
  OBVIOUS
<1>3. (n + 1) \div 10 \in 0 .. n
  BY LastDigit
<1>4. ASSUME NEW m \in 0 .. n + 1
      PROVE  next[m] = IF m = 0 THEN name
                       ELSE Append(next[m \div 10], m % 10)
  <2>1. CASE m = n + 1
    <3>1. next[(n + 1) \div 10] = k[(n + 1) \div 10]
      BY <1>1, <1>3
    <3>2. n + 1 # 0
      OBVIOUS
    <3> HIDE DEF next
    <3> QED BY <1>2, <2>1, <3>1, <3>2
  <2>2. CASE m \in 0 .. n
    <3>1. m # 0 => m \div 10 \in 0 .. n
      BY <2>2, LastDigit
    <3>2. k[m] = IF m = 0 THEN name ELSE Append(k[m \div 10], m % 10)
      BY <2>2 DEF KeyTo
    <3> HIDE DEF next
    <3> QED BY <1>1, <2>2, <3>1, <3>2
  <2> QED BY <2>1, <2>2
<1>5. next = [m \in 0 .. n + 1 |->
                 IF m = 0 THEN name ELSE Append(next[m \div 10], m % 10)]
  BY <1>4
<1> QED BY <1>5 DEF KeyTo

\* The recursion has a solution for every number, and the key is its value.
LEMMA KeyExists ==
    ASSUME NEW name, NEW alias \in Nat
    PROVE  \E k : KeyTo(k, alias, name) /\ A!Key(name, alias) = k[alias]
<1> DEFINE T == {n \in Nat : ~\E k : KeyTo(k, n, name)}
<1>1. T = {}
  <2> SUFFICES ASSUME T # {} PROVE FALSE
    OBVIOUS
  <2>1. PICK n \in T : \A m \in T : n <= m
    <3> T \in SUBSET Nat
      OBVIOUS
    <3> HIDE DEF T
    <3> QED BY LeastNumber
  <2>2. n # 0
    <3> DEFINE k == [m \in 0 .. 0 |-> name]
    <3>1. KeyTo(k, 0, name)
      BY DEF KeyTo
    <3> QED BY <3>1
  <2>3. n - 1 \in Nat /\ n - 1 \notin T
    BY <2>1, <2>2
  <2>4. PICK k : KeyTo(k, n - 1, name)
    BY <2>3
  <2>5. \E next : KeyTo(next, (n - 1) + 1, name)
    BY <2>3, <2>4, KeyContinued
  <2> QED BY <2>3, <2>5
<1>2. \E k : KeyTo(k, alias, name)
  BY <1>1
<1> DEFINE key == CHOOSE k : KeyTo(k, alias, name)
<1>3. KeyTo(key, alias, name)
  BY <1>2
<1>4. A!Key(name, alias) = key[alias]
  BY Zenon DEF A!Key, KeyTo
<1> QED BY <1>3, <1>4

\* Two solutions agree on the numbers both have.
LEMMA KeysAgree ==
    ASSUME NEW name, NEW a \in Nat, NEW b \in Nat, NEW k, NEW l,
           KeyTo(k, a, name), KeyTo(l, b, name),
           NEW i \in 0 .. a, i \in 0 .. b
    PROVE  k[i] = l[i]
<1> DEFINE T == {n \in Nat : n <= a /\ n <= b /\ k[n] # l[n]}
<1> SUFFICES ASSUME T # {} PROVE FALSE
  OBVIOUS
<1>1. PICK n \in T : \A m \in T : n <= m
  <2> T \in SUBSET Nat
    OBVIOUS
  <2> HIDE DEF T
  <2> QED BY LeastNumber
<1>2. n \in 0 .. a /\ n \in 0 .. b
  BY <1>1
<1>3. /\ k[n] = IF n = 0 THEN name ELSE Append(k[n \div 10], n % 10)
      /\ l[n] = IF n = 0 THEN name ELSE Append(l[n \div 10], n % 10)
  <2> HIDE DEF T
  <2> QED BY <1>2 DEF KeyTo
<1>4. n # 0 => k[n \div 10] = l[n \div 10]
  <2> SUFFICES ASSUME n # 0 PROVE k[n \div 10] = l[n \div 10]
    OBVIOUS
  <2>1. n \div 10 \in 0 .. n - 1
    BY LastDigit, <1>1
  <2> QED BY <1>1, <2>1
<1> QED BY <1>1, <1>3, <1>4

\* A key is the name, or the key of all digits but the last and that digit.
LEMMA KeyDigits ==
    ASSUME NEW name, NEW a \in Nat
    PROVE  A!Key(name, a) = IF a = 0 THEN name
                            ELSE Append(A!Key(name, a \div 10), a % 10)
<1>1. PICK k : KeyTo(k, a, name) /\ A!Key(name, a) = k[a]
  BY KeyExists
<1>2. k[a] = IF a = 0 THEN name ELSE Append(k[a \div 10], a % 10)
  <2> a \in 0 .. a
    OBVIOUS
  <2> QED BY <1>1 DEF KeyTo
<1>3. ASSUME a # 0 PROVE k[a \div 10] = A!Key(name, a \div 10)
  <2>1. a \div 10 \in 0 .. a /\ a \div 10 \in Nat
    BY <1>3, LastDigit
  <2>2. PICK l : KeyTo(l, a \div 10, name) /\ A!Key(name, a \div 10) = l[a \div 10]
    BY <2>1, KeyExists
  <2>3. a \div 10 \in 0 .. (a \div 10)
    BY <2>1
  <2> QED BY <1>1, <2>1, <2>2, <2>3, KeysAgree
<1> QED BY <1>1, <1>2, <1>3

\* A numbered key is the name with a number behind it.
LEMMA KeyShape ==
    ASSUME NEW name \in Seq(Nat), NEW a \in Nat
    PROVE  /\ A!Key(name, a) \in Seq(Nat)
           /\ a # 0 => NumberBehind(name, A!Key(name, a))
<1> DEFINE key(n) == A!Key(name, n)
           T == {n \in Nat : ~ (/\ key(n) \in Seq(Nat)
                                /\ n # 0 => NumberBehind(name, key(n)))}
<1> SUFFICES ASSUME T # {} PROVE FALSE
  OBVIOUS
<1>1. PICK n \in T : \A m \in T : n <= m
  <2> T \in SUBSET Nat
    OBVIOUS
  <2> HIDE DEF T
  <2> QED BY LeastNumber
<1>2. n # 0
  <2>1. key(0) = name
    BY KeyDigits
  <2> HIDE DEF key
  <2> QED BY <1>1, <2>1
<1> DEFINE rest == n \div 10
           digit == n % 10
<1>3. rest \in 0 .. n - 1 /\ digit \in 0 .. 9 /\ n = 10 * rest + digit
  BY <1>1, <1>2, LastDigit
<1>4. key(n) = Append(key(rest), digit)
  BY <1>1, <1>2, KeyDigits
<1> HIDE DEF rest, digit
<1>5. rest \notin T
  <2> HIDE DEF T
  <2> QED BY <1>1, <1>3
<1>6. key(rest) \in Seq(Nat) /\ (rest # 0 => NumberBehind(name, key(rest)))
  <2> HIDE DEF key
  <2> QED BY <1>3, <1>5
<1> DEFINE s == key(rest)
           t == Append(s, digit)
<1>7. /\ Len(s) \in Nat /\ Len(t) = Len(s) + 1
      /\ \A k \in 1 .. Len(s) : t[k] = s[k]
      /\ t[Len(s) + 1] = digit
      /\ t \in Seq(Nat)
  <2> s \in Seq(Nat)
    BY <1>6
  <2> HIDE DEF s, key
  <2> QED BY <1>3
<1>8. rest = 0 => s = name
  BY <1>3, KeyDigits
<1> DEFINE l == Len(name)
<1>9. /\ l \in Nat /\ l <= Len(s)
      /\ \A k \in 1 .. l : s[k] = name[k]
      /\ rest # 0 => /\ l < Len(s) /\ s[l + 1] # 0
                     /\ \A k \in l + 1 .. Len(s) : s[k] \in 0 .. 9
  <2>1. l \in Nat
    OBVIOUS
  <2>2. CASE rest = 0
    <3> HIDE DEF s, key
    <3> QED BY <1>7, <1>8, <2>1, <2>2
  <2>3. CASE rest # 0
    <3>1. /\ l < Len(s) /\ SubSeq(s, 1, l) = name /\ s[l + 1] # 0
          /\ \A k \in l + 1 .. Len(s) : s[k] \in 0 .. 9
      <4> HIDE DEF key
      <4> QED BY <1>6, <2>3 DEF NumberBehind
    <3>2. \A k \in 1 .. l : SubSeq(s, 1, l)[k] = s[k]
      <4> s \in Seq(Nat)
        BY <1>6
      <4> HIDE DEF s, key, l
      <4> QED BY <2>1, <1>7, <3>1, SubSeqProperties
    <3> HIDE DEF s, key, l
    <3> QED BY <2>1, <2>3, <3>1, <3>2
  <2> QED BY <2>2, <2>3
<1>10. t[l + 1] # 0 /\ \A k \in l + 1 .. Len(t) : t[k] \in 0 .. 9
  <2> HIDE DEF s, t, key, l
  <2>1. CASE rest = 0
    <3>1. digit # 0
      BY <1>1, <1>2, <1>3, <2>1
    <3>2. Len(s) = l
      BY <1>8, <2>1 DEF l
    <3>3. l + 1 .. Len(t) = {l + 1} /\ t[l + 1] = digit
      BY <1>7, <1>9, <3>2
    <3> QED BY <1>3, <3>1, <3>3
  <2>2. CASE rest # 0
    <3>1. l + 1 \in 1 .. Len(s)
      BY <1>7, <1>9, <2>2
    <3>2. ASSUME NEW k \in l + 1 .. Len(t) PROVE t[k] \in 0 .. 9
      <4>1. CASE k = Len(s) + 1
        BY <1>3, <1>7, <4>1
      <4>2. CASE k # Len(s) + 1
        <5>1. k \in l + 1 .. Len(s) /\ k \in 1 .. Len(s)
          BY <1>7, <1>9, <4>2
        <5> QED BY <1>7, <1>9, <2>2, <5>1
      <4> QED BY <4>1, <4>2
    <3> QED BY <1>7, <1>9, <2>2, <3>1, <3>2
  <2> QED BY <2>1, <2>2
<1>11. SubSeq(t, 1, l) = name
  <2>1. l < Len(t) /\ \A k \in 1 .. l : t[k] = name[k]
    <3> HIDE DEF s, t, key, l
    <3> QED BY <1>7, <1>9
  <2>2. name = [k \in 1 .. l |-> name[k]]
    OBVIOUS
  <2>3. /\ SubSeq(t, 1, l) \in Seq(Nat) /\ Len(SubSeq(t, 1, l)) = l
        /\ \A k \in 1 .. l : SubSeq(t, 1, l)[k] = t[k]
    <3> t \in Seq(Nat)
      BY <1>7
    <3> HIDE DEF s, t, key, l
    <3> QED BY <1>9, <2>1, SubSeqProperties
  <2>4. \A u \in Seq(Nat) : u = [k \in 1 .. Len(u) |-> u[k]]
    OBVIOUS
  <2> HIDE DEF s, t, key, l
  <2> QED BY <2>1, <2>2, <2>3, <2>4
<1>12. l < Len(t)
  <2> HIDE DEF s, t, key, l
  <2> QED BY <1>7, <1>9
<1>13. NumberBehind(name, t)
  <2> HIDE DEF t, s, key
  <2> QED BY <1>10, <1>11, <1>12 DEF NumberBehind, l
<1> HIDE DEF key, NumberBehind
<1> QED BY <1>1, <1>4, <1>7, <1>13 DEF s, t

\* Two keys that are equal have the same name and number, or one name is that
\* of the other and a number.
LEMMA EqualKeys ==
    ASSUME NEW x \in Seq(Nat), NEW y \in Seq(Nat), NEW a \in Nat, NEW b \in Nat,
           A!Key(x, a) = A!Key(y, b)
    PROVE  \/ x = y /\ a = b
           \/ \E n \in Nat \ {0} : x = A!Key(y, n) \/ y = A!Key(x, n)
<1> SUFFICES ASSUME \A n \in Nat \ {0} : x # A!Key(y, n) /\ y # A!Key(x, n)
             PROVE  x = y /\ a = b
  OBVIOUS
<1> DEFINE key(s, n) == A!Key(s, n)
           wrong(m, n) == key(x, m) = key(y, n) /\ ~ (x = y /\ m = n)
           T == {m \in Nat : \E n \in Nat : wrong(m, n)}
<1>1. SUFFICES ASSUME T # {} PROVE FALSE
  OBVIOUS
<1>2. PICK m \in T : \A i \in T : m <= i
  <2> T \in SUBSET Nat
    OBVIOUS
  <2> HIDE DEF T
  <2> QED BY <1>1, LeastNumber
<1>3. PICK n \in Nat : wrong(m, n)
  BY <1>2
<1>4. key(x, 0) = x /\ key(y, 0) = y
  BY KeyDigits
<1>5. m # 0 /\ n # 0
  <2> HIDE DEF key
  <2>1. \A i \in Nat \ {0} : x # key(y, i) /\ y # key(x, i)
    BY DEF key
  <2> QED BY <1>2, <1>3, <1>4, <2>1
<1>6. /\ key(x, m) = Append(key(x, m \div 10), m % 10)
      /\ key(y, n) = Append(key(y, n \div 10), n % 10)
  BY <1>2, <1>5, KeyDigits
<1>7. /\ m \div 10 \in 0 .. m - 1 /\ m % 10 \in 0 .. 9
      /\ n \div 10 \in 0 .. n - 1 /\ n % 10 \in 0 .. 9
      /\ m = 10 * (m \div 10) + (m % 10)
      /\ n = 10 * (n \div 10) + (n % 10)
  BY <1>2, <1>5, LastDigit
<1> DEFINE p == m \div 10
           q == n \div 10
<1>8. key(x, p) \in Seq(Nat) /\ key(y, q) \in Seq(Nat)
  <2> p \in Nat /\ q \in Nat
    BY <1>7
  <2> HIDE DEF p, q
  <2> QED BY KeyShape
<1>9. key(x, p) = key(y, q) /\ m % 10 = n % 10
  <2>1. Append(key(x, p), m % 10) = Append(key(y, q), n % 10)
    BY <1>3, <1>6
  <2>2. m % 10 \in Nat /\ n % 10 \in Nat
    BY <1>7
  <2> HIDE DEF key
  <2> QED BY <1>8, <2>1, <2>2, AppendInjective
<1>10. ~ (x = y /\ p = q)
  <2> HIDE DEF key
  <2> QED BY <1>3, <1>7, <1>9
<1>11. p \in T
  <2> HIDE DEF key
  <2> QED BY <1>7, <1>9, <1>10
<1>12. m \in Nat /\ m <= p
  <2> HIDE DEF T, p
  <2>1. T \subseteq Nat
    BY DEF T
  <2> QED BY <1>2, <1>11, <2>1
<1> HIDE DEF T
<1> QED BY <1>7, <1>12

\* Names are numbered differently from each other, unless they collide.
Distinct(list) ==
    \A i, j \in DOMAIN list :
        /\ list[i].name = list[j].name => i = j
        /\ ~NumberBehind(list[i].name, list[j].name)

\* No key of ipAddresses is used twice (info-publisher.js:32-38).
LEMMA KeysDiffer ==
    ASSUME NEW list \in Seq(Interface), Distinct(list),
           NEW i \in DOMAIN list, NEW j \in DOMAIN list,
           NEW a \in Nat, NEW b \in Nat,
           A!Key(list[i].name, a) = A!Key(list[j].name, b)
    PROVE  i = j /\ a = b
<1> DEFINE x == list[i].name
           y == list[j].name
<1>1. x \in Seq(Nat) /\ y \in Seq(Nat)
  <2>1. \A n \in DOMAIN list : list[n] \in Interface
    BY ElementOfSeq
  <2> QED BY <2>1 DEF Interface
<1>2. \/ x = y /\ a = b
      \/ \E n \in Nat \ {0} : x = A!Key(y, n) \/ y = A!Key(x, n)
  <2> HIDE DEF x, y
  <2>1. A!Key(x, a) = A!Key(y, b)
    BY DEF x, y
  <2> QED BY <1>1, <2>1, EqualKeys
<1>3. ASSUME NEW n \in Nat \ {0}, x = A!Key(y, n) \/ y = A!Key(x, n)
      PROVE  FALSE
  <2>1. NumberBehind(y, x) \/ NumberBehind(x, y)
    <3> HIDE DEF x, y
    <3> QED BY <1>1, <1>3, KeyShape
  <2> QED BY <2>1 DEF Distinct
<1> QED BY <1>2, <1>3 DEF Distinct

-----------------------------------------------------------------------------
AllPlaces(list) ==
    UNION {{<<i, k>> : k \in Places(list[i])} : i \in DOMAIN list}
AddressAt(list, e) == list[e[1]].addresses[e[2]].address

\* What EveryAddressReported says, of a list.
Reported(list) ==
    LET R == A!IpAddresses(list)
    IN  /\ Cardinality(DOMAIN R) = Cardinality(AllPlaces(list))
        /\ {R[k] : k \in DOMAIN R} = {AddressAt(list, e) : e \in AllPlaces(list)}
        /\ \A e \in AllPlaces(list) :
               (\A f \in AllPlaces(list) : f[1] = e[1] => e[2] <= f[2])
                   => R[list[e[1]].name] = AddressAt(list, e)


\* For a list in which no two interfaces collide all of it holds.
LEMMA AllReported ==
    ASSUME NEW list \in Seq(Interface), Distinct(list)
    PROVE  Reported(list)
<1> DEFINE all == A!Assignments(list)
           key(e) == A!AssignedTo(list, e)
           value(e) == A!Assigned(list, e)
           R == A!IpAddresses(list)
           external(i) == A!External(list[i])
           places == AllPlaces(list)
<1>1. Len(list) \in Nat /\ DOMAIN list = 1 .. Len(list)
  OBVIOUS
<1>2. \A i \in DOMAIN list : list[i] \in Interface
  BY ElementOfSeq
<1> DEFINE pos == [i \in DOMAIN list |->
                     CHOOSE q : PlacedBy(q, list[i])]
<1>3. \A i \in DOMAIN list : PlacedBy(pos[i], list[i])
  BY <1>2, ExternalPlaces
<1> HIDE DEF pos
<1> DEFINE n(i) == Len(external(i))
<1>4. ASSUME NEW i \in DOMAIN list
      PROVE  /\ n(i) \in Nat
             /\ DOMAIN external(i) = 1 .. n(i)
             /\ pos[i] \in [1 .. n(i) -> Places(list[i])]
             /\ \A j \in 1 .. n(i) :
                    external(i)[j] = list[i].addresses[pos[i][j]]
             /\ \A j, k \in 1 .. n(i) : j < k => pos[i][j] < pos[i][k]
             /\ \A m \in Places(list[i]) : \E j \in 1 .. n(i) : pos[i][j] = m
  <2>1. PlacedBy(pos[i], list[i])
    BY <1>3
  <2>2. list[i].addresses \in Seq(Address)
    BY <1>2 DEF Interface
  <2>3. Len(list[i].addresses) \in Nat
    BY <2>2
  <2>4. n(i) \in 0 .. Len(list[i].addresses)
    BY <2>1 DEF PlacedBy
  <2>5. n(i) \in Nat
    <3> DEFINE l == Len(list[i].addresses)
    <3> HIDE DEF l, n
    <3> QED BY <2>3, <2>4 DEF l
  <2> QED BY <2>1, <2>5 DEF PlacedBy
<1>5. all = UNION {{<<i, k - 1>> : k \in 1 .. n(i)} : i \in DOMAIN list}
  <2>1. \A i \in DOMAIN list : DOMAIN external(i) = 1 .. n(i)
    BY <1>4
  <2>2. all = UNION {{<<i, k - 1>> : k \in DOMAIN external(i)} :
                        i \in DOMAIN list}
    BY DEF A!Assignments
  <2> HIDE DEF external, n, all
  <2> DEFINE assigned(i) == {<<i, k - 1>> : k \in DOMAIN external(i)}
             counted(i) == {<<i, k - 1>> : k \in 1 .. n(i)}
  <2>3. \A i \in DOMAIN list : assigned(i) = counted(i)
    BY <2>1
  <2>4. all = UNION {assigned(i) : i \in DOMAIN list}
    BY <2>2
  <2> HIDE DEF assigned, counted
  <2>5. all = UNION {counted(i) : i \in DOMAIN list}
    BY <2>3, <2>4
  <2> QED BY <2>5 DEF counted
<1> HIDE DEF external, n, key, value
<1>6. ASSUME NEW e \in all
      PROVE  /\ e = <<e[1], e[2]>> /\ e[1] \in DOMAIN list
             /\ e[2] \in Nat /\ e[2] + 1 \in 1 .. n(e[1])
  <2>1. PICK i \in DOMAIN list : \E k \in 1 .. n(i) : e = <<i, k - 1>>
    BY <1>5
  <2>2. PICK k \in 1 .. n(i) : e = <<i, k - 1>>
    BY <2>1
  <2>3. n(i) \in Nat
    BY <1>4
  <2>4. k - 1 \in Nat /\ (k - 1) + 1 = k
    BY <2>3
  <2> QED BY <2>2, <2>4
<1>7. ASSUME NEW i \in DOMAIN list, NEW k \in 1 .. n(i)
      PROVE  <<i, k - 1>> \in all
  BY <1>5
<1> HIDE DEF all
\* No key is assigned to twice.
<1>8. ASSUME NEW e \in all, NEW f \in all, key(e) = key(f)
      PROVE  e = f
  <2>1. A!Key(list[e[1]].name, e[2]) = A!Key(list[f[1]].name, f[2])
    BY <1>8 DEF key, A!AssignedTo
  <2>2. /\ e[1] \in DOMAIN list /\ e[2] \in Nat
        /\ f[1] \in DOMAIN list /\ f[2] \in Nat
    BY <1>6
  <2>3. e[1] = f[1] /\ e[2] = f[2]
    BY <2>1, <2>2, KeysDiffer
  <2>4. e = <<e[1], e[2]>> /\ f = <<f[1], f[2]>>
    BY <1>6
  <2> QED BY <2>3, <2>4
<1>9. DOMAIN R = {key(e) : e \in all}
  BY DEF A!IpAddresses, all, key
<1>10. ASSUME NEW e \in all PROVE R[key(e)] = value(e)
  <2> DEFINE to == {f \in all : key(f) = key(e)}
  <2>1. to = {e}
    BY <1>8
  <2>2. ~A!Before(e, e)
    BY <1>6, <1>1 DEF A!Before
  <2>3. (CHOOSE x \in to : \A f \in to : ~A!Before(x, f)) = e
    BY <2>1, <2>2
  <2>4. R[key(e)] = value(CHOOSE x \in to : \A f \in to : ~A!Before(x, f))
    BY DEF A!IpAddresses, all, key, value
  <2> QED BY <2>3, <2>4
<1>11. {R[k] : k \in DOMAIN R} = {value(e) : e \in all}
  <2> HIDE DEF R
  <2> QED BY <1>9, <1>10
<1> HIDE DEF R
\* The place where the address of an assignment was listed.
<1> DEFINE place == [e \in all |-> <<e[1], pos[e[1]][e[2] + 1]>>]
<1>12. \A e \in all : pos[e[1]][e[2] + 1] \in Places(list[e[1]])
  BY <1>4, <1>6
<1>13. place \in [all -> places]
  <2> SUFFICES ASSUME NEW e \in all
               PROVE  <<e[1], pos[e[1]][e[2] + 1]>> \in AllPlaces(list)
    OBVIOUS
  <2> QED BY <1>6, <1>12 DEF AllPlaces
<1>14. ASSUME NEW p \in places
       PROVE  /\ p = <<p[1], p[2]>> /\ p[1] \in DOMAIN list
              /\ p[2] \in Places(list[p[1]]) /\ p[2] \in Nat
  <2>1. PICK i \in DOMAIN list : \E k \in Places(list[i]) : p = <<i, k>>
    BY DEF AllPlaces
  <2>2. PICK k \in Places(list[i]) : p = <<i, k>>
    BY <2>1
  <2>3. k \in Nat
    <3>1. list[i].addresses \in Seq(Address)
      BY <1>2 DEF Interface
    <3> QED BY <3>1 DEF Places
  <2> QED BY <2>2, <2>3
<1>15. ASSUME NEW p \in places PROVE \E e \in all : place[e] = p
  <2>1. PICK j \in 1 .. n(p[1]) : pos[p[1]][j] = p[2]
    BY <1>4, <1>14
  <2>2. <<p[1], j - 1>> \in all
    BY <1>7, <1>14, <2>1
  <2>3. (j - 1) + 1 = j
    BY <1>4, <1>14, <2>1
  <2>4. place[<<p[1], j - 1>>] = p
    BY <1>14, <2>1, <2>2, <2>3
  <2> QED BY <2>2, <2>4
<1>16. ASSUME NEW e \in all, NEW f \in all, place[e] = place[f] PROVE e = f
  <2>1. e[1] = f[1] /\ pos[e[1]][e[2] + 1] = pos[e[1]][f[2] + 1]
    BY <1>16
  <2>2. e[2] + 1 \in 1 .. n(e[1]) /\ f[2] + 1 \in 1 .. n(e[1])
    BY <1>6, <2>1
  <2>3. e[2] \in Nat /\ f[2] \in Nat /\ e[1] \in DOMAIN list
    BY <1>6
  <2>4. ASSUME NEW j \in 1 .. n(e[1]), NEW k \in 1 .. n(e[1]), j < k
        PROVE  pos[e[1]][j] # pos[e[1]][k]
    <3>1. /\ pos[e[1]][j] \in Places(list[e[1]])
          /\ pos[e[1]][k] \in Places(list[e[1]])
          /\ pos[e[1]][j] < pos[e[1]][k]
      BY <1>4, <2>3, <2>4
    <3>2. Places(list[e[1]]) \subseteq Nat
      <4>1. list[e[1]].addresses \in Seq(Address)
        BY <1>2, <2>3 DEF Interface
      <4> QED BY <4>1 DEF Places
    <3> QED BY <3>1, <3>2
  <2>5. ~(e[2] + 1 < f[2] + 1) /\ ~(f[2] + 1 < e[2] + 1)
    BY <2>1, <2>2, <2>4
  <2>6. e[2] = f[2]
    BY <2>3, <2>5
  <2>7. e = <<e[1], e[2]>> /\ f = <<f[1], f[2]>>
    BY <1>6
  <2> QED BY <2>1, <2>6, <2>7
<1>17. ASSUME NEW e \in all PROVE value(e) = AddressAt(list, place[e])
  <2>1. A!External(list[e[1]])[e[2] + 1]
            = list[e[1]].addresses[pos[e[1]][e[2] + 1]]
    BY <1>4, <1>6 DEF external
  <2>2. value(e) = list[e[1]].addresses[pos[e[1]][e[2] + 1]].address
    BY <2>1 DEF value, A!Assigned
  <2>3. place[e] = <<e[1], pos[e[1]][e[2] + 1]>>
    OBVIOUS
  <2> QED BY <2>2, <2>3 DEF AddressAt
<1> HIDE DEF place
<1>18. IsFiniteSet(all)
  <2> DEFINE part == [i \in DOMAIN list |-> {<<i, k - 1>> : k \in 1 .. n(i)}]
             parts == {part[i] : i \in DOMAIN list}
  <2>1. IsFiniteSet(DOMAIN list)
    <3>1. 1 \in Int /\ Len(list) \in Int
      BY <1>1
    <3> QED BY <1>1, <3>1, FS_Interval
  <2>2. IsFiniteSet(parts)
    <3>1. part \in Surjection(DOMAIN list, parts)
      <4>1. part \in [DOMAIN list -> parts]
        OBVIOUS
      <4>2. \A t \in parts : \E i \in DOMAIN list : part[i] = t
        OBVIOUS
      <4> HIDE DEF part, parts
      <4> QED BY <4>1, <4>2, Fun_IsSurj
    <3> HIDE DEF part, parts
    <3> QED BY <2>1, <3>1, FS_Surjection
  <2>3. ASSUME NEW i \in DOMAIN list PROVE IsFiniteSet(part[i])
    <3>1. n(i) \in Nat
      BY <1>4
    <3>2. IsFiniteSet(0 .. n(i))
      <4>1. 0 \in Int /\ n(i) \in Int
        BY <3>1
      <4> QED BY <4>1, FS_Interval
    <3>3. IsFiniteSet((DOMAIN list) \X (0 .. n(i)))
      BY <2>1, <3>2, FS_Product
    <3>4. part[i] \subseteq (DOMAIN list) \X (0 .. n(i))
      BY <3>1
    <3> QED BY <3>3, <3>4, FS_Subset
  <2>4. all = UNION parts
    BY <1>5
  <2>5. IsFiniteSet(UNION parts)
    <3> HIDE DEF part
    <3>1. \A T \in parts : IsFiniteSet(T)
      BY <2>3
    <3> HIDE DEF parts
    <3> QED BY <2>2, <3>1, FS_UNION
  <2> QED BY <2>4, <2>5
<1>19. Cardinality(places) = Cardinality(all)
  <2> HIDE DEF places
  <2> QED BY <1>13, <1>15, <1>16, <1>18, SameSize
<1>20. Cardinality({key(e) : e \in all}) = Cardinality(all)
  <2> DEFINE T == {key(e) : e \in all}
             g == [e \in all |-> key(e)]
  <2>1. g \in [all -> T]
    OBVIOUS
  <2>2. \A e, f \in all : g[e] = g[f] => e = f
    BY <1>8
  <2>3. \A t \in T : \E e \in all : g[e] = t
    OBVIOUS
  <2> HIDE DEF g, T
  <2>4. Cardinality(T) = Cardinality(all)
    BY <1>18, <2>1, <2>2, <2>3, SameSize
  <2> QED BY <2>4 DEF T
<1>21. {value(e) : e \in all} = {AddressAt(list, p) : p \in places}
  <2>1. \A e \in all : place[e] \in places
    BY <1>13
  <2>2. \A e \in all : value(e) \in {AddressAt(list, p) : p \in places}
    BY <1>17, <2>1
  <2>3. \A p \in places : AddressAt(list, p) \in {value(e) : e \in all}
    <3> HIDE DEF places
    <3> QED BY <1>15, <1>17
  <2> QED BY <2>2, <2>3
\* The first place of an interface is the one with alias 0.
<1>22. ASSUME NEW p \in places, \A q \in places : q[1] = p[1] => p[2] <= q[2]
       PROVE  R[list[p[1]].name] = AddressAt(list, p)
  <2>1. PICK e \in all : place[e] = p
    BY <1>15
  <2>2. e[1] = p[1] /\ p[2] = pos[e[1]][e[2] + 1]
    BY <2>1 DEF place
  <2>3. /\ e[1] \in DOMAIN list /\ e[2] \in Nat
        /\ e[2] + 1 \in 1 .. n(e[1]) /\ n(e[1]) \in Nat
    BY <1>4, <1>6
  <2>4. e[2] = 0
    <3> SUFFICES ASSUME e[2] # 0 PROVE FALSE
      OBVIOUS
    <3>1. 1 \in 1 .. n(e[1]) /\ 1 < e[2] + 1
      BY <2>3
    <3>2. pos[e[1]][1] < p[2] /\ pos[e[1]][1] \in Places(list[e[1]])
      BY <1>4, <2>2, <2>3, <3>1
    <3> DEFINE q == <<e[1], pos[e[1]][1]>>
    <3>3. q \in places
      BY <2>3, <3>2 DEF AllPlaces
    <3>4. p[2] <= pos[e[1]][1]
      BY <1>22, <2>2, <3>3
    <3>5. pos[e[1]][1] \in Nat /\ p[2] \in Nat
      BY <1>14, <3>3
    <3> QED BY <3>2, <3>4, <3>5
  <2>5. key(e) = list[p[1]].name
    <3>1. A!Key(list[e[1]].name, 0) = list[e[1]].name
      BY KeyDigits
    <3> QED BY <2>2, <2>4, <3>1 DEF key, A!AssignedTo
  <2>6. R[key(e)] = value(e)
    BY <1>10
  <2>7. value(e) = AddressAt(list, p)
    BY <1>17, <2>1
  <2> QED BY <2>5, <2>6, <2>7
<1>23. Cardinality(DOMAIN R) = Cardinality(AllPlaces(list))
  BY <1>9, <1>19, <1>20
<1>24. {R[k] : k \in DOMAIN R} = {AddressAt(list, e) : e \in AllPlaces(list)}
  BY <1>11, <1>21
<1> QED BY <1>22, <1>23, <1>24 DEF Reported, R

\* Unless interfaces collide, every external IPv4 address of the machine is
\* published exactly once and nothing else is: a property that the runs check,
\* for every list of interfaces.
THEOREM AddressesAreReported == Spec => []EveryAddressReported
<1>1. Computed => EveryAddressReported
  <2> SUFFICES ASSUME Computed, Called("interfaces"),
                      \A i, j \in DOMAIN input.list : ~Collide(i, j)
               PROVE  LET external(i) ==
                              {k \in DOMAIN input.list[i].addresses :
                                   /\ input.list[i].addresses[k].family = "IPv4"
                                   /\ ~input.list[i].addresses[k].internal}
                          all == UNION {{<<i, k>> : k \in external(i)} :
                                           i \in DOMAIN input.list}
                          address(e) == input.list[e[1]].addresses[e[2]].address
                      IN  /\ Cardinality(DOMAIN Result) = Cardinality(all)
                          /\ {Result[k] : k \in DOMAIN Result}
                                 = {address(e) : e \in all}
                          /\ \A e \in all :
                                 (\A f \in all : f[1] = e[1] => e[2] <= f[2])
                                     => Result[input.list[e[1]].name] = address(e)
    BY DEF EveryAddressReported
  <2> DEFINE list == input.list
  <2>1. list \in InterfaceLists /\ Result = A!IpAddresses(list)
    BY DEF Computed, Called, Result
  <2>2. /\ list \in Seq(Interface)
        /\ \A i, j \in DOMAIN list : list[i].name = list[j].name => i = j
    BY <2>1, InterfacesAssumption
  <2>3. Distinct(list)
    BY <2>2 DEF Distinct, Collide
  <2>4. Reported(list)
    <3> HIDE DEF list
    <3> QED BY <2>2, <2>3, AllReported
  <2> QED BY <2>1, <2>4 DEF Reported, AllPlaces, Places, IsExternal, AddressAt
<1> QED BY <1>1, OutputIsComputed, PTL
=============================================================================

------------------------------ MODULE Formats -------------------------------
(***************************************************************************)
(* The functions of the program that turn data from outside into what it   *)
(* reports: the parsers, the reading and writing of characteristics and    *)
(* the list of addresses. A behaviour is one call of one of them.          *)
(***************************************************************************)
EXTENDS Parsers, Characteristics, FiniteSets

CONSTANTS
    Serials,            \* serial numbers a beacon can carry in its name
    Advertisements,     \* what is received in one discovery
    Texts,              \* texts a beacon can have been given
    Answers,            \* what characteristics with texts answer
    Configurations,     \* what the characteristics of readConfiguration answer
    Values,             \* records of type and value that are written
    HexSerials,         \* serial numbers in hexadecimal digits
    InterfaceLists      \* what os.networkInterfaces() returns

VARIABLES
    input,              \* the arguments of the call, with the kind of call
    output              \* the result as a sequence of one, or empty before

vars == <<input, output>>

A == INSTANCE Addresses

Managers == {"newer", "older"}

ASSUME AdvertisementsAssumption ==
    \A dev \in Advertisements :
        /\ dev.name \in {BlueBar(s) : s \in Serials} \cup {Unnamed}
        /\ dev.rssi \in -128 .. 127
        /\ dev.manufacturerData \in Bytes
        /\ dev.serviceData \in Seq([uuid : STRING, data : Bytes])

\* Texts are printable, of any length: no character is below the blank.
ASSUME TextsAssumption == Texts \subseteq Seq(32 .. 126)

IsAnswer(a) ==
    \/ a \in {Missing, Failed}
    \/ a = Data(a.bytes) /\ a.bytes \in Bytes

ASSUME BeaconsAssumption ==
    /\ \A a \in Answers : IsAnswer(a)
    /\ \A c \in Configurations, i \in DOMAIN ConfigFields :
           IsAnswer(c[ConfigFields[i]])
    /\ \A s \in HexSerials : s \in Seq(0 .. 15) /\ Len(s) = 12

\* Values are in the range of their type; node throws for others.
InRange(v) ==
    \/ v.type = "uint16" /\ v.value \in Nat /\ v.value < 65536
    \/ v.type = "uint8" /\ v.value \in 0 .. 255
    \/ v.type = "int8" /\ v.value \in -128 .. 127
    \/ v.type = "string" /\ v.value \in Texts

ASSUME ValuesAssumption == \A v \in Values : InRange(v)

\* The names of interfaces are keys of one object, hence different.
Address == [family : STRING, internal : BOOLEAN, address : Bytes]
Interface == [name : Seq(Nat), addresses : Seq(Address)]
ASSUME InterfacesAssumption ==
    \A list \in InterfaceLists :
        /\ list \in Seq(Interface)
        /\ \A i, j \in DOMAIN list : list[i].name = list[j].name => i = j

-----------------------------------------------------------------------------
Init ==
    /\ \/ \E d \in Advertisements : input = [kind |-> "device", device |-> d]
       \/ \E f \in InfoFields, a, b \in Answers :
              input = [kind |-> "info",
                       answers |-> [g \in InfoFields |-> IF g = f THEN a ELSE b]]
       \/ \E c \in Configurations : input = [kind |-> "configuration", answers |-> c]
       \/ \E s \in HexSerials, v \in Values :
              input = [kind |-> "write", serial |-> s, written |-> v]
       \/ \E i \in InterfaceLists : input = [kind |-> "interfaces", list |-> i]
    /\ output = <<>>

Call(kind, result) ==
    /\ input.kind = kind
    /\ output = <<>>
    /\ output' = <<result>>
    /\ UNCHANGED input

Discover == Call("device", Resolve(input.device))

ReadDeviceInfo ==
    Call("info", [m \in Managers |-> DeviceInfo(m, input.answers)])

ReadConfiguration ==
    Call("configuration", [m \in Managers |-> Configuration(m, input.answers)])

WriteValue ==
    Call("write", Write(input.serial, input.written.type, input.written.value))

PublishInfo == Call("interfaces", A!IpAddresses(input.list))

Next == Discover \/ ReadDeviceInfo \/ ReadConfiguration \/ WriteValue \/ PublishInfo

Spec == Init /\ [][Next]_vars

-----------------------------------------------------------------------------
(* Correctness: advertisements *)

Result == output[1]
Called(kind) == input.kind = kind /\ output # <<>>

Found(type) == {i \in DOMAIN Result : Result[i].type = type}
IBeacons == {Result[i] : i \in Found("iBeacon")}
          \cup {Result[i].beacon : i \in Found("blueSenseBeacon")}

\* The bytes of an iBeacon, as its format defines them (ibeacon.json).
Encoded(m) ==
    <<76, 0, 2, 21>> \o m.uuid
        \o <<m.major \div 256, m.major % 256, m.minor \div 256, m.minor % 256>>
        \o <<m.measuredPower % 256>>

\* What is reported of an iBeacon is what it sends: writing the model down
\* as the format prescribes gives its frame back.
IBeaconReencodes ==
    Called("device") => \A m \in IBeacons :
        Encoded(m) = SubSeq(input.device.manufacturerData, 1, 25)

\* A frame that has the length of its format never makes a parser throw,
\* whatever it contains: 23 bytes of sensor data (the table in
\* sensoro-yunzi-beacon.js:5-33), 20 of an Eddystone UID, 14 of TLM.
WellFormed(f) ==
    \/ f.uuid = "81e7" /\ Len(f.data) = 23
    \/ /\ f.uuid = "feaa" /\ f.data # <<>>
       /\ UInt8(f.data, 0) = EddystoneUid => Len(f.data) = 20
       /\ UInt8(f.data, 0) = EddystoneTlm => Len(f.data) = 14
WellFormedNeverThrows ==
    Called("device") =>
        \/ Result # Thrown
        \/ \E i \in DOMAIN input.device.serviceData :
               ~WellFormed(input.device.serviceData[i])

\* A beacon that is received better is never reported as farther away, for
\* measured powers as they occur, below zero.
Zones == <<"immediate", "near", "far">>
Zone(z) == CHOOSE i \in DOMAIN Zones : Zones[i] = z
NearerIsLouder ==
    Called("device") => \A m \in IBeacons : m.measuredPower < 0 =>
        \A r \in input.device.rssi .. 0 :
            Zone(Proximity(r, m.measuredPower)) <= Zone(m.proximity)

-----------------------------------------------------------------------------
(* Correctness: characteristics and addresses *)

\* The bytes of a text are also those of a shorter one behind its length.
Ambiguous(t) == t # <<>> /\ t = <<Len(Tail(t))>> \o Tail(t)

\* What may be read of a text stored without its length: the text itself.
\* Only from 33 characters on, the blank being 32, can it be mistaken for one
\* with its length, and then nobody can tell; it costs the first character.
ReadAs(t, result) ==
    \/ result = Text(t)
    \/ Len(t) >= 33 /\ Ambiguous(t) /\ result = Text(Tail(t))

\* A text the beacon stores behind its length is read as it was given,
\* whatever its first character; one stored without is, too, unless its bytes
\* do not say which of the two it is (ble-device.js:111).
TextSurvives ==
    Called("info") => \A t \in Texts, f \in InfoFields, m \in Managers :
        /\ input.answers[f] = Data(<<Len(t)>> \o t) => Result[m][f] = Text(t)
        /\ input.answers[f] = Data(t) => ReadAs(t, Result[m][f])

\* How many bytes a field of the configuration needs.
Needed(f) ==
    CASE f \in {"major", "minor", "advInterval"} -> 2
      [] f = "uuid" -> 0
      [] OTHER -> 1

Present(i) == input.answers[ConfigFields[i]].kind = "data"
Short(i) == Present(i) /\ Len(input.answers[ConfigFields[i]].bytes) < Needed(ConfigFields[i])

\* A field the beacon does not have, or that could not be read, costs the
\* newer manager nothing but that field; only data that is too short ends
\* its series. Where the older one, from which it was made, gets to the end,
\* the two agree on every field that was there.
MissingIsSkipped ==
    Called("configuration") =>
        LET newer == Result["newer"]  older == Result["older"]
        IN  /\ newer.ended <=> \A i \in DOMAIN ConfigFields : ~Short(i)
            /\ newer.ended => \A i \in DOMAIN ConfigFields :
                   Present(i) <=> newer.fields[i] # Undefined
            /\ older.ended => newer.ended /\ \A i \in DOMAIN ConfigFields :
                   Present(i) => newer.fields[i] = older.fields[i]

\* What is written arrives: a beacon that takes the write if it begins with
\* the third and fourth byte of its serial number stores what is behind
\* them, and both managers read the same value back, up to what befalls a
\* text that is stored without its length.
Stored == SubSeq(Result, 3, Len(Result))
ReadBack(m, type) ==
    CASE type = "string" -> ReadString(m, Data(Stored))
      [] type = "uint16" -> ReadUInt16(m, Data(Stored))
      [] type = "uint8" -> ReadUInt8(m, Data(Stored))
      [] type = "int8" -> ReadInt8(m, Data(Stored))
WrittenIsRead ==
    Called("write") =>
        LET w == input.written
        IN  /\ SubSeq(Result, 1, 2) = SubSeq(FromHex(input.serial), 3, 4)
            /\ \A m \in Managers :
                   IF w.type = "string" THEN ReadAs(w.value, ReadBack(m, w.type))
                   ELSE ReadBack(m, w.type) = Number(w.value)

\* Two interfaces collide if the name of one is that of the other and a
\* number: the second address of "br" has the name of the interface "br1".
NumberBehind(other, name) ==
    /\ Len(other) < Len(name) /\ SubSeq(name, 1, Len(other)) = other
    /\ name[Len(other) + 1] # 0
    /\ \A k \in Len(other) + 1 .. Len(name) : name[k] \in 0 .. 9
Collide(i, j) == NumberBehind(input.list[j].name, input.list[i].name)

\* Unless interfaces collide, every external IPv4 address of the machine is
\* published exactly once and nothing else is, and the first of an interface
\* has the interface's name.
EveryAddressReported ==
    Called("interfaces") =>
        \/ \E i, j \in DOMAIN input.list : Collide(i, j)
        \/ LET external(i) == {k \in DOMAIN input.list[i].addresses :
                                   /\ input.list[i].addresses[k].family = "IPv4"
                                   /\ ~input.list[i].addresses[k].internal}
               all == UNION {{<<i, k>> : k \in external(i)} : i \in DOMAIN input.list}
               address(e) == input.list[e[1]].addresses[e[2]].address
           IN  /\ Cardinality(DOMAIN Result) = Cardinality(all)
               /\ {Result[k] : k \in DOMAIN Result} = {address(e) : e \in all}
               /\ \A e \in all : (\A f \in all : f[1] = e[1] => e[2] <= f[2])
                      => Result[input.list[e[1]].name] = address(e)
=============================================================================

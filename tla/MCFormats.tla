----------------------------- MODULE MCFormats ------------------------------
EXTENDS Formats
CONSTANTS lower, upper
Edges == {0, 1, 127, 128, 255}
Numbered(n) == [i \in 1 .. n |-> i]
Repeated(c, n) == [i \in 1 .. n |-> c]

\* iBeacon frames, and frames that miss the format by one byte.
Headers == {<<76, 0, 2, 21>>, <<77, 0, 2, 21>>, <<76, 1, 2, 21>>,
            <<76, 0, 3, 21>>, <<76, 0, 2, 20>>}
Frame(header, major, minor, power) ==
    header \o Numbered(16) \o <<major, 7, 9, minor, power>>
IBeaconFrames ==
    {Frame(<<76, 0, 2, 21>>, major, minor, power) :
         major \in Edges, minor \in {0, 255}, power \in {0, 1, 127, 128, 197, 255}}
MissedFrames ==
    {<<>>, SubSeq(Frame(<<76, 0, 2, 21>>, 1, 1, 197), 1, 24)}
    \cup {Frame(header, 1, 1, 197) : header \in Headers}
    \cup {Frame(<<76, 0, 2, 21>>, 1, 1, 197) \o <<5>>}

\* Sensor and Eddystone frames of all lengths around the ones needed.
SensorFrames == {[uuid |-> "81e7", data |-> Numbered(n)] : n \in {0, 10, 17, 18, 19, 23}}
EddystoneFrames ==
    {[uuid |-> "feaa", data |-> <<>>]}
    \cup {[uuid |-> "feaa", data |-> <<kind>> \o Numbered(n)] :
              kind \in {0, 16, 32}, n \in {0, 1, 4, 5, 13, 19}}
ServiceData ==
    {<<>>} \cup {<<f>> : f \in SensorFrames \cup EddystoneFrames}
    \cup {<<s, e>> : s \in SensorFrames, e \in EddystoneFrames}
    \cup {<<e, s>> : s \in SensorFrames, e \in EddystoneFrames}

Advert(name, rssi, m, s) ==
    [name |-> name, rssi |-> rssi, manufacturerData |-> m, serviceData |-> s]
MCAdvertisements ==
    {Advert(name, rssi, m, <<>>) :
        name \in {Unnamed, BlueBar(lower)}, m \in IBeaconFrames \cup MissedFrames,
        rssi \in {-128, -82, -81, -60, -48, -47, -15, 0, 127}}
    \cup {Advert(BlueBar(upper), -60, Frame(<<76, 0, 2, 21>>, 1, 1, 197), s) :
               s \in ServiceData}

\* Texts whose first character comes close to their length or to one less,
\* below, at and beyond the 33 characters where a blank is a length, and
\* others.
MCTexts ==
    {<<>>, <<32>>, <<49>>, <<66, 76, 85>>}
    \cup {Repeated(c, n) : c \in 32 .. 34, n \in 31 .. 34}
    \cup {<<c>> \o Repeated(50, 65) : c \in 64 .. 66}
MCAnswers ==
    {Missing, Failed} \cup {Data(t) : t \in MCTexts}
    \cup {Data(<<Len(t)>> \o t) : t \in MCTexts}

\* All fields are there except up to two, which are missing, failed, short,
\* longer than needed or at the edges of their type.
Usual(f) == Data(IF f = "uuid" THEN <<171, 18>> ELSE <<1, 200>>)
Unusual == {Missing, Failed, Data(<<>>), Data(<<255>>), Data(<<128, 0>>),
            Data(<<127, 255, 3>>)}
Fields == {ConfigFields[i] : i \in DOMAIN ConfigFields}
MCConfigurations ==
    {[h \in Fields |-> IF h = f THEN a ELSE IF h = g THEN b ELSE Usual(h)] :
         f, g \in Fields, a, b \in Unusual}

MCValues ==
    [type : {"uint16"}, value : {0, 1, 255, 256, 65535}]
    \cup [type : {"uint8"}, value : Edges]
    \cup [type : {"int8"}, value : {-128, -1, 0, 127}]
    \cup [type : {"string"}, value : MCTexts]
MCHexSerials == {<<8, 8, 3, 3, 1, 4, 7, 14, 0, 2, 14, 14>>, Repeated(0, 12),
                 Repeated(15, 12)}

\* Up to three interfaces, two of which can collide, with up to three
\* addresses each, and one with more than ten.
Listed(f, i, a) == [family |-> f, internal |-> i, address |-> a]
AddressLists(n) ==
    LET own(k, f, i) == Listed(f, i, <<n, k>>)
    IN  {<<>>, <<own(1, "IPv4", TRUE), own(2, "IPv6", TRUE)>>,
         <<own(1, "IPv4", FALSE)>>, <<own(1, "IPv6", FALSE)>>,
         <<own(1, "IPv4", FALSE), own(2, "IPv4", FALSE), own(3, "IPv6", FALSE)>>,
         <<own(1, "IPv6", FALSE), own(2, "IPv4", FALSE), own(3, "IPv4", FALSE)>>,
         <<own(1, "IPv4", FALSE), own(2, "IPv4", TRUE), own(3, "IPv4", FALSE)>>}
lo == <<11, 12>>
br == <<13, 14>>
MCInterfaceLists ==
    {<<>>, <<[name |-> lo, addresses |-> [k \in 1 .. 21 |->
                  Listed("IPv4", FALSE, <<1, k>>)]]>>} \cup
    {<<[name |-> lo, addresses |-> a], [name |-> br \o <<0>>, addresses |-> b],
       [name |-> br \o third, addresses |-> c]>> :
         third \in {<<1>>, <<0, 1>>},
         a \in AddressLists(1), b \in AddressLists(2), c \in AddressLists(3)}
=============================================================================

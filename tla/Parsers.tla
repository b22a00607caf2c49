------------------------------ MODULE Parsers -------------------------------
(***************************************************************************)
(* monitor/resolver.js and the three parsers under it: what an             *)
(* advertisement, a record of name, rssi, manufacturerData and             *)
(* serviceData, is reported as.                                            *)
(***************************************************************************)
EXTENDS Buffers, Lists

Unnamed == [bluebar |-> FALSE]              \* any name but a beacon's, or none
BlueBar(s) == [bluebar |-> TRUE, serial |-> s]  \* "BlueBar Beacon <serial>"

-----------------------------------------------------------------------------
(* The iBeacon format                                                      *)

\* A mutated Below: the sign of the measured power is overlooked.
BelowUnsigned(rssi, power, limit) == 1000 * rssi < limit * power

\* rssi / power < limit / 1000, in the arithmetic of JavaScript, where the
\* quotient of a negative number by zero is minus infinity.
Below(rssi, power, limit) ==
    \/ power < 0 /\ 1000 * rssi > limit * power
    \/ power > 0 /\ 1000 * rssi < limit * power
    \/ power = 0 /\ rssi < 0

\* accuracy = 12 ^ (1.5 * (rssi / power - 1)) is below 0.5 as long as the
\* quotient is below 0.81404, and below 4 as long as it is below 1.37192.
\* No two bytes have a quotient between either number and its rounding.
Proximity(rssi, power) ==
    IF Below(rssi, power, 814) THEN "immediate"
    ELSE IF Below(rssi, power, 1372) THEN "near" ELSE "far"

IsIBeacon(b) ==
    /\ Len(b) >= 25
    /\ UInt16LE(b, 0) = 76
    /\ UInt8(b, 2) = 2
    /\ UInt8(b, 3) = 21

\* A mutated IBeacon: major and minor are read in the order of the company.
IBeaconLittleEndian(dev) ==
    LET b == dev.manufacturerData
    IN  [type |-> "iBeacon", uuid |-> SubSeq(b, 5, 20),
         major |-> UInt16LE(b, 20), minor |-> UInt16LE(b, 22),
         measuredPower |-> Int8(b, 24),
         proximity |-> Proximity(dev.rssi, Int8(b, 24))]

\* The model IBeacon.parse() makes of a frame that passes IsIBeacon.
IBeacon(dev) ==
    LET b == dev.manufacturerData
    IN  [type |-> "iBeacon", uuid |-> SubSeq(b, 5, 20),
         major |-> UInt16BE(b, 20), minor |-> UInt16BE(b, 22),
         measuredPower |-> Int8(b, 24),
         proximity |-> Proximity(dev.rssi, Int8(b, 24))]

ParseIBeacon(dev) ==
    IF IsIBeacon(dev.manufacturerData) THEN <<IBeacon(dev)>> ELSE <<>>

\* A beacon of our own is an iBeacon with a name that carries its serial.
ParseBlueSense(dev) ==
    IF IsIBeacon(dev.manufacturerData) /\ dev.name.bluebar
    THEN <<[type |-> "blueSenseBeacon", serial |-> dev.name.serial,
            beacon |-> IBeacon(dev)]>>
    ELSE <<>>

-----------------------------------------------------------------------------
(* The Sensoro Yunzi format: a sensor frame and perhaps an Eddystone frame *)

Frames(dev, uuid) ==
    Filter(dev.serviceData, {s \in ToSet(dev.serviceData) : s.uuid = uuid})
Sensor(dev) == Frames(dev, "81e7")
Eddystone(dev) == Frames(dev, "feaa")

EddystoneUid == 0
EddystoneTlm == 32

\* A mutated SensorReadable: the frame's last byte is read as well.
SensorReadableToEnd(b) == Readable(b, 22, 2)

\* Battery, luminosity, move count and movement can be read.
SensorReadable(b) ==
    Readable(b, 10, 1) /\ Readable(b, 14, 2) /\ Readable(b, 16, 2)
        /\ Readable(b, 18, 1)

\* The frame type can be read, and then the power or the temperature.
EddystoneReadable(b) ==
    /\ Readable(b, 0, 1)
    /\ UInt8(b, 0) = EddystoneUid => Readable(b, 1, 1)
    /\ UInt8(b, 0) = EddystoneTlm => Readable(b, 4, 2)

SensoroThrows(dev) ==
    /\ Sensor(dev) # <<>>
    /\ \/ ~SensorReadable(Head(Sensor(dev)).data)
       \/ Eddystone(dev) # <<>> /\ ~EddystoneReadable(Head(Eddystone(dev)).data)

\* The temperature is there if the Eddystone frame is a TLM frame. The
\* parser reads the power of a UID frame too, but the model drops it.
Temperature(dev) ==
    {UInt16LE(f.data, 4) : f \in {g \in {Head(Eddystone(dev))} :
                                      UInt8(g.data, 0) = EddystoneTlm}}

ParseSensoro(dev) ==
    IF Sensor(dev) = <<>> THEN <<>>
    ELSE LET b == Head(Sensor(dev)).data
         IN  <<[type |-> "sensoroYunziBeacon", battery |-> UInt8(b, 10),
                luminosity |-> UInt16LE(b, 14), moveCount |-> UInt16LE(b, 16),
                isMoving |-> UInt8(b, 18),
                temperature |-> IF Eddystone(dev) = <<>> THEN {}
                                ELSE Temperature(dev)]>>

-----------------------------------------------------------------------------
(* The resolver                                                            *)

Thrown == <<[type |-> "thrown"]>>

\* resolve(): what all parsers found, in the order of parsers/index.js; if
\* one throws, the models of the others are lost with its own.
Resolve(dev) ==
    IF SensoroThrows(dev) THEN Thrown
    ELSE ParseBlueSense(dev) \o ParseIBeacon(dev) \o ParseSensoro(dev)
=============================================================================

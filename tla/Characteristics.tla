--------------------------- MODULE Characteristics --------------------------
(***************************************************************************)
(* What the sync managers make of the characteristics of a connected       *)
(* beacon: controller/sync-managers/ble-device.js with its subclass        *)
(* blueSense-beacon.js ("newer"), and bluebar.js ("older"), which the      *)
(* newer ones were made from.                                              *)
(***************************************************************************)
EXTENDS Buffers

\* How a characteristic answers a read.
Data(b) == [kind |-> "data", bytes |-> b]
Missing == [kind |-> "missing"]         \* the beacon does not have it
Failed == [kind |-> "failed"]           \* the read ends with an error

\* What a read function passes to its callback, if it does not throw.
Undefined == [kind |-> "undefined"]
Number(n) == [kind |-> "number", number |-> n]
Text(t) == [kind |-> "text", text |-> t]
Unreadable == [kind |-> "thrown"]

-----------------------------------------------------------------------------
(* Reading                                                                 *)

\* A mutated Unprefixed: the prefix is compared with the whole length.
UnprefixedByLength(b) == IF b # <<>> /\ b[1] = Len(b) THEN Tail(b) ELSE b

\* A first byte that is the number of bytes after it is not part of a text.
Unprefixed(b) == IF b # <<>> /\ b[1] = Len(b) - 1 THEN Tail(b) ELSE b

\* A mutated Otherwise: the newer managers do not look what they got either.
OtherwiseThrown(manager, a) == Unreadable

\* A number that was not read is skipped by the newer managers; the older
\* one calls a method of the empty string or of undefined.
Otherwise(manager, a) == IF manager = "newer" THEN Undefined ELSE Unreadable

ReadString(manager, a) ==
    IF a.kind = "data" THEN Text(Unprefixed(a.bytes))
    ELSE IF manager = "newer" THEN Undefined ELSE Text(<<>>)

ReadUInt16(manager, a) ==
    IF a.kind # "data" THEN Otherwise(manager, a)
    ELSE IF Readable(a.bytes, 0, 2) THEN Number(UInt16BE(a.bytes, 0)) ELSE Unreadable

ReadUInt8(manager, a) ==
    IF a.kind # "data" THEN Otherwise(manager, a)
    ELSE IF Readable(a.bytes, 0, 1) THEN Number(UInt8(a.bytes, 0)) ELSE Unreadable

ReadInt8(manager, a) ==
    IF a.kind # "data" THEN Otherwise(manager, a)
    ELSE IF Readable(a.bytes, 0, 1) THEN Number(Int8(a.bytes, 0)) ELSE Unreadable

\* The older manager has the empty string for a missing UUID, but undefined
\* for one whose read failed.
ReadUuid(manager, a) ==
    IF a.kind = "data" THEN Text(Hex(a.bytes))
    ELSE IF manager = "older" /\ a = Missing THEN Text(<<>>)
    ELSE Otherwise(manager, a)

-----------------------------------------------------------------------------
(* The two series of reads; answers is a function from fields.             *)

InfoFields == {"deviceName", "serialNumber", "manufacturerName", "modelNumber",
               "hardwareRevision", "firmwareRevision"}

\* readDeviceInfo(): no read of a text throws, so the series always ends.
DeviceInfo(manager, answers) ==
    [f \in InfoFields |-> ReadString(manager, answers[f])]

ConfigFields == <<"uuid", "major", "minor", "advInterval", "txPower",
                  "txCalibrationValue", "batteryLevel">>

ReadConfig(manager, f, a) ==
    CASE f = "uuid" -> ReadUuid(manager, a)
      [] f \in {"major", "minor", "advInterval"} -> ReadUInt16(manager, a)
      [] f = "txPower" -> ReadUInt8(manager, a)
      [] f \in {"txCalibrationValue", "batteryLevel"} -> ReadInt8(manager, a)

Unread(f) == IF f = "uuid" THEN Text(<<>>) ELSE Number(-1)

\* readConfiguration(): what is known of the beacon when the series ends, or
\* when a read throws and with it the series; ended says which.
Configuration(manager, answers) ==
    LET value(i) == ReadConfig(manager, ConfigFields[i], answers[ConfigFields[i]])
        thrown(i) == \E j \in 1 .. i : value(j) = Unreadable
    IN  [ended |-> ~thrown(Len(ConfigFields)),
         fields |-> [i \in DOMAIN ConfigFields |->
                        IF thrown(i) THEN Unread(ConfigFields[i]) ELSE value(i)]]

-----------------------------------------------------------------------------
(* Writing. A serial number is a sequence of hexadecimal digits.           *)

\* A mutated AuthKey: substr counts from 1.
AuthKeyShifted(serial) == SubSeq(serial, 4, 7)

\* serial.substr(4, 4)
AuthKey(serial) == SubSeq(serial, 5, 8)

\* The write functions by the type of the value: its bytes ...
Encode(type, value) ==
    CASE type = "string" -> value
      [] type = "uint16" -> Word(value)
      [] type \in {"uint8", "int8"} -> Byte(value)

\* ... are written behind the key.
Write(serial, type, value) == FromHex(AuthKey(serial)) \o Encode(type, value)
=============================================================================

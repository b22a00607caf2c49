------------------------------ MODULE Buffers -------------------------------
(***************************************************************************)
(* node's Buffer, as far as the program uses it: byte strings are          *)
(* sequences of 0 .. 255, offsets begin at 0, and a read that is not       *)
(* Readable throws.                                                        *)
(***************************************************************************)
EXTENDS Integers, Sequences

Bytes == Seq(0 .. 255)

Readable(b, o, size) == o + size <= Len(b)

UInt8(b, o) == b[o + 1]
Int8(b, o) == IF UInt8(b, o) < 128 THEN UInt8(b, o) ELSE UInt8(b, o) - 256
UInt16LE(b, o) == UInt8(b, o) + 256 * UInt8(b, o + 1)
UInt16BE(b, o) == 256 * UInt8(b, o) + UInt8(b, o + 1)

\* The bytes that writeUInt8 and writeInt8, and writeUInt16BE, leave behind.
Byte(n) == <<n % 256>>
Word(n) == <<n \div 256, n % 256>>

\* toString('hex') as a sequence of digits, and new Buffer(digits, 'hex').
Hex(b) == [i \in 1 .. 2 * Len(b) |->
              IF i % 2 = 1 THEN b[(i + 1) \div 2] \div 16 ELSE b[i \div 2] % 16]
FromHex(h) == [i \in 1 .. Len(h) \div 2 |-> 16 * h[2 * i - 1] + h[2 * i]]
=============================================================================

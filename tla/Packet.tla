------------------------------- MODULE Packet -------------------------------
(***************************************************************************)
(* A glnet::Packet (include/Data/Packet.hpp): filled with values and       *)
(* strings, sent, received as another Packet, and read.                    *)
(*                                                                         *)
(* The class keeps three numbers beside its vector of bytes: length, which *)
(* the sender puts on the wire and copies by; the offset the next value is *)
(* written at; and the offset the next item is read at.  Nothing but the   *)
(* operators << and >> keeps them in agreement, and the receiver fills in  *)
(* bytes and length behind their back.                                     *)
(*                                                                         *)
(* A value of a trivially copyable type is the sequence of its bytes.  A   *)
(* byte has Base values: 256 in the code, fewer in a run, so that a string *)
(* of the greatest size its two-byte header can hold, Base * Base - 1,     *)
(* stays small.                                                            *)
(*                                                                         *)
(* As in module Server, a name that ends in _Slip is a mistake the         *)
(* properties must notice.                                                 *)
(***************************************************************************)
EXTENDS Naturals, Sequences

CONSTANTS
    Base,       \* number of values of a byte
    Values,     \* the values the application writes
    Strings,    \* the strings the application writes
    MaxBytes,   \* bound: bytes written to a packet, and where a read starts
    Relays,     \* TRUE: it also appends to packets it has received
    InStep      \* TRUE: it reads the types that were written, in that order

Byte == 0 .. Base - 1

ASSUME PacketAssumption ==
    /\ Base \in Nat \ {0, 1}
    /\ Values \subseteq Seq(Byte)
    /\ Strings \subseteq Seq(Byte)
    /\ MaxBytes \in Nat
    /\ Relays \in BOOLEAN
    /\ InStep \in BOOLEAN

VARIABLES
    bytes,
    length,
    writeOffset,    \* writeOffset_
    readOffset,     \* readOffset_
    received,       \* this Packet was filled by readBody or readDatagram
    items,          \* history: what was written, and where it should start
    taken,          \* history: how many items were read from this Packet
    got             \* history: the item read last

history == <<items, taken, got>>
vars == <<bytes, length, writeOffset, readOffset, received, history>>

Kinds == {"value", "string"}

Items == [kind : Kinds, data : Seq(Byte), at : Nat]

TypeOK ==
    /\ bytes \in Seq(Byte)
    /\ length \in Nat
    /\ writeOffset \in Nat
    /\ readOffset \in Nat
    /\ received \in BOOLEAN
    /\ items \in Seq(Items)
    /\ taken \in Nat
    /\ got \in Seq(Byte)

Init ==
    /\ bytes = <<>>
    /\ length = 0
    /\ writeOffset = 0
    /\ readOffset = 0
    /\ received = FALSE
    /\ items = <<>>
    /\ taken = 0
    /\ got = <<>>

-----------------------------------------------------------------------------
(* The size of a string travels in front of it, most significant byte      *)
(* first: utils::Converter with two bytes, unrolled.                       *)

StringHeaderSize == 2

MaxString == Base * Base - 1

numberToBytes_Slip(number) == <<number \div Base, number>>

numberToBytes(number) == <<(number \div Base) % Base, number % Base>>

bytesToNumber(header) == header[1] * Base + header[2]

-----------------------------------------------------------------------------
(* Writing.                                                                *)

Zeros(size) == [k \in 1 .. size |-> 0]

(* memcpy of data to an offset of buffer, which is large enough.           *)
Patched(buffer, offset, data) ==
    [k \in 1 .. Len(buffer) |->
       IF k \in offset + 1 .. offset + Len(data) THEN data[k - offset]
                                                 ELSE buffer[k]]

Writable(size) ==
    /\ received => Relays
    /\ Len(bytes) + size <= MaxBytes

(* Both operators advance the write offset and the length alike.           *)
Advance(kind, data, size) ==
    /\ writeOffset' = writeOffset + size
    /\ length' = length + size
    /\ items' = Append(items, [kind |-> kind, data |-> data, at |-> Len(bytes)])
    /\ UNCHANGED <<readOffset, received, taken, got>>

(* A value goes where the write offset says, into a vector that was        *)
(* lengthened by its size.                                                 *)
WriteValue(data) ==
    /\ Writable(Len(data))
    /\ bytes' = Patched(bytes \o Zeros(Len(data)), writeOffset, data)
    /\ Advance("value", data, Len(data))

StringFits_Slip(data) == Len(data) <= MaxString + 1

(* A longer string is refused before anything is changed.                  *)
StringFits(data) == Len(data) <= MaxString

WriteString_Slip(data) ==
    /\ StringFits(data)
    /\ Writable(StringHeaderSize + Len(data))
    /\ bytes' = bytes \o numberToBytes(Len(data)) \o data
    /\ Advance("string", data, Len(data))

(* A string goes to the end of the vector, whatever the write offset says. *)
WriteString(data) ==
    /\ StringFits(data)
    /\ Writable(StringHeaderSize + Len(data))
    /\ bytes' = bytes \o numberToBytes(Len(data)) \o data
    /\ Advance("string", data, StringHeaderSize + Len(data))

-----------------------------------------------------------------------------
(* Sending copies length bytes; the receiver sets bytes and length of a    *)
(* new Packet, whose offsets are both 0.  From here on this module is      *)
(* about that one.                                                         *)

Transmit ==
    /\ bytes' = SubSeq(bytes, 1, length)
    /\ writeOffset' = 0
    /\ readOffset' = 0
    /\ received' = TRUE
    /\ taken' = 0
    /\ got' = <<>>
    /\ UNCHANGED <<length, items>>

-----------------------------------------------------------------------------
(* Reading.  Past the end of the vector there is whatever there is: beyond *)
(* stands for it.                                                          *)

Memory(offset, size, beyond) ==
    [k \in 1 .. size |-> IF offset + k <= Len(bytes) THEN bytes[offset + k]
                                                     ELSE beyond]

Upcoming == items[taken + 1]

Expected(kind) == taken < Len(items) /\ Upcoming.kind = kind

Took(data, size) ==
    /\ got' = data
    /\ readOffset' = readOffset + size
    /\ taken' = taken + 1
    /\ UNCHANGED <<bytes, length, writeOffset, received, items>>

(* The guard of the code: it throws when the whole vector is smaller than  *)
(* the value.                                                              *)
Sufficient(size) == Len(bytes) >= size

ReadValue(size, beyond) ==
    /\ InStep => Expected("value") /\ size = Len(Upcoming.data)
    /\ Sufficient(size)
    /\ Took(Memory(readOffset, size, beyond), size)

ReadString_Slip(beyond) ==
    LET size == bytesToNumber(Memory(readOffset, StringHeaderSize, beyond))
    IN  /\ InStep => Expected("string")
        /\ readOffset <= Len(bytes)
        /\ Took(Memory(readOffset + StringHeaderSize, size, beyond), size)

(* The header is read from a copy of the vector's rest, which cannot be    *)
(* made when the offset is beyond the end.                                 *)
ReadString(beyond) ==
    LET size == bytesToNumber(Memory(readOffset, StringHeaderSize, beyond))
    IN  /\ InStep => Expected("string")
        /\ readOffset <= Len(bytes)
        /\ Took(Memory(readOffset + StringHeaderSize, size, beyond),
                StringHeaderSize + size)

Next ==
    \/ \E data \in Values : WriteValue(data)
    \/ \E data \in Strings : WriteString(data)
    \/ Transmit
    \/ /\ readOffset <= MaxBytes
       /\ \E beyond \in Byte :
            \/ \E data \in Values : ReadValue(Len(data), beyond)
            \/ ReadString(beyond)

Spec == Init /\ [][Next]_vars

-----------------------------------------------------------------------------
(* Length and write offset describe the vector: sending copies its bytes   *)
(* and no others, and << writes inside it.                                 *)
SizesAgree == length = Len(bytes) /\ writeOffset <= length

(* What is read is what was written.                                       *)
ReadBack == taken > 0 => got = items[taken].data

(* When every item has been read, so has every byte.                       *)
NothingLeft == taken = Len(items) => readOffset = Len(bytes)

(* A reader in step with the writer stays inside the vector: the offset    *)
(* never leaves it, whatever is read.                                      *)
ReadsStayInside == readOffset <= Len(bytes)

(* What the guard of >> says it is for, "Insufficient data to transform    *)
(* into the target type": a value whose reading begins inside the vector   *)
(* ends inside it, or it is refused.                                       *)
ValuesStayInside ==
    [][\A data \in Values, beyond \in Byte :
         ReadValue(Len(data), beyond) /\ readOffset <= Len(bytes)
           => readOffset + Len(data) <= Len(bytes)]_vars
=============================================================================

----------------------------- MODULE PacketProofs -----------------------------
(***************************************************************************)
(* Proofs about module Packet, for every byte size, every set of values    *)
(* and strings and any number of items.                                    *)
(***************************************************************************)
EXTENDS Packet, SequenceTheorems, TLAPS

-----------------------------------------------------------------------------
(* The sizes of a packet, and what a fresh one has beyond them.            *)

SizeInv == TypeOK /\ SizesAgree

(* The layout: each item lies in the bytes where the one before it ends.   *)

SizeOf(item) ==
    IF item.kind = "value" THEN Len(item.data)
                           ELSE StringHeaderSize + Len(item.data)

(* Where item k starts, or would if it were the next one.                  *)
Position(written, buffer, k) ==
    IF k <= Len(written) THEN written[k].at ELSE Len(buffer)

Holds(buffer, offset, data) ==
    /\ offset + Len(data) <= Len(buffer)
    /\ \A j \in 1 .. Len(data) : buffer[offset + j] = data[j]

Stored(buffer, item) ==
    IF item.kind = "value"
      THEN Holds(buffer, item.at, item.data)
      ELSE /\ StringFits(item.data)
           /\ Holds(buffer, item.at, numberToBytes(Len(item.data)))
           /\ Holds(buffer, item.at + StringHeaderSize, item.data)

Layout ==
    /\ ~received => writeOffset = Len(bytes)
    /\ Position(items, bytes, 1) = 0
    /\ \A k \in 1 .. Len(items) :
         Position(items, bytes, k + 1) = items[k].at + SizeOf(items[k])
    /\ \A k \in 1 .. Len(items) : Stored(bytes, items[k])

Reading ==
    /\ taken <= Len(items)
    /\ readOffset = Position(items, bytes, taken + 1)
    /\ ReadBack

IInv == SizeInv /\ Layout /\ Reading

-----------------------------------------------------------------------------
(* About the operators.                                                    *)

(* The parts of an item that its place and its bytes depend on.            *)
LEMMA ItemParts ==
    ASSUME NEW i \in Items
    PROVE  i.at \in Nat /\ i.data \in Seq(Byte)
  BY DEF Items

(* Two digits in base Base hold every size up to MaxString.                *)
LEMMA DigitsOfNumber ==
    ASSUME NEW n \in Nat
    PROVE  /\ n \div Base \in Nat
           /\ n % Base \in Byte
           /\ n = (n \div Base) * Base + (n % Base)
  BY PacketAssumption, SMT DEF Byte

LEMMA HeaderType ==
    ASSUME NEW n \in Nat
    PROVE  /\ numberToBytes(n) \in Seq(Byte)
           /\ Len(numberToBytes(n)) = StringHeaderSize
<1>1. n \div Base \in Nat /\ n % Base \in Byte
  BY DigitsOfNumber
<1>2. (n \div Base) % Base \in Byte
  BY <1>1, DigitsOfNumber
<1>. QED  BY <1>1, <1>2 DEF numberToBytes, StringHeaderSize

(* The header of a string that fits gives back its size.                   *)
LEMMA HeaderRoundTrip ==
    ASSUME NEW n \in 0 .. MaxString
    PROVE  bytesToNumber(numberToBytes(n)) = n
<1>. DEFINE q == n \div Base
            r == n % Base
<1>1. q \in Nat /\ r \in 0 .. Base - 1 /\ n = q * Base + r /\ Base \in Nat \ {0, 1}
  <2>1. n \in Nat
    BY DEF MaxString
  <2>. QED  BY <2>1, DigitsOfNumber, PacketAssumption DEF Byte
<1>2. n < Base * Base
  BY PacketAssumption DEF MaxString
<1>. HIDE DEF q, r
<1>3. q < Base
  <2>. SUFFICES ASSUME q >= Base PROVE FALSE
    BY <1>1
  <2>1. q * Base >= Base * Base
    BY <1>1
  <2>. QED  BY <1>1, <1>2, <2>1
<1>4. q % Base = q
  BY <1>1, <1>3
<1>5. bytesToNumber(numberToBytes(n)) = (q % Base) * Base + r
  BY DEF bytesToNumber, numberToBytes, q, r
<1>. QED  BY <1>1, <1>4, <1>5

LEMMA Concatenation ==
    ASSUME NEW front \in Seq(Byte), NEW back \in Seq(Byte)
    PROVE  /\ front \o back \in Seq(Byte)
           /\ Len(front \o back) = Len(front) + Len(back)
           /\ \A k \in 1 .. Len(front) : (front \o back)[k] = front[k]
           /\ \A k \in 1 .. Len(back) : (front \o back)[Len(front) + k] = back[k]
<1>1. /\ front \o back \in Seq(Byte)
      /\ Len(front \o back) = Len(front) + Len(back)
      /\ \A k \in 1 .. Len(front) + Len(back) :
           (front \o back)[k] = IF k <= Len(front) THEN front[k] ELSE back[k - Len(front)]
  BY ConcatProperties, Zenon
<1>. QED  BY <1>1

LEMMA PatchedType ==
    ASSUME NEW buffer \in Seq(Byte), NEW offset \in Nat, NEW data \in Seq(Byte)
    PROVE  /\ Patched(buffer, offset, data) \in Seq(Byte)
           /\ Len(Patched(buffer, offset, data)) = Len(buffer)
<1>1. ASSUME NEW k \in 1 .. Len(buffer)
      PROVE  (IF k \in offset + 1 .. offset + Len(data) THEN data[k - offset]
                                                        ELSE buffer[k]) \in Byte
  OBVIOUS
<1>. QED  BY <1>1 DEF Patched

LEMMA ZerosType ==
    ASSUME NEW size \in Nat
    PROVE  Zeros(size) \in Seq(Byte) /\ Len(Zeros(size)) = size
  BY PacketAssumption DEF Zeros, Byte

LEMMA MemoryType ==
    ASSUME TypeOK, NEW offset \in Nat, NEW size \in Nat, NEW beyond \in Byte
    PROVE  /\ Memory(offset, size, beyond) \in Seq(Byte)
           /\ Len(Memory(offset, size, beyond)) = size
<1>1. ASSUME NEW k \in 1 .. size
      PROVE  (IF offset + k <= Len(bytes) THEN bytes[offset + k] ELSE beyond) \in Byte
  BY DEF TypeOK
<1>. QED  BY <1>1 DEF Memory

(* Memory that holds some data gives it back.                              *)
LEMMA MemoryHolds ==
    ASSUME TypeOK, NEW offset \in Nat, NEW data \in Seq(Byte), NEW beyond \in Byte,
           Holds(bytes, offset, data)
    PROVE  Memory(offset, Len(data), beyond) = data
<1>1. \A k \in 1 .. Len(data) :
         (IF offset + k <= Len(bytes) THEN bytes[offset + k] ELSE beyond) = data[k]
  BY DEF Holds, TypeOK
<1>2. data = [k \in 1 .. Len(data) |-> data[k]]
  OBVIOUS
<1>. QED  BY <1>1, <1>2 DEF Memory

LEMMA StringSizeType ==
    ASSUME TypeOK, NEW beyond \in Byte
    PROVE  bytesToNumber(Memory(readOffset, StringHeaderSize, beyond)) \in Nat
<1>. DEFINE header == Memory(readOffset, StringHeaderSize, beyond)
<1>1. header \in Seq(Byte) /\ Len(header) = 2
  BY MemoryType DEF TypeOK, StringHeaderSize
<1>. HIDE DEF header
<1>2. header[1] \in Byte /\ header[2] \in Byte
  BY <1>1
<1>3. ASSUME NEW a \in Byte, NEW b \in Byte PROVE a * Base + b \in Nat
  BY PacketAssumption DEF Byte
<1>. QED  BY <1>2, <1>3 DEF bytesToNumber, header

-----------------------------------------------------------------------------
(* The sizes agree, whatever the application does.                         *)

LEMMA SizeInit == Init => SizeInv
<1>. SUFFICES ASSUME Init PROVE SizeInv
  OBVIOUS
<1>1. Len(bytes) = 0 /\ bytes \in Seq(Byte) /\ items \in Seq(Items) /\ got \in Seq(Byte)
  BY DEF Init
<1>2. /\ length = 0 /\ writeOffset = 0 /\ readOffset = 0 /\ taken = 0
      /\ received \in BOOLEAN
  BY DEF Init
<1>. QED  BY <1>1, <1>2 DEF SizeInv, TypeOK, SizesAgree

LEMMA AdvanceSizes ==
    ASSUME SizeInv, NEW kind \in Kinds, NEW data \in Seq(Byte), NEW size \in Nat,
           Advance(kind, data, size),
           bytes' \in Seq(Byte), Len(bytes') = Len(bytes) + size
    PROVE  SizeInv'
<1>. USE DEF SizeInv, TypeOK, SizesAgree, Advance
<1>1. [kind |-> kind, data |-> data, at |-> Len(bytes)] \in Items
  BY DEF Items
<1>2. items' \in Seq(Items)
  BY <1>1
<1>3. writeOffset' \in Nat /\ length' \in Nat /\ length' = Len(bytes')
      /\ writeOffset' <= length'
  OBVIOUS
<1>. QED  BY <1>2, <1>3

LEMMA TookSizes ==
    ASSUME SizeInv, NEW data \in Seq(Byte), NEW size \in Nat, Took(data, size)
    PROVE  SizeInv'
  BY DEF SizeInv, TypeOK, SizesAgree, Took

LEMMA SizeStep == SizeInv /\ [Next]_vars => SizeInv'
<1>. SUFFICES ASSUME SizeInv, [Next]_vars PROVE SizeInv'
  OBVIOUS
<1>0. TypeOK /\ bytes \in Seq(Byte) /\ writeOffset \in Nat /\ readOffset \in Nat
  BY DEF SizeInv, TypeOK
<1>1. ASSUME NEW data \in Values, WriteValue(data) PROVE SizeInv'
  <2>1. data \in Seq(Byte)
    BY PacketAssumption
  <2>2. /\ bytes \o Zeros(Len(data)) \in Seq(Byte)
        /\ Len(bytes \o Zeros(Len(data))) = Len(bytes) + Len(data)
    <3>1. Zeros(Len(data)) \in Seq(Byte) /\ Len(Zeros(Len(data))) = Len(data)
      BY <2>1, ZerosType
    <3>. QED  BY <1>0, <3>1, Concatenation
  <2>3. bytes' \in Seq(Byte) /\ Len(bytes') = Len(bytes) + Len(data)
    BY <1>0, <1>1, <2>1, <2>2, PatchedType DEF WriteValue
  <2>. QED  BY <1>1, <2>1, <2>3, AdvanceSizes DEF WriteValue, Kinds
<1>2. ASSUME NEW data \in Strings, WriteString(data) PROVE SizeInv'
  <2>1. data \in Seq(Byte)
    BY PacketAssumption
  <2>2. /\ numberToBytes(Len(data)) \in Seq(Byte)
        /\ Len(numberToBytes(Len(data))) = StringHeaderSize
    BY <2>1, HeaderType
  <2>3. bytes' = bytes \o numberToBytes(Len(data)) \o data
    BY <1>2 DEF WriteString
  <2>4. /\ bytes' \in Seq(Byte)
        /\ Len(bytes') = Len(bytes) + (StringHeaderSize + Len(data))
    <3>. DEFINE headed == bytes \o numberToBytes(Len(data))
    <3>1. headed \in Seq(Byte) /\ Len(headed) = Len(bytes) + StringHeaderSize
      BY <1>0, <2>2, Concatenation
    <3>. HIDE DEF headed
    <3>2. headed \o data \in Seq(Byte) /\ Len(headed \o data) = Len(headed) + Len(data)
      BY <2>1, <3>1, Concatenation
    <3>3. bytes' = headed \o data
      BY <2>3 DEF headed
    <3>. QED  BY <1>0, <2>1, <3>1, <3>2, <3>3 DEF StringHeaderSize
  <2>. QED
    BY <1>2, <2>1, <2>4, AdvanceSizes DEF WriteString, Kinds, StringHeaderSize
<1>3. CASE Transmit
  <2>1. SubSeq(bytes, 1, length) = bytes
    BY <1>0, SubSeqProperties DEF SizeInv, SizesAgree
  <2>. QED  BY <1>3, <2>1 DEF Transmit, SizeInv, TypeOK, SizesAgree
<1>4. ASSUME NEW beyond \in Byte, NEW data \in Values, ReadValue(Len(data), beyond)
      PROVE  SizeInv'
  <2>1. Len(data) \in Nat
    BY PacketAssumption
  <2>2. Memory(readOffset, Len(data), beyond) \in Seq(Byte)
    BY <1>0, <2>1, MemoryType
  <2>. QED  BY <1>4, <2>1, <2>2, TookSizes DEF ReadValue
<1>5. ASSUME NEW beyond \in Byte, ReadString(beyond) PROVE SizeInv'
  <2>. DEFINE size == bytesToNumber(Memory(readOffset, StringHeaderSize, beyond))
  <2>1. size \in Nat /\ StringHeaderSize + size \in Nat
        /\ readOffset + StringHeaderSize \in Nat
    BY <1>0, StringSizeType DEF StringHeaderSize
  <2>2. Took(Memory(readOffset + StringHeaderSize, size, beyond),
             StringHeaderSize + size)
    BY <1>5 DEF ReadString
  <2>. HIDE DEF size
  <2>3. Memory(readOffset + StringHeaderSize, size, beyond) \in Seq(Byte)
    BY <1>0, <2>1, MemoryType
  <2>. QED  BY <2>1, <2>2, <2>3, TookSizes
<1>6. CASE UNCHANGED vars
  BY <1>6 DEF vars, history, SizeInv, TypeOK, SizesAgree
<1>. QED  BY <1>1, <1>2, <1>3, <1>4, <1>5, <1>6 DEF Next

(* Whatever is written, sent, appended and read, in whatever order: length *)
(* is the number of bytes that sending copies, and << stays inside them.   *)
THEOREM SizesCorrect == Spec => []SizesAgree
  BY SizeInit, SizeStep, PTL DEF Spec, SizeInv

(* The items stay what can be written, the bytes bytes, and neither offset *)
(* is ever negative, also when it has gone behind the last byte.           *)
THEOREM PacketTyped == Spec => []TypeOK
  BY SizeInit, SizeStep, PTL DEF Spec, SizeInv
-----------------------------------------------------------------------------
(* Reading back.  The application appends to no packet it has received,    *)
(* and reads in step.                                                      *)

LEMMA LayoutInit == Init => Layout /\ Reading
<1>. SUFFICES ASSUME Init PROVE Layout /\ Reading
  OBVIOUS
<1>1. Len(bytes) = 0 /\ Len(items) = 0 /\ writeOffset = 0 /\ readOffset = 0 /\ taken = 0
  BY DEF Init
<1>. QED  BY <1>1 DEF Layout, Reading, ReadBack, Position

(* An item put at the end, with the bytes before it unchanged.             *)
LEMMA AppendStep ==
    ASSUME IInv, SizeInv', NEW item \in Items,
           item.at = Len(bytes),
           items' = Append(items, item),
           writeOffset' = Len(bytes'),
           Len(bytes') = Len(bytes) + SizeOf(item),
           \A k \in 1 .. Len(bytes) : bytes'[k] = bytes[k],
           Stored(bytes', item),
           UNCHANGED <<readOffset, received, taken, got>>
    PROVE  IInv'
<1>. USE DEF IInv, SizeInv, TypeOK
<1>1. /\ Len(items') = Len(items) + 1
      /\ \A k \in 1 .. Len(items) : items'[k] = items[k]
      /\ items'[Len(items) + 1] = item
  OBVIOUS
<1>2. /\ Len(bytes) \in Nat /\ Len(bytes') \in Nat /\ Len(items) \in Nat
      /\ \A k \in 1 .. Len(items) : items[k] \in Items
  OBVIOUS
<1>3. \A k \in 1 .. Len(items) + 1 : Position(items', bytes', k) = Position(items, bytes, k)
  BY <1>1, <1>2 DEF Position
<1>4. Position(items', bytes', Len(items) + 2) = Len(bytes')
  BY <1>1, <1>2 DEF Position
<1>5. \A k \in 1 .. Len(items') :
         Position(items', bytes', k + 1) = items'[k].at + SizeOf(items'[k])
  <2>1. ASSUME NEW k \in 1 .. Len(items)
        PROVE  Position(items', bytes', k + 1) = items'[k].at + SizeOf(items'[k])
    BY <1>1, <1>2, <1>3 DEF Layout
  <2>. QED  BY <1>1, <1>2, <1>4, <2>1
<1>6. ASSUME NEW offset \in Nat, NEW data \in Seq(Byte), Holds(bytes, offset, data)
      PROVE  Holds(bytes', offset, data)
  <2>1. SizeOf(item) \in Nat
    BY DEF SizeOf, Items, StringHeaderSize
  <2>2. offset + Len(data) <= Len(bytes')
    BY <1>2, <1>6, <2>1 DEF Holds
  <2>3. ASSUME NEW j \in 1 .. Len(data) PROVE bytes'[offset + j] = data[j]
    <3>1. offset + j \in 1 .. Len(bytes)
      BY <1>2, <1>6 DEF Holds
    <3>. QED  BY <1>6, <3>1 DEF Holds
  <2>. QED  BY <2>2, <2>3 DEF Holds
<1>7. \A k \in 1 .. Len(items') : Stored(bytes', items'[k])
  <2>1. ASSUME NEW k \in 1 .. Len(items) PROVE Stored(bytes', items[k])
    <3>1. /\ items[k].at \in Nat /\ items[k].at + StringHeaderSize \in Nat
          /\ items[k].data \in Seq(Byte) /\ Len(items[k].data) \in Nat
      <4>1. items[k] \in Items
        BY <1>2
      <4>2. items[k].at \in Nat /\ items[k].data \in Seq(Byte)
        BY <4>1, ItemParts, Zenon
      <4>3. Len(items[k].data) \in Nat
        BY <4>2
      <4>4. items[k].at + StringHeaderSize \in Nat
        <5>1. ASSUME NEW n \in Nat PROVE n + StringHeaderSize \in Nat
          BY DEF StringHeaderSize
        <5>. QED  BY <4>2, <5>1
      <4>. QED  BY <4>2, <4>3, <4>4
    <3>2. numberToBytes(Len(items[k].data)) \in Seq(Byte)
      BY <3>1, HeaderType
    <3>3. Stored(bytes, items[k])
      BY DEF Layout
    <3>. QED  BY <1>6, <3>1, <3>2, <3>3 DEF Stored
  <2>. QED  BY <1>1, <1>2, <2>1
<1>8. Layout'
  <2>1. Position(items', bytes', 1) = 0
    BY <1>2, <1>3 DEF Layout
  <2>. QED  BY <1>5, <1>7, <2>1 DEF Layout
<1>9. Reading'
  <2>1. taken' <= Len(items')
    BY <1>1, <1>2 DEF Reading
  <2>2. readOffset' = Position(items', bytes', taken' + 1)
    BY <1>2, <1>3 DEF Reading
  <2>3. ReadBack'
    BY <1>1, <1>2 DEF Reading, ReadBack
  <2>. QED  BY <2>1, <2>2, <2>3 DEF Reading
<1>. QED  BY <1>8, <1>9

(* An item of which offset and content are known has been read.            *)
LEMMA TakeStep ==
    ASSUME IInv, SizeInv', taken < Len(items), NEW size \in Nat,
           Took(Upcoming.data, size),
           size = SizeOf(Upcoming)
    PROVE  IInv'
<1>. USE DEF IInv, SizeInv, TypeOK
<1>1. taken + 1 \in 1 .. Len(items) /\ Len(items) \in Nat
  OBVIOUS
<1>2. UNCHANGED <<bytes, length, writeOffset, received, items>>
  BY DEF Took
<1>3. Layout'
  BY <1>2 DEF Layout, Position, Stored, Holds
<1>4. Position(items, bytes, taken + 1) = Upcoming.at
  BY <1>1 DEF Position, Upcoming
<1>5. readOffset' = Position(items, bytes, taken + 2)
  BY <1>1, <1>4, SMTT(20) DEF Took, Reading, Layout, Upcoming
<1>6. Position(items', bytes', taken + 2) = Position(items, bytes, taken + 2)
  BY <1>2 DEF Position
<1>7. taken' = taken + 1 /\ got' = items[taken + 1].data
  BY DEF Took, Upcoming
<1>8. Reading'
  BY <1>1, <1>2, <1>5, <1>6, <1>7 DEF Reading, ReadBack, Position
<1>. QED  BY <1>3, <1>8

LEMMA IInvStep ==
    ASSUME ~Relays, InStep
    PROVE  IInv /\ [Next]_vars => IInv'
<1>. SUFFICES ASSUME IInv, [Next]_vars PROVE IInv'
  OBVIOUS
<1>0. /\ SizeInv' /\ TypeOK
      /\ bytes \in Seq(Byte) /\ items \in Seq(Items) /\ readOffset \in Nat
      /\ taken \in Nat
  BY SizeStep DEF IInv, SizeInv, TypeOK
<1>1. ASSUME NEW data \in Values, WriteValue(data) PROVE IInv'
  <2>. DEFINE item == [kind |-> "value", data |-> data, at |-> Len(bytes)]
              longer == bytes \o Zeros(Len(data))
  <2>1. data \in Seq(Byte)
    BY PacketAssumption
  <2>2. /\ item \in Items /\ item.at = Len(bytes) /\ SizeOf(item) = Len(data)
        /\ item.kind = "value" /\ item.data = data
    BY <1>0, <2>1 DEF Items, Kinds, SizeOf
  <2>3. writeOffset = Len(bytes)
    BY <1>1 DEF WriteValue, Writable, IInv, Layout
  <2>4. /\ longer \in Seq(Byte) /\ Len(longer) = Len(bytes) + Len(data)
        /\ \A k \in 1 .. Len(bytes) : longer[k] = bytes[k]
    <3>1. Zeros(Len(data)) \in Seq(Byte) /\ Len(Zeros(Len(data))) = Len(data)
      BY <2>1, ZerosType
    <3>. QED  BY <1>0, <3>1, Concatenation
  <2>5. bytes' = Patched(longer, Len(bytes), data)
    BY <1>1, <2>3 DEF WriteValue
  <2>6. Advance("value", data, Len(data))
    BY <1>1 DEF WriteValue
  <2>. HIDE DEF longer
  <2>7. /\ Len(bytes') = Len(bytes) + Len(data)
        /\ \A k \in 1 .. Len(bytes) : bytes'[k] = bytes[k]
        /\ \A j \in 1 .. Len(data) : bytes'[Len(bytes) + j] = data[j]
    BY <1>0, <2>1, <2>4, <2>5 DEF Patched
  <2>8. /\ items' = Append(items, item)
        /\ UNCHANGED <<readOffset, received, taken, got>>
    BY <2>6 DEF Advance
  <2>9. writeOffset' = Len(bytes')
    BY <2>3, <2>6, <2>7 DEF Advance
  <2>. HIDE DEF item
  <2>10. Stored(bytes', item)
    <3>1. Len(bytes) + Len(data) <= Len(bytes')
      BY <1>0, <2>1, <2>7
    <3>. QED  BY <2>2, <2>7, <3>1 DEF Stored, Holds
  <2>. QED  BY <1>0, <2>2, <2>7, <2>8, <2>9, <2>10, AppendStep
<1>2. ASSUME NEW data \in Strings, WriteString(data) PROVE IInv'
  <2>. DEFINE item == [kind |-> "string", data |-> data, at |-> Len(bytes)]
              header == numberToBytes(Len(data))
              headed == bytes \o header
  <2>1. data \in Seq(Byte) /\ Len(data) \in Nat
    BY PacketAssumption
  <2>2. /\ item \in Items /\ item.at = Len(bytes)
        /\ SizeOf(item) = StringHeaderSize + Len(data)
        /\ item.kind = "string" /\ item.data = data
    BY <1>0, <2>1 DEF Items, Kinds, SizeOf
  <2>3. writeOffset = Len(bytes)
    BY <1>2 DEF WriteString, Writable, IInv, Layout
  <2>4. header \in Seq(Byte) /\ Len(header) = 2
    BY <2>1, HeaderType DEF StringHeaderSize
  <2>5. Advance("string", data, StringHeaderSize + Len(data)) /\ StringFits(data)
    BY <1>2 DEF WriteString
  <2>6. bytes' = headed \o data
    BY <1>2 DEF WriteString
  <2>. HIDE DEF header
  <2>7. /\ headed \in Seq(Byte) /\ Len(headed) = Len(bytes) + 2
        /\ \A k \in 1 .. Len(bytes) : headed[k] = bytes[k]
        /\ \A k \in 1 .. 2 : headed[Len(bytes) + k] = header[k]
    <3>1. /\ headed \in Seq(Byte) /\ Len(headed) = Len(bytes) + Len(header)
          /\ \A k \in 1 .. Len(bytes) : headed[k] = bytes[k]
          /\ \A k \in 1 .. Len(header) : headed[Len(bytes) + k] = header[k]
      BY <1>0, <2>4, Concatenation
    <3>. HIDE DEF headed
    <3>. QED  BY <2>4, <3>1
  <2>. HIDE DEF headed
  <2>8. /\ Len(headed \o data) = Len(headed) + Len(data)
        /\ \A k \in 1 .. Len(headed) : (headed \o data)[k] = headed[k]
        /\ \A k \in 1 .. Len(data) : (headed \o data)[Len(headed) + k] = data[k]
    BY <2>1, <2>7, Concatenation
  <2>9. /\ Len(bytes') = Len(bytes) + 2 + Len(data)
        /\ \A k \in 1 .. Len(bytes) : bytes'[k] = bytes[k]
        /\ \A j \in 1 .. 2 : bytes'[Len(bytes) + j] = header[j]
        /\ \A j \in 1 .. Len(data) : bytes'[Len(bytes) + 2 + j] = data[j]
    <3>0. Len(bytes) \in Nat /\ Len(headed) = Len(bytes) + 2 /\ bytes' = headed \o data
      BY <1>0, <2>6, <2>7
    <3>1. Len(bytes') = Len(bytes) + 2 + Len(data)
      BY <2>1, <2>8, <3>0
    <3>2. ASSUME NEW k \in 1 .. Len(bytes)
          PROVE  bytes'[k] = bytes[k]
      <4>1. k \in 1 .. Len(headed)
        BY <3>0
      <4>. QED  BY <2>7, <2>8, <3>0, <4>1
    <3>3. ASSUME NEW j \in 1 .. 2
          PROVE  bytes'[Len(bytes) + j] = header[j]
      <4>1. Len(bytes) + j \in 1 .. Len(headed)
        BY <3>0
      <4>. QED  BY <2>7, <2>8, <3>0, <4>1
    <3>4. ASSUME NEW j \in 1 .. Len(data)
          PROVE  bytes'[Len(bytes) + 2 + j] = data[j]
      BY <2>8, <3>0
    <3>. QED  BY <3>1, <3>2, <3>3, <3>4
  <2>10. /\ items' = Append(items, item)
         /\ UNCHANGED <<readOffset, received, taken, got>>
    BY <2>5 DEF Advance
  <2>11. writeOffset' = Len(bytes') /\ Len(bytes') = Len(bytes) + SizeOf(item)
    BY <1>0, <2>1, <2>2, <2>3, <2>5, <2>9 DEF Advance, StringHeaderSize
  <2>. HIDE DEF item
  <2>12. Stored(bytes', item)
    <3>1. /\ Len(bytes) + 2 <= Len(bytes')
          /\ Len(bytes) + 2 + Len(data) <= Len(bytes')
      BY <1>0, <2>1, <2>9
    <3>. QED
      BY <2>2, <2>4, <2>5, <2>9, <3>1
      DEF Stored, Holds, StringHeaderSize, StringFits, header
  <2>. QED  BY <1>0, <2>2, <2>9, <2>10, <2>11, <2>12, AppendStep
<1>3. CASE Transmit
  <2>1. SubSeq(bytes, 1, length) = bytes
    BY <1>0, SubSeqProperties DEF IInv, SizeInv, SizesAgree
  <2>2. bytes' = bytes /\ items' = items /\ received' /\ readOffset' = 0 /\ taken' = 0
    BY <1>3, <2>1 DEF Transmit
  <2>3. Layout'
    BY <2>2 DEF IInv, Layout, Position, Stored, Holds
  <2>4. Reading'
    BY <1>0, <2>2, <2>3 DEF Layout, Reading, ReadBack
  <2>. QED  BY <1>0, <2>3, <2>4 DEF IInv
<1>4. ASSUME NEW beyond \in Byte, NEW size \in Nat, ReadValue(size, beyond)
      PROVE  IInv'
  <2>1. /\ taken < Len(items) /\ Upcoming.kind = "value" /\ size = Len(Upcoming.data)
        /\ Took(Memory(readOffset, size, beyond), size)
    BY <1>4 DEF ReadValue, Expected
  <2>2. taken + 1 \in 1 .. Len(items) /\ Upcoming \in Items
    BY <1>0, <2>1 DEF Upcoming
  <2>3. readOffset = Upcoming.at
    BY <1>0, <2>2 DEF IInv, Reading, Position, Upcoming
  <2>4. Holds(bytes, readOffset, Upcoming.data)
    BY <2>1, <2>2, <2>3 DEF IInv, Layout, Stored, Upcoming
  <2>5. Upcoming.data \in Seq(Byte)
    BY <2>2 DEF Items
  <2>6. Memory(readOffset, size, beyond) = Upcoming.data
    BY <1>0, <2>1, <2>4, <2>5, MemoryHolds
  <2>7. size = SizeOf(Upcoming)
    BY <2>1 DEF SizeOf
  <2>. QED  BY <1>0, <2>1, <2>6, <2>7, TakeStep
<1>5. ASSUME NEW beyond \in Byte, ReadString(beyond) PROVE IInv'
  <2>. DEFINE size == bytesToNumber(Memory(readOffset, StringHeaderSize, beyond))
              header == numberToBytes(Len(Upcoming.data))
  <2>1. /\ taken < Len(items) /\ Upcoming.kind = "string"
        /\ Took(Memory(readOffset + StringHeaderSize, size, beyond),
                StringHeaderSize + size)
    BY <1>5 DEF ReadString, Expected
  <2>2. taken + 1 \in 1 .. Len(items) /\ Upcoming \in Items
    BY <1>0, <2>1 DEF Upcoming
  <2>3. /\ Upcoming.data \in Seq(Byte) /\ Len(Upcoming.data) \in Nat
        /\ readOffset + StringHeaderSize \in Nat
    BY <1>0, <2>2 DEF Items, StringHeaderSize
  <2>4. readOffset = Upcoming.at
    BY <1>0, <2>2 DEF IInv, Reading, Position, Upcoming
  <2>5. /\ StringFits(Upcoming.data)
        /\ Holds(bytes, readOffset, header)
        /\ Holds(bytes, readOffset + StringHeaderSize, Upcoming.data)
    <3>1. Stored(bytes, Upcoming)
      BY <2>2 DEF IInv, Layout, Upcoming
    <3>. QED  BY <2>1, <2>4, <3>1 DEF Stored
  <2>6. header \in Seq(Byte) /\ Len(header) = StringHeaderSize
    BY <2>3, HeaderType
  <2>7. size = bytesToNumber(header)
    <3>. HIDE DEF header
    <3>1. Memory(readOffset, Len(header), beyond) = header
      BY <1>0, <2>5, <2>6, MemoryHolds
    <3>. QED  BY <2>6, <3>1
  <2>8. Len(Upcoming.data) \in 0 .. MaxString
    BY <2>3, <2>5, PacketAssumption DEF StringFits, MaxString
  <2>9. bytesToNumber(header) = Len(Upcoming.data)
    BY <2>8, HeaderRoundTrip
  <2>. HIDE DEF size, header
  <2>10. size = Len(Upcoming.data)
    BY <2>7, <2>9
  <2>11. Memory(readOffset + StringHeaderSize, size, beyond) = Upcoming.data
    BY <1>0, <2>3, <2>5, <2>10, MemoryHolds
  <2>12. /\ StringHeaderSize + size = SizeOf(Upcoming)
         /\ StringHeaderSize + size \in Nat
    BY <2>1, <2>3, <2>10 DEF SizeOf, StringHeaderSize
  <2>. QED  BY <1>0, <2>1, <2>11, <2>12, TakeStep
<1>6. CASE UNCHANGED vars
  BY <1>0, <1>6
  DEF vars, history, IInv, Layout, Reading, ReadBack, Position, Stored, Holds
<1>7. ASSUME NEW beyond \in Byte, NEW data \in Values, ReadValue(Len(data), beyond)
      PROVE  IInv'
  BY <1>4, <1>7, PacketAssumption
<1>. QED  BY <1>1, <1>2, <1>3, <1>5, <1>6, <1>7 DEF Next

(* The invariant, for packets of any length.                               *)
LEMMA InvariantHolds ==
    ASSUME ~Relays, InStep
    PROVE  Spec => []IInv
<1>1. Init => IInv
  BY SizeInit, LayoutInit DEF IInv
<1>2. IInv /\ [Next]_vars => IInv'
  BY IInvStep
<1>. QED  BY <1>1, <1>2, PTL DEF Spec

(* An application that appends to no packet it has received, and reads the *)
(* types that were written in their order, gets back what was written.     *)
THEOREM ReadBackCorrect ==
    ASSUME ~Relays, InStep
    PROVE  Spec => []ReadBack
<1>1. IInv => ReadBack
  BY DEF IInv, Reading
<1>. QED  BY <1>1, InvariantHolds, PTL

(* Whoever has read every item has read every byte, strings cut at the     *)
(* greatest size included.                                                 *)
THEOREM EveryByteIsRead ==
    ASSUME ~Relays, InStep
    PROVE  Spec => []NothingLeft
<1>1. IInv => NothingLeft
  BY DEF IInv, SizeInv, TypeOK, Reading, Position, NothingLeft
<1>. QED  BY <1>1, InvariantHolds, PTL

(* >> of what was written there does not read behind the vector, although  *)
(* its test looks at the size of the whole packet.                         *)
THEOREM ReadsCorrect ==
    ASSUME ~Relays, InStep
    PROVE  Spec => []ReadsStayInside
<1>1. IInv => ReadsStayInside
  <2>. SUFFICES ASSUME IInv PROVE ReadsStayInside
    OBVIOUS
  <2>0. Len(bytes) \in Nat /\ readOffset \in Nat
    BY DEF IInv, SizeInv, TypeOK
  <2>1. ASSUME taken = Len(items) PROVE ReadsStayInside
    <3>1. readOffset = Len(bytes)
      BY <2>1 DEF IInv, SizeInv, TypeOK, Reading, Position
    <3>. QED  BY <2>0, <3>1 DEF ReadsStayInside
  <2>2. ASSUME taken # Len(items) PROVE ReadsStayInside
    <3>1. taken + 1 \in 1 .. Len(items) /\ items[taken + 1] \in Items
      BY <2>2 DEF IInv, SizeInv, TypeOK, Reading
    <3>2. readOffset = items[taken + 1].at /\ Stored(bytes, items[taken + 1])
      BY <3>1 DEF IInv, SizeInv, TypeOK, Reading, Position, Layout
    <3>3. numberToBytes(Len(items[taken + 1].data)) \in Seq(Byte)
      BY <3>1, HeaderType DEF Items
    <3>4. CASE items[taken + 1].kind = "value"
      <4>1. readOffset + Len(items[taken + 1].data) <= Len(bytes)
        BY <3>2, <3>4 DEF Stored, Holds
      <4>. QED  BY <2>0, <3>1, <4>1 DEF ReadsStayInside, Items
    <3>5. CASE items[taken + 1].kind # "value"
      <4>1. readOffset + Len(numberToBytes(Len(items[taken + 1].data))) <= Len(bytes)
        BY <3>2, <3>5 DEF Stored, Holds
      <4>. QED  BY <2>0, <3>3, <4>1 DEF ReadsStayInside
    <3>. QED  BY <3>4, <3>5
  <2>. QED  BY <2>1, <2>2
<1>. QED  BY <1>1, InvariantHolds, PTL
=============================================================================

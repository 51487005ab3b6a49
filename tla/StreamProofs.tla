---------------------------- MODULE StreamProofs -----------------------------
(***************************************************************************)
(* Proofs about module Stream, for packets and windows of any size and for *)
(* any cut of the stream.                                                  *)
(***************************************************************************)
EXTENDS Stream, SequenceTheorems, TLAPS

-----------------------------------------------------------------------------
(* Bytes in line.  No recursion over packets: a sequence of bytes is in    *)
(* line when each packet that begins in it goes on without a gap, and      *)
(* where it ends the next one begins.  Wire[n] is the n-th packet's length *)
(* on the wire.                                                            *)

Wire == [n \in 1 .. Len(sent) |-> WireLength(sent[n])]

InLine(bytes, first, wire) ==
    /\ bytes # <<>> => bytes[1] = <<first, 1>>
    /\ \A j \in 1 .. Len(bytes) :
         bytes[j][1] \in DOMAIN wire /\ bytes[j][2] <= wire[bytes[j][1]]
    /\ \A j \in 1 .. Len(bytes) : bytes[j][2] = 1 =>
         \A k \in 1 .. wire[bytes[j][1]] :
           j + k - 1 <= Len(bytes) => bytes[j + k - 1] = <<bytes[j][1], k>>
    /\ \A j \in 1 .. Len(bytes) - 1 :
         bytes[j][2] = wire[bytes[j][1]] => bytes[j + 1] = <<bytes[j][1] + 1, 1>>

(* The byte that comes after b, and after all of bytes.                    *)
ByteAfter(b, wire) ==
    IF b[2] < wire[b[1]] THEN <<b[1], b[2] + 1>> ELSE <<b[1] + 1, 1>>

GoesOn(bytes, first, wire, b) ==
    b = IF bytes = <<>> THEN <<first, 1>> ELSE ByteAfter(bytes[Len(bytes)], wire)

(* Byte k of the n-th packet, for up to m packets.                         *)
BytesOf(m) == (1 .. m) \X (Nat \ {0})

-----------------------------------------------------------------------------
(* What the reader has not turned into a packet yet, and the packet it is  *)
(* the beginning of.                                                       *)
Unread == header \o stream

Upcoming == Len(delivered) + 1

(* A call that waits for room has sent some of its packet, but not all.    *)
Midways ==
    \A s \in Senders : Midway(s) =>
      /\ call[s].packet \in 1 .. Len(sent)
      /\ call[s].taken \in 1 .. Wire[call[s].packet] - 1

(* Until a packet is torn, only the last one can be under way, ...         *)
OneAtWork ==
    /\ \A s, t \in Senders : Midway(s) /\ Midway(t) => s = t
    /\ \A s \in Senders : Midway(s) => call[s].packet = Len(sent)

(* ... and what is unread is in line, up to the byte to be sent next.      *)
Frontier ==
    /\ (\A s \in Senders : ~Midway(s))
         => GoesOn(Unread, Upcoming, Wire, <<Len(sent) + 1, 1>>)
    /\ \A s \in Senders :
         Midway(s) => GoesOn(Unread, Upcoming, Wire, <<Len(sent), call[s].taken + 1>>)

ReaderInLine ==
    /\ InLine(Unread, Upcoming, Wire)
    /\ link = "up" => Frontier
    /\ reader = "body" =>
         /\ Len(header) = HeaderBytes
         /\ due = Size[sent[Upcoming]]

StreamInv ==
    /\ TypeOK
    /\ Midways
    /\ InStep
    /\ ~torn => OneAtWork
    /\ ~torn /\ reader \in {"header", "body"} => ReaderInLine

-----------------------------------------------------------------------------
(* About the operators on bytes.                                           *)

LEMMA SmallerProperties ==
    ASSUME NEW m \in Nat, NEW n \in Nat
    PROVE  /\ Smaller(m, n) \in Nat /\ Smaller(m, n) <= m /\ Smaller(m, n) <= n
           /\ m > 0 /\ n > 0 => Smaller(m, n) > 0
           /\ Smaller(m, n) \in {m, n}
  BY DEF Smaller

LEMMA RestProperties ==
    ASSUME NEW T, NEW seq \in Seq(T), NEW n \in 0 .. Len(seq)
    PROVE  /\ SubSeq(seq, n + 1, Len(seq)) \in Seq(T)
           /\ Len(SubSeq(seq, n + 1, Len(seq))) = Len(seq) - n
           /\ \A k \in 1 .. Len(seq) - n :
                SubSeq(seq, n + 1, Len(seq))[k] = seq[n + k]
  BY SubSeqProperties

LEMMA StartProperties ==
    ASSUME NEW T, NEW seq \in Seq(T), NEW n \in 0 .. Len(seq)
    PROVE  /\ SubSeq(seq, 1, n) \in Seq(T)
           /\ Len(SubSeq(seq, 1, n)) = n
           /\ \A k \in 1 .. n : SubSeq(seq, 1, n)[k] = seq[k]
  BY SubSeqProperties

LEMMA BytesProperties ==
    ASSUME NEW m \in Nat, NEW n \in 1 .. m, NEW from \in Nat, NEW count \in Nat
    PROVE  /\ Bytes(n, from, count) \in Seq(BytesOf(m))
           /\ Len(Bytes(n, from, count)) = count
           /\ \A k \in 1 .. count : Bytes(n, from, count)[k] = <<n, from + k>>
<1>1. \A k \in 1 .. count : <<n, from + k>> \in BytesOf(m)
  BY DEF BytesOf
<1>2. Bytes(n, from, count) \in [1 .. count -> BytesOf(m)]
  BY <1>1 DEF Bytes
<1>3. Bytes(n, from, count) \in Seq(BytesOf(m))
  BY <1>2
<1>4. Len(Bytes(n, from, count)) = count
  BY <1>2, <1>3
<1>. QED  BY <1>3, <1>4 DEF Bytes

(* The first bytes in line are those of the first packet.                  *)
LEMMA FrontOfLine ==
    ASSUME NEW m \in Nat, NEW wire \in [1 .. m -> Nat \ {0}],
           NEW bytes \in Seq(BytesOf(m)), NEW first, InLine(bytes, first, wire),
           bytes # <<>>
    PROVE  /\ first \in 1 .. m
           /\ \A k \in 1 .. Len(bytes) : k <= wire[first] => bytes[k] = <<first, k>>
<1>1. Len(bytes) \in Nat \ {0} /\ bytes[1] = <<first, 1>> /\ bytes[1] \in BytesOf(m)
  BY DEF InLine
<1>2. first \in 1 .. m
  BY <1>1 DEF BytesOf
<1>3. wire[first] \in Nat
  BY <1>2
<1>4. \A k \in 1 .. wire[first] : 1 + k - 1 <= Len(bytes) => bytes[1 + k - 1] = <<first, k>>
  BY <1>1 DEF InLine
<1>5. ASSUME NEW k \in 1 .. Len(bytes), k <= wire[first]
      PROVE  bytes[k] = <<first, k>>
  <2>1. k \in 1 .. wire[first] /\ 1 + k - 1 = k /\ k <= Len(bytes)
    BY <1>1, <1>3, <1>5
  <2>. QED  BY <1>4, <2>1
<1>. QED  BY <1>2, <1>5

(* Without its first packet, a line is one that begins with the next, and  *)
(* it goes on as before.                                                   *)
LEMMA LineMovesOn ==
    ASSUME NEW m \in Nat, NEW wire \in [1 .. m -> Nat \ {0}],
           NEW bytes \in Seq(BytesOf(m)), NEW first, InLine(bytes, first, wire),
           bytes # <<>>, wire[first] <= Len(bytes)
    PROVE  LET rest == SubSeq(bytes, wire[first] + 1, Len(bytes)) IN
           /\ InLine(rest, first + 1, wire)
           /\ \A b : GoesOn(bytes, first, wire, b) => GoesOn(rest, first + 1, wire, b)
<1>. DEFINE w == wire[first]
            rest == SubSeq(bytes, w + 1, Len(bytes))
<1>. SUFFICES /\ InLine(rest, first + 1, wire)
              /\ \A b : GoesOn(bytes, first, wire, b) => GoesOn(rest, first + 1, wire, b)
  OBVIOUS
<1>1. /\ first \in 1 .. m /\ w \in Nat \ {0} /\ Len(bytes) \in Nat
      /\ w <= Len(bytes)
      /\ \A k \in 1 .. Len(bytes) : k <= w => bytes[k] = <<first, k>>
  BY FrontOfLine
<1>2. /\ rest \in Seq(BytesOf(m)) /\ Len(rest) = Len(bytes) - w
      /\ \A k \in 1 .. Len(rest) : rest[k] = bytes[w + k]
  <2>1. w \in 0 .. Len(bytes)
    BY <1>1
  <2>. HIDE DEF w
  <2>. QED  BY <2>1, RestProperties
<1>3. bytes[w] = <<first, w>>
  BY <1>1
<1>. HIDE DEF w, rest
<1>4. w < Len(bytes) => bytes[w + 1] = <<first + 1, 1>>
  <2>. SUFFICES ASSUME w < Len(bytes) PROVE bytes[w + 1] = <<first + 1, 1>>
    OBVIOUS
  <2>1. w \in 1 .. Len(bytes) - 1 /\ bytes[w][1] = first /\ bytes[w][2] = w
    BY <1>1, <1>3
  <2>. QED  BY <2>1 DEF InLine, w
<1>5. \A k \in 1 .. Len(rest) : w + k \in 1 .. Len(bytes) /\ rest[k] = bytes[w + k]
  BY <1>1, <1>2
<1>6. InLine(rest, first + 1, wire)
  <2>1. rest # <<>> => rest[1] = <<first + 1, 1>>
    <3>1. rest # <<>> => 1 \in 1 .. Len(rest)
      BY <1>2
    <3>2. 1 \in 1 .. Len(rest) => rest[1] = bytes[w + 1] /\ w < Len(bytes)
      BY <1>1, <1>2
    <3>. QED  BY <1>4, <3>1, <3>2
  <2>2. \A j \in 1 .. Len(rest) :
          rest[j][1] \in DOMAIN wire /\ rest[j][2] <= wire[rest[j][1]]
    BY <1>5 DEF InLine
  <2>3. ASSUME NEW j \in 1 .. Len(rest), rest[j][2] = 1,
               NEW k \in 1 .. wire[rest[j][1]], j + k - 1 <= Len(rest)
        PROVE  rest[j + k - 1] = <<rest[j][1], k>>
    <3>1. rest[j][1] \in 1 .. m
      BY <1>2 DEF BytesOf
    <3>2. k \in Nat \ {0}
      BY <3>1
    <3>3. /\ w + j \in 1 .. Len(bytes) /\ (w + j) + k - 1 <= Len(bytes)
          /\ j + k - 1 \in 1 .. Len(rest) /\ w + (j + k - 1) = (w + j) + k - 1
      BY <1>1, <1>2, <2>3, <3>2
    <3>4. bytes[(w + j) + k - 1] = <<bytes[w + j][1], k>>
      BY <1>2, <2>3, <3>3 DEF InLine
    <3>. QED  BY <1>2, <3>3, <3>4
  <2>4. ASSUME NEW j \in 1 .. Len(rest) - 1, rest[j][2] = wire[rest[j][1]]
        PROVE  rest[j + 1] = <<rest[j][1] + 1, 1>>
    <3>1. /\ w + j \in 1 .. Len(bytes) - 1 /\ w + (j + 1) = (w + j) + 1
          /\ j \in 1 .. Len(rest) /\ j + 1 \in 1 .. Len(rest)
      BY <1>1, <1>2
    <3>2. bytes[(w + j) + 1] = <<bytes[w + j][1] + 1, 1>>
      BY <1>2, <2>4, <3>1 DEF InLine
    <3>. QED  BY <1>2, <3>1, <3>2
  <2>. QED  BY <2>1, <2>2, <2>3, <2>4 DEF InLine
<1>7. ASSUME NEW b, GoesOn(bytes, first, wire, b)
      PROVE  GoesOn(rest, first + 1, wire, b)
  <2>1. CASE rest = <<>>
    <3>1. Len(bytes) = w
      BY <1>1, <1>2, <2>1
    <3>2. ByteAfter(bytes[Len(bytes)], wire) = <<first + 1, 1>>
      BY <1>1, <1>3, <3>1 DEF ByteAfter, w
    <3>. QED  BY <1>7, <2>1, <3>2 DEF GoesOn
  <2>2. CASE rest # <<>>
    <3>1. rest[Len(rest)] = bytes[Len(bytes)]
      BY <1>1, <1>2, <2>2
    <3>. QED  BY <1>7, <2>2, <3>1 DEF GoesOn
  <2>. QED  BY <2>1, <2>2
<1>. QED  BY <1>6, <1>7

(* What is sent next keeps the line.                                       *)
LEMMA LineGoesOn ==
    ASSUME NEW m \in Nat, NEW wire \in [1 .. m -> Nat \ {0}],
           NEW bytes \in Seq(BytesOf(m)), NEW first, InLine(bytes, first, wire),
           NEW n \in 1 .. m, NEW from \in Nat, NEW count \in Nat \ {0},
           from + count <= wire[n],
           GoesOn(bytes, first, wire, <<n, from + 1>>)
    PROVE  LET longer == bytes \o Bytes(n, from, count) IN
           /\ InLine(longer, first, wire)
           /\ GoesOn(longer, first, wire, ByteAfter(<<n, from + count>>, wire))
<1>. DEFINE size == Len(bytes)
            more == Bytes(n, from, count)
            longer == bytes \o more
<1>. SUFFICES /\ InLine(longer, first, wire)
              /\ GoesOn(longer, first, wire, ByteAfter(<<n, from + count>>, wire))
  OBVIOUS
<1>1. /\ more \in Seq(BytesOf(m)) /\ Len(more) = count
      /\ \A k \in 1 .. count : more[k] = <<n, from + k>>
  <2>1. count \in Nat
    OBVIOUS
  <2>2. /\ Bytes(n, from, count) \in Seq(BytesOf(m))
        /\ Len(Bytes(n, from, count)) = count
    BY <2>1, BytesProperties, ZenonT(40)
  <2>3. \A k \in 1 .. count : Bytes(n, from, count)[k] = <<n, from + k>>
    BY DEF Bytes
  <2>. QED  BY <2>2, <2>3, Zenon
<1>. HIDE DEF more
<1>2. /\ longer \in Seq(BytesOf(m)) /\ Len(longer) = size + count /\ size \in Nat
      /\ \A j \in 1 .. size : longer[j] = bytes[j]
      /\ \A j \in size + 1 .. size + count : longer[j] = more[j - size]
  <2>2. /\ bytes \o more \in Seq(BytesOf(m))
        /\ Len(bytes \o more) = Len(bytes) + Len(more)
        /\ \A j \in 1 .. Len(bytes) + Len(more) :
             (bytes \o more)[j] = IF j <= Len(bytes) THEN bytes[j]
                                                     ELSE more[j - Len(bytes)]
    BY <1>1, ConcatProperties, Zenon
  <2>3. Len(bytes) \in Nat
    OBVIOUS
  <2>. QED  BY <1>1, <2>2, <2>3, SMTT(20)
<1>3. \A j \in size + 1 .. size + count : longer[j] = <<n, from + (j - size)>>
  <2>1. \A j \in size + 1 .. size + count : j - size \in 1 .. count
    BY <1>2
  <2>. QED  BY <1>1, <1>2, <2>1
<1>. HIDE DEF size, longer
<1>4. longer # <<>> => longer[1] = <<first, 1>>
  <2>1. CASE bytes = <<>>
    <3>1. size = 0 /\ <<n, from + 1>> = <<first, 1>>
      BY <2>1 DEF GoesOn, size
    <3>2. 1 \in size + 1 .. size + count /\ 1 - size = 1
      BY <3>1
    <3>. QED  BY <1>3, <3>1, <3>2
  <2>2. CASE bytes # <<>>
    BY <1>2, <2>2, SMTT(20) DEF InLine, size
  <2>. QED  BY <2>1, <2>2
<1>5. ASSUME NEW j \in 1 .. Len(longer)
      PROVE  longer[j][1] \in DOMAIN wire /\ longer[j][2] <= wire[longer[j][1]]
  <2>1. CASE j \in 1 .. size
    BY <1>2, <2>1 DEF InLine, size
  <2>2. CASE j \in size + 1 .. size + count
    BY <1>2, <1>3, <2>2, SMTT(20)
  <2>. QED  BY <1>2, <2>1, <2>2
(* The packet the old bytes end in, if it is not complete, is the n-th.    *)
<1>6. ASSUME NEW j \in 1 .. size, bytes[j][2] = 1,
             NEW k \in 1 .. wire[bytes[j][1]], j + k - 1 > size
      PROVE  bytes[j][1] = n /\ size - j + 1 = from
  <2>. DEFINE q == size - j + 1
              p == bytes[j][1]
  <2>1. p \in 1 .. m /\ wire[p] \in Nat \ {0}
    <3>1. bytes[j] \in BytesOf(m)
      BY <1>2 DEF size
    <3>2. p \in 1 .. m
      BY <3>1 DEF BytesOf
    <3>. QED  BY <3>2
  <2>2. q \in 1 .. wire[p] /\ j + q - 1 = size /\ q < wire[p]
    <3>1. k \in 1 .. wire[p] /\ j + k - 1 > size /\ j \in 1 .. size /\ wire[p] \in Nat
      BY <1>6, <2>1
    <3>2. ASSUME NEW s \in Nat, NEW a \in 1 .. s, NEW w \in Nat, NEW b \in 1 .. w,
                 a + b - 1 > s
          PROVE  /\ s - a + 1 \in 1 .. w /\ a + (s - a + 1) - 1 = s
                 /\ s - a + 1 < w
      BY <3>2
    <3>3. size \in Nat
      BY <1>2
    <3>. HIDE DEF p, size
    <3>. QED  BY <3>1, <3>2, <3>3
  <2>3. bytes[size] = <<p, q>>
    <3>1. j + q - 1 <= Len(bytes)
      BY <1>2, <2>2 DEF size
    <3>2. bytes[j + q - 1] = <<p, q>>
      BY <1>6, <2>2, <3>1 DEF InLine, size
    <3>. QED  BY <2>2, <3>2
  <2>4. bytes # <<>>
    BY <1>2 DEF size
  <2>5. <<n, from + 1>> = <<p, q + 1>>
    <3>1. <<n, from + 1>> = ByteAfter(<<p, q>>, wire)
      BY <2>3, <2>4 DEF GoesOn, size
    <3>. HIDE DEF p, q
    <3>. QED  BY <2>2, <3>1 DEF ByteAfter
  <2>. QED  BY <1>2, <2>2, <2>5
<1>7. ASSUME NEW j \in 1 .. Len(longer), longer[j][2] = 1,
             NEW k \in 1 .. wire[longer[j][1]], j + k - 1 <= Len(longer)
      PROVE  longer[j + k - 1] = <<longer[j][1], k>>
  <2>0. k \in Nat \ {0}
    <3>1. longer[j] \in BytesOf(m)
      BY <1>2
    <3>2. longer[j][1] \in 1 .. m
      BY <3>1 DEF BytesOf
    <3>. QED  BY <3>2
  <2>1. CASE j \in 1 .. size /\ j + k - 1 <= size
    <3>1. j + k - 1 \in 1 .. size /\ longer[j] = bytes[j]
      BY <1>2, <2>0, <2>1, SMTT(20)
    <3>2. bytes[j + k - 1] = <<bytes[j][1], k>>
      BY <1>7, <2>1, <3>1 DEF InLine, size
    <3>. QED  BY <1>2, <3>1, <3>2
  <2>2. CASE j \in 1 .. size /\ j + k - 1 > size
    <3>1. longer[j] = bytes[j]
      BY <1>2, <2>2
    <3>2. bytes[j][1] = n /\ size - j + 1 = from
      BY <1>6, <1>7, <2>2, <3>1
    <3>3. j + k - 1 \in size + 1 .. size + count /\ from + ((j + k - 1) - size) = k
      BY <1>2, <1>7, <2>0, <2>2, <3>2
    <3>. QED  BY <1>3, <3>1, <3>2, <3>3
  <2>3. CASE j \in size + 1 .. size + count
    <3>1. longer[j] = <<n, from + (j - size)>>
      BY <1>3, <2>3
    <3>2. from = 0 /\ j = size + 1
      BY <1>2, <1>7, <2>3, <3>1
    <3>3. j + k - 1 \in size + 1 .. size + count /\ from + ((j + k - 1) - size) = k
      BY <1>2, <1>7, <2>0, <3>2
    <3>. QED  BY <1>3, <3>1, <3>3, SMTT(20)
  <2>4. \/ j \in 1 .. size /\ (j + k - 1 <= size \/ j + k - 1 > size)
        \/ j \in size + 1 .. size + count
    BY <1>2, <2>0
  <2>. QED  BY <2>1, <2>2, <2>3, <2>4
<1>8. ASSUME NEW j \in 1 .. Len(longer) - 1, longer[j][2] = wire[longer[j][1]]
      PROVE  longer[j + 1] = <<longer[j][1] + 1, 1>>
  <2>1. CASE j \in 1 .. size - 1
    <3>1. j \in 1 .. size /\ j + 1 \in 1 .. size
      BY <1>2, <2>1
    <3>. QED  BY <1>2, <1>8, <2>1, <3>1 DEF InLine, size
  <2>2. CASE j = size
    <3>1. j \in 1 .. size /\ j + 1 \in size + 1 .. size + count /\ bytes # <<>>
      BY <1>2, <2>2 DEF size
    <3>2. longer[j + 1] = <<n, from + 1>>
      BY <1>2, <1>3, <2>2, <3>1
    <3>3. <<n, from + 1>> = ByteAfter(bytes[j], wire) /\ longer[j] = bytes[j]
      BY <1>2, <2>2, <3>1 DEF GoesOn, size
    <3>4. bytes[j] \in BytesOf(m)
      BY <3>1 DEF size
    <3>5. ~(bytes[j][2] < wire[bytes[j][1]])
      BY <1>8, <3>3, <3>4, SMTT(20) DEF BytesOf
    <3>. QED  BY <3>2, <3>3, <3>5 DEF ByteAfter
  <2>3. CASE j \in size + 1 .. size + count - 1
    <3>1. longer[j] = <<n, from + (j - size)>>
      BY <1>2, <1>3, <2>3
    <3>2. from + (j - size) < wire[n]
      BY <1>2, <2>3
    <3>. QED  BY <1>8, <3>1, <3>2
  <2>4. j \in 1 .. size - 1 \/ j = size \/ j \in size + 1 .. size + count - 1
    BY <1>2, SMTT(20)
  <2>. QED  BY <2>1, <2>2, <2>3, <2>4
<1>9. GoesOn(longer, first, wire, ByteAfter(<<n, from + count>>, wire))
  <2>1. longer # <<>> /\ longer[Len(longer)] = <<n, from + count>>
    BY <1>2, <1>3
  <2>. QED  BY <2>1 DEF GoesOn
<1>. QED  BY <1>4, <1>5, <1>7, <1>8, <1>9 DEF InLine

(* A line stays one when further packets are sent.                         *)
LEMMA LineStays ==
    ASSUME NEW m \in Nat, NEW wire \in [1 .. m -> Nat \ {0}],
           NEW bytes \in Seq(BytesOf(m)), NEW first,
           NEW more, 1 .. m \subseteq DOMAIN more,
           \A n \in 1 .. m : more[n] = wire[n]
    PROVE  /\ InLine(bytes, first, wire) => InLine(bytes, first, more)
           /\ \A b : GoesOn(bytes, first, wire, b) => GoesOn(bytes, first, more, b)
<1>1. \A j \in 1 .. Len(bytes) :
        /\ bytes[j][1] \in 1 .. m
        /\ bytes[j][1] \in DOMAIN more
        /\ more[bytes[j][1]] = wire[bytes[j][1]]
  BY DEF BytesOf
<1>2. bytes # <<>> => Len(bytes) \in 1 .. Len(bytes)
  OBVIOUS
<1>3. \A j \in 1 .. Len(bytes) - 1 : j \in 1 .. Len(bytes)
  OBVIOUS
<1>4. InLine(bytes, first, wire) => InLine(bytes, first, more)
  BY <1>1, <1>3 DEF InLine
<1>5. \A b : GoesOn(bytes, first, wire, b) => GoesOn(bytes, first, more, b)
  BY <1>1, <1>2 DEF GoesOn, ByteAfter
<1>. QED  BY <1>4, <1>5

-----------------------------------------------------------------------------
(* The type invariant, for a reader of either side and torn packets too.   *)
(* It needs Midways: a call that goes on is that of a packet that was      *)
(* sent, and has bytes left.                                               *)

TypeInv == TypeOK /\ Midways

LEMMA LengthProperties ==
    ASSUME TypeOK
    PROVE  /\ stream \in Seq(BytesOf(Len(sent))) /\ header \in Seq(BytesOf(Len(sent)))
           /\ Len(sent) \in Nat /\ Len(stream) \in Nat /\ Len(header) \in Nat
           /\ Len(delivered) \in Nat /\ Window \in Nat /\ HeaderBytes \in Nat \ {0}
<1>1. /\ stream \in Seq(BytesOf(Len(sent))) /\ header \in Seq(BytesOf(Len(sent)))
      /\ sent \in Seq(Packets) /\ delivered \in Seq(0 .. Len(sent))
  BY DEF TypeOK, BytesOf
<1>2. /\ Len(sent) \in Nat /\ Len(stream) \in Nat /\ Len(header) \in Nat
      /\ Len(delivered) \in Nat
  BY <1>1, LenProperties
<1>. QED  BY <1>1, <1>2, StreamAssumption

LEMMA WireProperties ==
    ASSUME TypeOK
    PROVE  /\ Len(sent) \in Nat
           /\ Wire \in [1 .. Len(sent) -> Nat \ {0}]
           /\ \A n \in 1 .. Len(sent) :
                /\ sent[n] \in Packets
                /\ Size[sent[n]] \in Nat
                /\ Wire[n] = HeaderBytes + Size[sent[n]]
<1>1. \A n \in 1 .. Len(sent) : sent[n] \in Packets /\ Size[sent[n]] \in Nat
  <2>1. sent \in Seq(Packets)
    BY DEF TypeOK
  <2>2. Size \in [Packets -> Nat]
    BY StreamAssumption
  <2>. QED  BY <2>1, <2>2
<1>2. Len(sent) \in Nat
  BY DEF TypeOK
<1>. QED  BY <1>1, <1>2, StreamAssumption DEF Wire, WireLength

LEMMA WireNext ==
    TypeOK' => (Len(sent) \in Nat /\ Wire \in [1 .. Len(sent) -> Nat \ {0}])'
<1>1. TypeOK => Len(sent) \in Nat /\ Wire \in [1 .. Len(sent) -> Nat \ {0}]
  BY WireProperties
<1>. QED  BY <1>1, PTL

(* What send() takes: at least a byte, and no more than there is room for. *)
Took(s, n, p, from, count) ==
    /\ from + count <= WireLength(p)
    /\ Len(stream) + count <= Window
    /\ stream' = stream \o Bytes(n, from, count)
    /\ call' = [call EXCEPT ![s] =
                  IF from + count = WireLength(p) THEN Idle
                  ELSE [packet |-> n, taken |-> from + count]]

LEMMA TakesProperties ==
    ASSUME TypeOK, Room > 0, NEW s, NEW n, NEW p \in Packets,
           NEW from \in Nat, from < WireLength(p), Takes(s, n, p, from)
    PROVE  \E count \in Nat \ {0} : Took(s, n, p, from, count)
<1>. DEFINE left == WireLength(p) - from
            count == Smaller(Room, left)
<1>1. /\ WireLength(p) \in Nat /\ left \in Nat /\ left > 0
      /\ Room \in Nat /\ Len(stream) \in Nat /\ Window \in Nat
      /\ Room = Window - Len(stream)
  <2>1. WireLength(p) \in Nat
    BY StreamAssumption DEF WireLength
  <2>2. Len(stream) \in Nat /\ Window \in Nat
    BY LengthProperties
  <2>3. Room \in Nat /\ Room = Window - Len(stream)
    BY <2>2 DEF Room
  <2>. QED  BY <2>1, <2>2, <2>3
<1>2. count \in Nat \ {0} /\ count <= Room /\ count <= left
  <2>. HIDE DEF left
  <2>1. /\ Smaller(Room, left) \in Nat /\ Smaller(Room, left) <= Room
        /\ Smaller(Room, left) <= left
        /\ Room > 0 /\ left > 0 => Smaller(Room, left) > 0
    BY <1>1, SmallerProperties
  <2>. QED  BY <1>1, <2>1
<1>3. /\ stream' = stream \o Bytes(n, from, count)
      /\ call' = [call EXCEPT ![s] =
                    IF from + count = WireLength(p) THEN Idle
                    ELSE [packet |-> n, taken |-> from + count]]
  BY DEF Takes
<1>4. from + count <= WireLength(p) /\ Len(stream) + count <= Window
  <2>1. left = WireLength(p) - from
    OBVIOUS
  <2>. HIDE DEF left, count
  <2>. QED  BY <1>1, <1>2, <2>1
<1>5. Took(s, n, p, from, count)
  BY <1>3, <1>4 DEF Took
<1>. HIDE DEF count
<1>. QED  BY <1>2, <1>5

(* Calls and stream after a send, in the larger or the same set of bytes.  *)
LEMMA TakesKeepsTypes ==
    ASSUME TypeOK, NEW m \in Nat, Len(sent) <= m,
           NEW s \in Senders, NEW n \in 1 .. m, NEW from \in Nat, NEW count \in Nat \ {0},
           Len(stream) + count <= Window,
           NEW done \in BOOLEAN,
           stream' = stream \o Bytes(n, from, count),
           call' = [call EXCEPT ![s] =
                      IF done THEN Idle ELSE [packet |-> n, taken |-> from + count]]
    PROVE  /\ stream' \in Seq(BytesOf(m))
           /\ Len(stream') <= Window
           /\ call' \in [Senders -> [packet : 0 .. m, taken : Nat]]
<1>1. Len(sent) \in Nat /\ Len(stream) \in Nat /\ Window \in Nat /\ count \in Nat
  BY LengthProperties
<1>2. stream \in Seq(BytesOf(Len(sent))) /\ BytesOf(Len(sent)) \subseteq BytesOf(m)
  BY <1>1 DEF TypeOK, BytesOf
<1>3. stream \in Seq(BytesOf(m))
  BY <1>2, SeqMonotonic
<1>4. /\ Bytes(n, from, count) \in Seq(BytesOf(m))
      /\ Len(Bytes(n, from, count)) = count
  BY <1>1, BytesProperties
<1>5. stream' \in Seq(BytesOf(m)) /\ Len(stream') = Len(stream) + count
  BY <1>3, <1>4, ConcatProperties, Zenon
<1>6. call \in [Senders -> [packet : 0 .. m, taken : Nat]]
  <2>1. 0 .. Len(sent) \subseteq 0 .. m
    BY <1>1
  <2>. QED  BY <2>1 DEF TypeOK
<1>7. (IF done THEN Idle ELSE [packet |-> n, taken |-> from + count])
        \in [packet : 0 .. m, taken : Nat]
  BY <1>1 DEF Idle
<1>. QED  BY <1>1, <1>5, <1>6, <1>7

(* What recv() returns, and leaves.                                        *)
LEMMA RecvProperties ==
    ASSUME TypeOK, NEW wanted \in Nat, NEW count, Recv(wanted, count)
    PROVE  /\ count \in 1 .. wanted /\ count \in 0 .. Len(stream)
           /\ stream' = SubSeq(stream, count + 1, Len(stream))
           /\ stream' \in Seq(BytesOf(Len(sent)))
           /\ Len(stream') = Len(stream) - count /\ Len(stream') <= Window
           /\ SubSeq(stream, 1, count) \in Seq(BytesOf(Len(sent)))
           /\ Len(SubSeq(stream, 1, count)) = count
           /\ \A k \in 1 .. count : SubSeq(stream, 1, count)[k] = stream[k]
<1>1. /\ stream \in Seq(BytesOf(Len(sent))) /\ Len(stream) \in Nat
      /\ Len(stream) <= Window /\ Window \in Nat
  BY LengthProperties DEF TypeOK
<1>2. /\ count \in 1 .. Smaller(wanted, Len(stream))
      /\ stream' = SubSeq(stream, count + 1, Len(stream))
  BY DEF Recv
<1>3. /\ Smaller(wanted, Len(stream)) \in Nat /\ Smaller(wanted, Len(stream)) <= wanted
      /\ Smaller(wanted, Len(stream)) <= Len(stream)
  BY <1>1, SmallerProperties
<1>4. count \in 1 .. wanted /\ count \in 0 .. Len(stream)
  BY <1>1, <1>2, <1>3
<1>5. /\ stream' \in Seq(BytesOf(Len(sent))) /\ Len(stream') = Len(stream) - count
  BY <1>1, <1>2, <1>4, RestProperties
<1>6. /\ SubSeq(stream, 1, count) \in Seq(BytesOf(Len(sent)))
      /\ Len(SubSeq(stream, 1, count)) = count
      /\ \A k \in 1 .. count : SubSeq(stream, 1, count)[k] = stream[k]
  BY <1>1, <1>4, StartProperties
<1>. QED  BY <1>1, <1>2, <1>4, <1>5, <1>6

LEMMA PacketOfProperties ==
    ASSUME TypeOK, NEW bytes
    PROVE  /\ PacketOf(bytes) \in 0 .. Len(sent)
           /\ \A n \in 1 .. Len(sent) :
                bytes = Bytes(n, 0, WireLength(sent[n])) => PacketOf(bytes) = n
<1>1. Len(sent) \in Nat
  BY LengthProperties
<1>2. ASSUME NEW n \in 1 .. Len(sent), bytes = Bytes(n, 0, WireLength(sent[n]))
      PROVE  bytes[1][1] = n /\ PacketOf(bytes) = n
  <2>1. 1 \in 1 .. WireLength(sent[n])
    BY WireProperties, StreamAssumption DEF WireLength
  <2>2. bytes[1][1] = n
    BY <1>2, <2>1 DEF Bytes
  <2>. QED  BY <1>2, <2>2 DEF PacketOf
<1>3. PacketOf(bytes) \in 0 .. Len(sent)
  <2>1. CASE \E n \in 1 .. Len(sent) : bytes = Bytes(n, 0, WireLength(sent[n]))
    BY <1>1, <1>2, <2>1
  <2>2. CASE ~ \E n \in 1 .. Len(sent) : bytes = Bytes(n, 0, WireLength(sent[n]))
    BY <1>1, <2>2 DEF PacketOf
  <2>. QED  BY <2>1, <2>2
<1>. QED  BY <1>2, <1>3

(* Only a send makes sent longer, and then it appends one packet.          *)
LEMMA SentGrows ==
    ASSUME TypeOK, NEW p \in Packets, sent' = Append(sent, p)
    PROVE  /\ sent' \in Seq(Packets) /\ Len(sent') = Len(sent) + 1
           /\ sent'[Len(sent) + 1] = p
           /\ \A n \in 1 .. Len(sent) : sent'[n] = sent[n]
           /\ Wire' \in [1 .. Len(sent) + 1 -> Nat \ {0}]
           /\ Wire'[Len(sent) + 1] = WireLength(p)
           /\ \A n \in 1 .. Len(sent) : Wire'[n] = Wire[n]
<1>1. /\ sent' \in Seq(Packets) /\ Len(sent') = Len(sent) + 1
      /\ sent'[Len(sent) + 1] = p
      /\ \A n \in 1 .. Len(sent) : sent'[n] = sent[n]
  BY AppendProperties DEF TypeOK
<1>2. Wire' = [n \in 1 .. Len(sent') |-> WireLength(sent'[n])]
  BY DEF Wire, WireLength
<1>3. \A n \in 1 .. Len(sent') : WireLength(sent'[n]) \in Nat \ {0}
  <2>1. \A n \in 1 .. Len(sent') : sent'[n] \in Packets
    BY <1>1
  <2>. QED  BY <2>1, StreamAssumption DEF WireLength
<1>4. Len(sent) \in Nat
  BY LengthProperties
<1>. QED  BY <1>1, <1>2, <1>3, <1>4 DEF Wire

LEMMA TypeInvInit == Init => TypeInv
<1>. SUFFICES ASSUME Init PROVE TypeInv
  OBVIOUS
<1>1. /\ sent = <<>> /\ stream = <<>> /\ header = <<>> /\ delivered = <<>>
      /\ call = [s \in Senders |-> Idle] /\ torn = FALSE /\ link = "up"
      /\ reader = "header" /\ due = 0
  BY DEF Init
<1>2. TypeOK
  <2>1. Len(sent) = 0 /\ Len(stream) = 0
    BY <1>1
  <2>2. Len(stream) <= Window
    BY <2>1, StreamAssumption
  <2>3. call \in [Senders -> [packet : 0 .. Len(sent), taken : Nat]]
    BY <1>1, <2>1 DEF Idle
  <2>4. /\ sent \in Seq(Packets)
        /\ stream \in Seq((1 .. Len(sent)) \X (Nat \ {0}))
        /\ header \in Seq((1 .. Len(sent)) \X (Nat \ {0}))
        /\ delivered \in Seq(0 .. Len(sent))
    BY <1>1, EmptySeq
  <2>. QED  BY <1>1, <2>2, <2>3, <2>4 DEF TypeOK
<1>3. Midways
  BY DEF Init, Midways, Midway
<1>. QED  BY <1>2, <1>3 DEF TypeInv

LEMMA TypeInvStep ==
    ASSUME TypeInv, Next
    PROVE  TypeInv'
<1>. USE DEF TypeInv
<1>0. /\ Len(sent) \in Nat /\ stream \in Seq(BytesOf(Len(sent)))
      /\ Len(stream) \in Nat /\ Len(stream) <= Window
      /\ header \in Seq(BytesOf(Len(sent))) /\ HeaderBytes \in Nat \ {0}
      /\ sent' = sent => Wire' = Wire
  BY LengthProperties DEF Wire, WireLength, TypeOK
<1>1. ASSUME NEW s \in Senders, NEW p \in Packets, SendBegins(s, p)
      PROVE  TypeInv'
  <2>. DEFINE m == Len(sent) + 1
  <2>1. /\ sent' = Append(sent, p) /\ Takes(s, m, p, 0) /\ Room > 0
        /\ torn' = (torn \/ \E t \in Senders : Midway(t))
        /\ UNCHANGED <<link, readerVars>>
    BY <1>1 DEF SendBegins
  <2>2. /\ sent' \in Seq(Packets) /\ Len(sent') = m /\ m \in Nat
        /\ \A n \in 1 .. Len(sent) : Wire'[n] = Wire[n]
        /\ Wire'[m] = WireLength(p) /\ WireLength(p) \in Nat /\ 0 < WireLength(p)
    <3>1. WireLength(p) \in Nat /\ 0 < WireLength(p)
      BY StreamAssumption DEF WireLength
    <3>. QED  BY <1>0, <2>1, <3>1, SentGrows
  <2>. HIDE DEF m
  <2>3. PICK count \in Nat \ {0} : Took(s, m, p, 0, count)
    <3>1. TypeOK /\ 0 \in Nat /\ p \in Packets
      OBVIOUS
    <3>. QED  BY <2>1, <2>2, <3>1, TakesProperties, Zenon
  <2>4. /\ stream' \in Seq(BytesOf(m)) /\ Len(stream') <= Window
        /\ call' \in [Senders -> [packet : 0 .. m, taken : Nat]]
    <3>1. (0 + count = WireLength(p)) \in BOOLEAN /\ m \in 1 .. m /\ Len(sent) <= m
      BY <1>0, <2>2 DEF m
    <3>. QED  BY <2>2, <2>3, <3>1, TakesKeepsTypes DEF Took
  <2>5. /\ header' \in Seq(BytesOf(m)) /\ delivered' \in Seq(0 .. m)
    <3>1. BytesOf(Len(sent)) \subseteq BytesOf(m) /\ 0 .. Len(sent) \subseteq 0 .. m
      BY <1>0, <2>2 DEF m, BytesOf
    <3>2. header \in Seq(BytesOf(m))
      BY <1>0, <3>1, SeqMonotonic
    <3>3. delivered \in Seq(0 .. m)
      BY <3>1, SeqMonotonic DEF TypeOK
    <3>. QED  BY <2>1, <3>2, <3>3 DEF readerVars
  <2>6. TypeOK'
    <3>1. torn' \in BOOLEAN
      BY <2>1 DEF TypeOK
    <3>. QED  BY <2>1, <2>2, <2>4, <2>5, <3>1
              DEF TypeOK, readerVars, BytesOf
  <2>7. Midways'
    <3>. SUFFICES ASSUME NEW t \in Senders, call'[t] # Idle
                  PROVE  /\ call'[t].packet \in 1 .. m
                         /\ call'[t].taken \in 1 .. Wire'[call'[t].packet] - 1
      BY <2>2 DEF Midways, Midway
    <3>1. CASE t = s
      <4>1. call'[t] = [packet |-> m, taken |-> count] /\ count # WireLength(p)
        BY <2>3, <3>1 DEF TypeOK, Took
      <4>. QED  BY <1>0, <2>2, <2>3, <4>1 DEF m, Took
    <3>2. CASE t # s
      <4>1. call'[t] = call[t]
        BY <2>3, <3>2 DEF TypeOK, Took
      <4>2. /\ call[t].packet \in 1 .. Len(sent)
            /\ call[t].taken \in 1 .. Wire[call[t].packet] - 1
        BY <4>1 DEF Midways, Midway
      <4>. QED  BY <1>0, <2>2, <4>1, <4>2 DEF m
    <3>. QED  BY <3>1, <3>2
  <2>. QED  BY <2>6, <2>7
<1>2. ASSUME NEW s \in Senders, SendContinues(s)
      PROVE  TypeInv'
  <2>. DEFINE m == Len(sent)
              n == call[s].packet
              p == sent[n]
              from == call[s].taken
  <2>1. /\ Takes(s, n, p, from) /\ Room > 0 /\ Midway(s)
        /\ UNCHANGED <<sent, torn, link, readerVars>>
    BY <1>2 DEF SendContinues
  <2>2. /\ n \in 1 .. m /\ p \in Packets /\ from \in Nat \ {0} /\ Wire[n] = WireLength(p)
        /\ WireLength(p) \in Nat /\ from < WireLength(p)
    <3>1. n \in 1 .. m /\ from \in 1 .. Wire[n] - 1
      BY <2>1 DEF Midways
    <3>2. p \in Packets /\ Wire[n] \in Nat /\ Wire[n] = WireLength(p)
      BY <3>1, WireProperties DEF WireLength
    <3>. QED  BY <3>1, <3>2
  <2>. HIDE DEF n, p, from
  <2>3. PICK count \in Nat \ {0} : Took(s, n, p, from, count)
    <3>1. TypeOK /\ from \in Nat
      BY <2>2
    <3>. QED  BY <2>1, <2>2, <3>1, TakesProperties, Zenon
  <2>4. /\ stream' \in Seq(BytesOf(m)) /\ Len(stream') <= Window
        /\ call' \in [Senders -> [packet : 0 .. m, taken : Nat]]
    <3>1. (from + count = WireLength(p)) \in BOOLEAN /\ m \in Nat /\ Len(sent) <= m
      BY <1>0
    <3>. QED  BY <2>2, <2>3, <3>1, TakesKeepsTypes DEF Took
  <2>5. TypeOK'
    BY <2>1, <2>4 DEF TypeOK, readerVars, BytesOf
  <2>6. Midways'
    <3>. SUFFICES ASSUME NEW t \in Senders, call'[t] # Idle
                  PROVE  /\ call'[t].packet \in 1 .. m
                         /\ call'[t].taken \in 1 .. Wire[call'[t].packet] - 1
      BY <1>0, <2>1 DEF Midways, Midway
    <3>1. CASE t = s
      <4>1. call'[t] = [packet |-> n, taken |-> from + count] /\ from + count # WireLength(p)
        BY <2>3, <3>1 DEF TypeOK, Took
      <4>. QED  BY <2>2, <2>3, <4>1 DEF Took
    <3>2. CASE t # s
      <4>1. call'[t] = call[t]
        BY <2>3, <3>2 DEF TypeOK, Took
      <4>. QED  BY <4>1 DEF Midways, Midway
    <3>. QED  BY <3>1, <3>2
  <2>. QED  BY <2>5, <2>6
<1>3. ASSUME NEW s \in Senders, SendInterrupted(s) \/ SendFails(s)
      PROVE  TypeInv'
  <2>1. /\ UNCHANGED <<sent, stream, link, reader, header, due, delivered>>
        /\ call' = [call EXCEPT ![s] = Idle]
        /\ torn' \in BOOLEAN
    BY <1>3 DEF SendInterrupted, SendFails, readerVars, TypeOK
  <2>2. /\ call' \in [Senders -> [packet : 0 .. Len(sent), taken : Nat]]
        /\ \A t \in Senders : call'[t] # Idle => call'[t] = call[t]
    BY <1>0, <2>1 DEF TypeOK, Idle
  <2>3. TypeOK'
    BY <2>1, <2>2 DEF TypeOK
  <2>4. Midways'
    BY <1>0, <2>1, <2>2 DEF Midways, Midway
  <2>. QED  BY <2>3, <2>4
<1>4. ASSUME Reads
      PROVE  TypeInv'
  <2>1. UNCHANGED <<call, sent, torn, link>>
    BY <1>4 DEF Reads, ReadHeader, ReadBody, ReadEnd, senderVars
  <2>2. ASSUME stream' \in Seq(BytesOf(Len(sent))), Len(stream') <= Window,
               \/ GivesUp
               \/ \E bytes : Delivers(bytes)
               \/ /\ reader' = "body" /\ due' \in Nat /\ delivered' = delivered
                  /\ header' \in Seq(BytesOf(Len(sent)))
        PROVE  TypeInv'
    <3>1. /\ header' \in Seq(BytesOf(Len(sent))) /\ due' \in Nat
          /\ delivered' \in Seq(0 .. Len(sent))
          /\ reader' \in {"header", "body", "gone", "ended"}
          /\ reader' \in {"header", "gone"} => header' = <<>> /\ due' = 0
      <4>1. CASE GivesUp
        BY <4>1, EmptySeq DEF GivesUp, AfterShortRead, TypeOK
      <4>2. ASSUME NEW bytes, Delivers(bytes)
            PROVE  <3>1
        <5>1. PacketOf(bytes) \in 0 .. Len(sent)
          BY PacketOfProperties
        <5>2. delivered' \in Seq(0 .. Len(sent))
          BY <4>2, <5>1, AppendProperties DEF Delivers, TypeOK
        <5>. QED  BY <4>2, <5>2, EmptySeq DEF Delivers
      <4>3. CASE /\ reader' = "body" /\ due' \in Nat /\ delivered' = delivered
                 /\ header' \in Seq(BytesOf(Len(sent)))
        BY <4>3 DEF TypeOK
      <4>. QED  BY <2>2, <4>1, <4>2, <4>3
    <3>2. TypeOK'
      BY <2>1, <2>2, <3>1 DEF TypeOK, BytesOf
    <3>3. Midways'
      BY <1>0, <2>1 DEF Midways, Midway
    <3>. QED  BY <3>2, <3>3
  <2>3. CASE ReadHeader
    <3>1. PICK count \in 1 .. HeaderBytes :
            /\ Recv(HeaderBytes, count)
            /\ IF count # HeaderBytes
                 THEN GivesUp
                 ELSE LET bytes == SubSeq(stream, 1, count) IN
                      \E length \in Announced(bytes) :
                        IF length = 0
                          THEN Delivers(bytes)
                          ELSE /\ reader' = "body"
                               /\ header' = bytes
                               /\ due' = length
                               /\ UNCHANGED delivered
      BY <2>3 DEF ReadHeader
    <3>2. /\ stream' \in Seq(BytesOf(Len(sent))) /\ Len(stream') <= Window
          /\ SubSeq(stream, 1, count) \in Seq(BytesOf(Len(sent)))
      BY <1>0, <3>1, RecvProperties
    <3>3. Announced(SubSeq(stream, 1, count)) \subseteq Nat
      BY WireProperties, StreamAssumption DEF Announced, HeaderOf
    <3>. QED  BY <2>2, <3>1, <3>2, <3>3
  <2>4. CASE ReadBody
    <3>1. PICK count \in 1 .. due :
            /\ Recv(due, count)
            /\ IF count # due
                 THEN GivesUp
                 ELSE Delivers(header \o SubSeq(stream, 1, count))
      BY <2>4 DEF ReadBody
    <3>2. stream' \in Seq(BytesOf(Len(sent))) /\ Len(stream') <= Window
      <4>1. due \in Nat
        BY DEF TypeOK
      <4>. QED  BY <3>1, <4>1, RecvProperties
    <3>. QED  BY <2>2, <3>1, <3>2
  <2>5. CASE ReadEnd
    <3>1. stream' = stream /\ GivesUp
      BY <2>5 DEF ReadEnd
    <3>. QED  BY <1>0, <2>2, <3>1
  <2>. QED  BY <1>4, <2>3, <2>4, <2>5 DEF Reads
<1>5. ASSUME SendKills \/ SenderCloses \/ ReaderEnds
      PROVE  TypeInv'
  <2>1. /\ UNCHANGED <<sent, stream, header, due, delivered>>
        /\ call' = call \/ call' = [t \in Senders |-> Idle]
        /\ torn' \in BOOLEAN
        /\ link' \in {"up", "fin", "reset", "killed"}
        /\ reader' = reader \/ reader' = "ended"
    BY <1>5 DEF SendKills, SenderCloses, ReaderEnds, readerVars, senderVars,
                TypeOK
  <2>2. /\ call' \in [Senders -> [packet : 0 .. Len(sent), taken : Nat]]
        /\ \A t \in Senders : call'[t] # Idle => call'[t] = call[t]
    BY <1>0, <2>1 DEF TypeOK, Idle
  <2>3. TypeOK'
    BY <2>1, <2>2 DEF TypeOK
  <2>4. Midways'
    BY <1>0, <2>1, <2>2 DEF Midways, Midway
  <2>. QED  BY <2>3, <2>4
<1>. QED  BY <1>1, <1>2, <1>3, <1>4, <1>5 DEF Next

-----------------------------------------------------------------------------
(* What is unread stays in line, for a server, until a packet is torn.     *)

LEMMA UnreadProperties ==
    ASSUME TypeOK
    PROVE  /\ Unread \in Seq(BytesOf(Len(sent)))
           /\ Len(Unread) = Len(header) + Len(stream)
           /\ \A k \in 1 .. Len(header) : Unread[k] = header[k]
           /\ \A k \in 1 .. Len(stream) : Unread[Len(header) + k] = stream[k]
           /\ header = <<>> => Unread = stream
<1>1. /\ stream \in Seq(BytesOf(Len(sent))) /\ header \in Seq(BytesOf(Len(sent)))
      /\ Len(header) \in Nat /\ Len(stream) \in Nat
  BY LengthProperties
<1>2. Unread \in Seq(BytesOf(Len(sent)))
  BY <1>1, ConcatProperties DEF Unread
<1>3. Len(Unread) = Len(header) + Len(stream)
  BY <1>1, ConcatProperties DEF Unread
<1>4. \A k \in 1 .. Len(header) : Unread[k] = header[k]
  BY <1>1 DEF Unread
<1>5. \A k \in 1 .. Len(stream) : Unread[Len(header) + k] = stream[k]
  BY <1>1 DEF Unread
<1>6. header = <<>> => Unread = stream
  BY <1>1, ConcatEmptySeq DEF Unread
<1>. QED  BY <1>2, <1>3, <1>4, <1>5, <1>6

LEMMA StreamInvInit == Init => StreamInv
<1>. SUFFICES ASSUME Init PROVE StreamInv
  OBVIOUS
<1>1. /\ sent = <<>> /\ stream = <<>> /\ header = <<>> /\ delivered = <<>>
      /\ call = [s \in Senders |-> Idle] /\ reader = "header"
  BY DEF Init
<1>2. TypeInv
  BY TypeInvInit
<1>3. Len(sent) = 0 /\ Len(delivered) = 0 /\ Len(Unread) = 0 /\ Unread = <<>>
  BY <1>1, <1>2, UnreadProperties DEF TypeInv
<1>4. \A s \in Senders : ~Midway(s)
  BY <1>1 DEF Midway
<1>5. ReaderInLine
  <2>1. InLine(Unread, Upcoming, Wire)
    BY <1>3 DEF InLine
  <2>2. Frontier
    BY <1>3, <1>4 DEF Frontier, GoesOn, Upcoming
  <2>. QED  BY <1>1, <2>1, <2>2 DEF ReaderInLine
<1>. QED  BY <1>2, <1>3, <1>4, <1>5 DEF StreamInv, TypeInv, OneAtWork, InStep

(* A step of send() with the last packet, when no other call waits.        *)
LEMMA TookKeepsLine ==
    ASSUME TypeInv, TypeInv', NEW m \in Nat, Len(sent') = m, 1 <= m, Len(sent) <= m,
           InLine(Unread, Upcoming, Wire'),
           NEW s \in Senders, NEW p, NEW from \in Nat, NEW count \in Nat \ {0},
           Took(s, m, p, from, count), WireLength(p) = Wire'[m],
           GoesOn(Unread, Upcoming, Wire', <<m, from + 1>>),
           UNCHANGED readerVars,
           \A t \in Senders : t # s => ~Midway(t)
    PROVE  (InLine(Unread, Upcoming, Wire) /\ Frontier /\ OneAtWork)'
<1>. DEFINE wire == Wire'
            next == ByteAfter(<<m, from + count>>, wire)
            longer == Unread \o Bytes(m, from, count)
<1>1. wire \in [1 .. m -> Nat \ {0}] /\ wire[m] \in Nat
  BY WireNext DEF TypeInv
<1>2. /\ header \in Seq(BytesOf(m)) /\ stream \in Seq(BytesOf(m))
      /\ Unread \in Seq(BytesOf(m))
  <2>1. /\ header \in Seq(BytesOf(Len(sent))) /\ stream \in Seq(BytesOf(Len(sent)))
        /\ Len(sent) \in Nat
    BY LengthProperties DEF TypeInv
  <2>2. BytesOf(Len(sent)) \subseteq BytesOf(m)
    BY <2>1 DEF BytesOf
  <2>3. header \in Seq(BytesOf(m)) /\ stream \in Seq(BytesOf(m))
    BY <2>1, <2>2, SeqMonotonic
  <2>. QED  BY <2>3, ConcatProperties DEF Unread
<1>3. InLine(longer, Upcoming, wire) /\ GoesOn(longer, Upcoming, wire, next)
  <2>1. m \in 1 .. m /\ from + count <= wire[m]
    BY DEF Took
  <2>. HIDE DEF wire
  <2>. QED  BY <1>1, <1>2, <2>1, LineGoesOn DEF wire
<1>4. Unread' = longer /\ Upcoming' = Upcoming
  <2>1. Bytes(m, from, count) \in Seq(BytesOf(m))
    <3>1. m \in 1 .. m /\ count \in Nat
      OBVIOUS
    <3>. QED  BY <3>1, BytesProperties
  <2>2. (header \o stream) \o Bytes(m, from, count) = header \o (stream \o Bytes(m, from, count))
    <3>. DEFINE set == BytesOf(m)
                more == Bytes(m, from, count)
    <3>1. header \in Seq(set) /\ stream \in Seq(set) /\ more \in Seq(set)
      BY <1>2, <2>1
    <3>. HIDE DEF set, more
    <3>2. (header \o stream) \o more = header \o (stream \o more)
      BY <3>1, SMTT(40)
    <3>. QED  BY <3>2 DEF more
  <2>3. header' = header /\ stream' = stream \o Bytes(m, from, count) /\ delivered' = delivered
    BY DEF readerVars, Took
  <2>. QED  BY <2>2, <2>3 DEF Unread, Upcoming
<1>5. /\ from + count <= wire[m]
      /\ call'[s] = IF from + count = wire[m] THEN Idle
                    ELSE [packet |-> m, taken |-> from + count]
      /\ \A t \in Senders : t # s => ~Midway(t)'
  BY DEF Took, TypeInv, TypeOK, Midway
<1>. HIDE DEF longer
<1>6. Frontier'
  <2>1. ASSUME \A t \in Senders : ~Midway(t)'
        PROVE  GoesOn(longer, Upcoming, wire, <<m + 1, 1>>)
    <3>1. from + count = wire[m]
      BY <1>5, <2>1 DEF Midway, Idle
    <3>2. next = <<m + 1, 1>>
      BY <1>1, <3>1 DEF ByteAfter
    <3>. QED  BY <1>3, <3>2
  <2>2. ASSUME NEW t \in Senders, Midway(t)'
        PROVE  GoesOn(longer, Upcoming, wire, <<m, call'[t].taken + 1>>)
    <3>1. t = s /\ from + count < wire[m] /\ call'[t].taken = from + count
      <4>1. t = s /\ from + count # wire[m]
        BY <1>5, <2>2 DEF Midway
      <4>2. call'[t] = [packet |-> m, taken |-> from + count]
        BY <1>5, <4>1
      <4>3. from + count \in Nat /\ from + count < wire[m]
        <5>1. wire[m] \in Nat /\ from + count <= wire[m]
          BY <1>1, <1>5
        <5>. HIDE DEF wire
        <5>. QED  BY <4>1, <5>1
      <4>. QED  BY <4>1, <4>2, <4>3
    <3>2. next = <<m, call'[t].taken + 1>>
      BY <3>1 DEF ByteAfter
    <3>. QED  BY <1>3, <3>2
  <2>. HIDE DEF wire
  <2>. QED  BY <1>4, <2>1, <2>2 DEF Frontier, wire
<1>7. OneAtWork'
  BY <1>5 DEF OneAtWork, Midway, Idle
<1>. QED  BY <1>3, <1>4, <1>6, <1>7

(* What is read is that packet, and what is left begins with the next.     *)
LEMMA DeliveryKeepsLine ==
    ASSUME TypeInv, ReaderInLine, Unread # <<>>, Wire[Upcoming] <= Len(Unread),
           stream' = SubSeq(Unread, Wire[Upcoming] + 1, Len(Unread)),
           stream' \in Seq(BytesOf(Len(sent))),
           NEW bytes, bytes = Bytes(Upcoming, 0, Wire[Upcoming]), Delivers(bytes),
           UNCHANGED <<call, sent, link>>
    PROVE  /\ delivered' = Append(delivered, Upcoming)
           /\ ReaderInLine'
<1>1. /\ Len(sent) \in Nat /\ Wire \in [1 .. Len(sent) -> Nat \ {0}]
      /\ Unread \in Seq(BytesOf(Len(sent))) /\ InLine(Unread, Upcoming, Wire)
      /\ Wire' = Wire
  BY WireProperties, UnreadProperties
  DEF TypeInv, ReaderInLine, Wire, WireLength
<1>2. Upcoming \in 1 .. Len(sent)
  BY <1>1, FrontOfLine
<1>3. PacketOf(bytes) = Upcoming
  <2>1. Wire[Upcoming] = WireLength(sent[Upcoming])
    BY <1>2 DEF Wire
  <2>. QED  BY <1>2, <2>1, PacketOfProperties DEF TypeInv
<1>4. delivered' = Append(delivered, Upcoming)
  BY <1>3 DEF Delivers
<1>5. /\ InLine(stream', Upcoming + 1, Wire)
      /\ \A b : GoesOn(Unread, Upcoming, Wire, b) => GoesOn(stream', Upcoming + 1, Wire, b)
  BY <1>1, LineMovesOn
<1>6. Unread' = stream' /\ Upcoming' = Upcoming + 1
  <2>1. header' = <<>> /\ delivered \in Seq(0 .. Len(sent)) /\ Upcoming \in 0 .. Len(sent)
    BY <1>2 DEF Delivers, TypeInv, TypeOK
  <2>2. Unread' = stream'
    BY <2>1, ConcatEmptySeq DEF Unread
  <2>3. Len(delivered') = Len(delivered) + 1
    BY <1>4, <2>1, AppendProperties
  <2>4. Len(delivered) \in Nat
    BY LengthProperties DEF TypeInv
  <2>. QED  BY <2>2, <2>3, <2>4 DEF Upcoming
<1>7. link' = "up" => Frontier'
  <2>. SUFFICES ASSUME link = "up" PROVE Frontier'
    OBVIOUS
  <2>1. Frontier
    BY DEF ReaderInLine
  <2>2. \A b : GoesOn(Unread, Upcoming, Wire, b) => GoesOn(Unread', Upcoming', Wire', b)
    BY <1>1, <1>5, <1>6
  <2>. QED  BY <2>1, <2>2 DEF Frontier, Midway
<1>8. reader' = "header"
  BY DEF Delivers
<1>. QED  BY <1>1, <1>4, <1>5, <1>6, <1>7, <1>8 DEF ReaderInLine

LEMMA ReadHeaderInLine ==
    ASSUME TypeInv, reader = "header", ReaderInLine,
           NEW bytes, bytes = SubSeq(stream, 1, HeaderBytes),
           Recv(HeaderBytes, HeaderBytes)
    PROVE  /\ Unread = stream /\ stream # <<>> /\ Upcoming \in 1 .. Len(sent)
           /\ HeaderBytes <= Len(stream)
           /\ bytes = Bytes(Upcoming, 0, HeaderBytes)
           /\ Announced(bytes) = {Size[sent[Upcoming]]}
           /\ bytes \o stream' = stream
<1>1. /\ HeaderBytes \in Nat \ {0} /\ Len(sent) \in Nat /\ Len(stream) \in Nat
      /\ stream \in Seq(BytesOf(Len(sent))) /\ Wire \in [1 .. Len(sent) -> Nat \ {0}]
  BY WireProperties, LengthProperties DEF TypeInv
<1>2. Unread = stream
  BY UnreadProperties DEF TypeInv, TypeOK
<1>3. /\ HeaderBytes \in 0 .. Len(stream)
      /\ stream' = SubSeq(stream, HeaderBytes + 1, Len(stream))
      /\ bytes \in Seq(BytesOf(Len(sent))) /\ Len(bytes) = HeaderBytes
      /\ \A k \in 1 .. HeaderBytes : bytes[k] = stream[k]
  BY <1>1, RecvProperties DEF TypeInv
<1>4. stream # <<>>
  BY <1>1, <1>3
<1>5. /\ Upcoming \in 1 .. Len(sent)
      /\ \A k \in 1 .. Len(stream) : k <= Wire[Upcoming] => stream[k] = <<Upcoming, k>>
  BY <1>1, <1>2, <1>4, FrontOfLine, SMTT(20) DEF ReaderInLine
<1>6. Wire[Upcoming] \in Nat /\ HeaderBytes <= Wire[Upcoming]
  BY <1>1, <1>5, WireProperties DEF TypeInv
<1>7. ASSUME NEW k \in 1 .. HeaderBytes
      PROVE  bytes[k] = <<Upcoming, k>>
  <2>1. k \in 1 .. Len(stream) /\ k <= Wire[Upcoming]
    BY <1>1, <1>3, <1>6
  <2>. QED  BY <1>3, <1>5, <2>1
<1>8. bytes = Bytes(Upcoming, 0, HeaderBytes)
  <2>1. /\ Bytes(Upcoming, 0, HeaderBytes) \in Seq(BytesOf(Len(sent)))
        /\ Len(Bytes(Upcoming, 0, HeaderBytes)) = HeaderBytes
    BY <1>1, <1>5, BytesProperties
  <2>2. \A k \in 1 .. HeaderBytes : Bytes(Upcoming, 0, HeaderBytes)[k] = <<Upcoming, k>>
    BY <1>1 DEF Bytes
  <2>. QED  BY <1>3, <1>7, <2>1, <2>2, SeqEqual
<1>9. Announced(bytes) = {Size[sent[Upcoming]]}
  <2>1. ASSUME NEW n \in 1 .. Len(sent), bytes = Bytes(n, 0, HeaderBytes)
        PROVE  n = Upcoming
    <3>1. 1 \in 1 .. HeaderBytes
      BY <1>1
    <3>2. bytes[1] = <<Upcoming, 1>>
      BY <1>7, <3>1
    <3>3. Bytes(n, 0, HeaderBytes)[1] = <<n, 0 + 1>>
      BY <3>1 DEF Bytes
    <3>4. Bytes(n, 0, HeaderBytes)[1][1] = n /\ bytes[1][1] = Upcoming
      <4>1. \A x, i, j : x = <<i, j>> => x[1] = i
        OBVIOUS
      <4>. QED  BY <3>2, <3>3, <4>1, Zenon
    <3>. QED  BY <2>1, <3>4, Zenon
  <2>2. HeaderOf(bytes) = {Upcoming}
    BY <1>5, <1>8, <2>1 DEF HeaderOf
  <2>. QED  BY <2>2 DEF Announced
<1>10. HeaderBytes <= Len(stream)
  BY <1>1, <1>3
<1>11. bytes \o stream' = stream
  <2>1. /\ 1 \in 1 .. Len(stream) + 1 /\ HeaderBytes \in 1 - 1 .. Len(stream)
        /\ Len(stream) \in HeaderBytes .. Len(stream)
    BY <1>1, <1>10
  <2>2. SubSeq(stream, 1, HeaderBytes) \o SubSeq(stream, HeaderBytes + 1, Len(stream))
          = SubSeq(stream, 1, Len(stream))
    BY <1>1, <2>1, ConcatAdjacentSubSeq
  <2>3. SubSeq(stream, 1, Len(stream)) = stream
    BY <1>1, SubSeqFull
  <2>. QED  BY <1>3, <2>2, <2>3, Zenon
<1>. QED  BY <1>2, <1>4, <1>5, <1>8, <1>9, <1>10, <1>11, Zenon

LEMMA ReadBodyInLine ==
    ASSUME TypeInv, reader = "body", ReaderInLine,
           NEW bytes, bytes = header \o SubSeq(stream, 1, due),
           Recv(due, due)
    PROVE  /\ Unread # <<>> /\ Wire[Upcoming] <= Len(Unread)
           /\ Upcoming \in 1 .. Len(sent)
           /\ bytes = Bytes(Upcoming, 0, Wire[Upcoming])
           /\ stream' = SubSeq(Unread, Wire[Upcoming] + 1, Len(Unread))
           /\ stream' \in Seq(BytesOf(Len(sent)))
<1>. DEFINE m == Len(sent)
            w == Wire[Upcoming]
            start == SubSeq(stream, 1, due)
<1>1. /\ HeaderBytes \in Nat \ {0} /\ m \in Nat /\ Len(stream) \in Nat
      /\ stream \in Seq(BytesOf(m)) /\ header \in Seq(BytesOf(m))
      /\ Wire \in [1 .. m -> Nat \ {0}] /\ due \in Nat
  BY WireProperties, LengthProperties DEF TypeInv, TypeOK
<1>a. /\ Len(header) = HeaderBytes /\ due = Size[sent[Upcoming]]
      /\ InLine(Unread, Upcoming, Wire)
  BY DEF ReaderInLine
<1>2. /\ due \in 0 .. Len(stream)
      /\ stream' = SubSeq(stream, due + 1, Len(stream))
      /\ stream' \in Seq(BytesOf(m)) /\ Len(stream') = Len(stream) - due
      /\ start \in Seq(BytesOf(m)) /\ Len(start) = due
      /\ \A k \in 1 .. due : start[k] = stream[k]
  BY <1>1, RecvProperties DEF TypeInv
<1>3. /\ Unread \in Seq(BytesOf(m)) /\ Len(Unread) = HeaderBytes + Len(stream)
      /\ \A k \in 1 .. HeaderBytes : Unread[k] = header[k]
      /\ \A k \in 1 .. Len(stream) : Unread[HeaderBytes + k] = stream[k]
  BY <1>1, <1>a, UnreadProperties DEF TypeInv
<1>4. Unread # <<>>
  BY <1>1, <1>3
<1>5. /\ Upcoming \in 1 .. m
      /\ \A k \in 1 .. Len(Unread) : k <= Wire[Upcoming] => Unread[k] = <<Upcoming, k>>
  <2>1. /\ m \in Nat /\ Wire \in [1 .. m -> Nat \ {0}] /\ Unread \in Seq(BytesOf(m))
        /\ InLine(Unread, Upcoming, Wire) /\ Unread # <<>>
    BY <1>1, <1>3, <1>4, <1>a
  <2>. HIDE DEF m
  <2>. QED  BY <2>1, FrontOfLine, ZenonT(60)
<1>6. Upcoming \in 1 .. m
  BY <1>5
<1>7. w = HeaderBytes + due
  BY <1>6, <1>a, WireProperties DEF TypeInv
<1>. HIDE DEF m, w, start
<1>8. /\ HeaderBytes \in Nat \ {0} /\ due \in Nat /\ Len(stream) \in Nat
      /\ Len(header) = HeaderBytes /\ Len(Unread) = HeaderBytes + Len(stream)
      /\ w = HeaderBytes + due /\ due <= Len(stream)
  BY <1>1, <1>2, <1>3, <1>7, <1>a
<1>9. w \in 0 .. Len(Unread) /\ w \in Nat /\ w <= Len(Unread)
  BY <1>8
<1>10. bytes = Bytes(Upcoming, 0, w)
  <2>. DEFINE first == header \o start
  <2>1. /\ Bytes(Upcoming, 0, w) \in Seq(BytesOf(m)) /\ Len(Bytes(Upcoming, 0, w)) = w
    <3>1. m \in Nat /\ 0 \in Nat
      BY <1>1
    <3>. QED  BY <1>6, <1>9, <3>1, BytesProperties
  <2>2. \A k \in 1 .. w : Bytes(Upcoming, 0, w)[k] = <<Upcoming, k>>
    BY <1>9 DEF Bytes
  <2>3. /\ first \in Seq(BytesOf(m)) /\ Len(first) = w
        /\ \A k \in 1 .. HeaderBytes : first[k] = header[k]
        /\ \A k \in HeaderBytes + 1 .. w : first[k] = start[k - HeaderBytes]
    <3>1. /\ header \in Seq(BytesOf(m)) /\ start \in Seq(BytesOf(m))
          /\ Len(header) = HeaderBytes /\ Len(start) = due
      BY <1>1, <1>2, <1>8
    <3>2. first \in Seq(BytesOf(m)) /\ Len(first) = Len(header) + Len(start)
      BY <3>1, ConcatProperties
    <3>3. \A k \in 1 .. Len(header) : first[k] = header[k]
      BY <3>1
    <3>4. \A k \in Len(header) + 1 .. Len(header) + Len(start) :
            first[k] = start[k - Len(header)]
      BY <3>1
    <3>. HIDE DEF first
    <3>. QED  BY <1>8, <3>1, <3>2, <3>3, <3>4
  <2>. HIDE DEF first
  <2>4. \A k \in 1 .. w : first[k] = <<Upcoming, k>>
    <3>1. ASSUME NEW k \in 1 .. HeaderBytes
          PROVE  first[k] = <<Upcoming, k>>
      <4>1. k \in 1 .. Len(Unread) /\ k <= w
        BY <1>8
      <4>2. Unread[k] = <<Upcoming, k>>
        BY <1>5, <4>1 DEF w
      <4>. QED  BY <1>3, <2>3, <4>2
    <3>2. ASSUME NEW k \in HeaderBytes + 1 .. w
          PROVE  first[k] = <<Upcoming, k>>
      <4>1. /\ k - HeaderBytes \in 1 .. due /\ k - HeaderBytes \in 1 .. Len(stream)
            /\ k \in 1 .. Len(Unread) /\ k <= w /\ HeaderBytes + (k - HeaderBytes) = k
        BY <1>8
      <4>2. first[k] = start[k - HeaderBytes] /\ start[k - HeaderBytes] = stream[k - HeaderBytes]
        BY <1>2, <2>3, <4>1
      <4>3. Unread[HeaderBytes + (k - HeaderBytes)] = stream[k - HeaderBytes]
        BY <1>3, <4>1
      <4>4. Unread[k] = <<Upcoming, k>>
        BY <1>5, <4>1 DEF w
      <4>. QED  BY <4>1, <4>2, <4>3, <4>4, Zenon
    <3>3. \A k \in 1 .. w : k \in 1 .. HeaderBytes \/ k \in HeaderBytes + 1 .. w
      BY <1>8
    <3>. QED  BY <3>1, <3>2, <3>3, Zenon
  <2>5. first = Bytes(Upcoming, 0, w)
    BY <2>1, <2>2, <2>3, <2>4, SeqEqual
  <2>. QED  BY <2>5 DEF first, start
<1>11. stream' = SubSeq(Unread, w + 1, Len(Unread))
  <2>. DEFINE rest == SubSeq(Unread, w + 1, Len(Unread))
              left == SubSeq(stream, due + 1, Len(stream))
  <2>1. /\ rest \in Seq(BytesOf(m)) /\ Len(rest) = Len(Unread) - w
        /\ \A k \in 1 .. Len(Unread) - w : rest[k] = Unread[w + k]
    BY <1>3, <1>9, RestProperties
  <2>2. /\ left \in Seq(BytesOf(m)) /\ Len(left) = Len(stream) - due
        /\ \A k \in 1 .. Len(stream) - due : left[k] = stream[due + k]
    BY <1>1, <1>2, RestProperties
  <2>. HIDE DEF rest, left
  <2>3. Len(rest) = Len(left)
    BY <1>8, <2>1, <2>2
  <2>4. ASSUME NEW k \in 1 .. Len(left)
        PROVE  rest[k] = left[k]
    <3>1. /\ k \in 1 .. Len(stream) - due /\ k \in 1 .. Len(Unread) - w
          /\ due + k \in 1 .. Len(stream) /\ w + k = HeaderBytes + (due + k)
      <4>1. \A h, d, l, j \in Nat :
               j \in 1 .. l - d
                 => /\ j \in 1 .. (h + l) - (h + d) /\ d + j \in 1 .. l
                    /\ (h + d) + j = h + (d + j)
        OBVIOUS
      <4>2. k \in Nat /\ k \in 1 .. Len(stream) - due
        BY <1>8, <2>2
      <4>. QED  BY <1>8, <4>1, <4>2
    <3>. QED  BY <1>3, <2>1, <2>2, <3>1
  <2>5. rest = left
    BY <2>1, <2>2, <2>3, <2>4, SeqEqual
  <2>. QED  BY <1>2, <2>5 DEF rest, left
<1>. QED  BY <1>2, <1>4, <1>6, <1>9, <1>10, <1>11 DEF m, w

(* A server's read, of a stream in line: it gives up for good, or it       *)
(* delivers the next packet that was sent, if it delivers anything.        *)
LEMMA ReadsKeepLine ==
    ASSUME ReaderSide = "SERVER", TypeInv, reader \in {"header", "body"}, ReaderInLine, Reads
    PROVE  /\ UNCHANGED <<call, sent, torn, link>>
           /\ \/ delivered' = delivered
              \/ Upcoming \in 1 .. Len(sent) /\ delivered' = Append(delivered, Upcoming)
           /\ reader' = "gone" \/ ReaderInLine'
<1>1. UNCHANGED <<call, sent, torn, link>>
  BY DEF Reads, ReadHeader, ReadBody, ReadEnd, senderVars
<1>2. ASSUME GivesUp
      PROVE  delivered' = delivered /\ reader' = "gone"
  BY <1>2 DEF GivesUp, AfterShortRead
<1>3. CASE ReadHeader
  <2>1. PICK count \in 1 .. HeaderBytes :
          /\ Recv(HeaderBytes, count)
          /\ IF count # HeaderBytes
               THEN GivesUp
               ELSE LET bytes == SubSeq(stream, 1, count) IN
                    \E length \in Announced(bytes) :
                      IF length = 0
                        THEN Delivers(bytes)
                        ELSE /\ reader' = "body"
                             /\ header' = bytes
                             /\ due' = length
                             /\ UNCHANGED delivered
    BY <1>3 DEF ReadHeader
  <2>2. reader = "header"
    BY <1>3 DEF ReadHeader
  <2>3. CASE count # HeaderBytes
    BY <1>1, <1>2, <2>1, <2>3
  <2>4. CASE count = HeaderBytes
    <3>. DEFINE bytes == SubSeq(stream, 1, HeaderBytes)
    <3>1. /\ Recv(HeaderBytes, HeaderBytes)
          /\ \E length \in Announced(bytes) :
               IF length = 0
                 THEN Delivers(bytes)
                 ELSE /\ reader' = "body"
                      /\ header' = bytes
                      /\ due' = length
                      /\ UNCHANGED delivered
      BY <2>1, <2>4
    <3>2. bytes = SubSeq(stream, 1, HeaderBytes)
      OBVIOUS
    <3>. HIDE DEF bytes
    <3>3. /\ Unread = stream /\ stream # <<>> /\ Upcoming \in 1 .. Len(sent)
          /\ HeaderBytes <= Len(stream)
          /\ bytes = Bytes(Upcoming, 0, HeaderBytes)
          /\ Announced(bytes) = {Size[sent[Upcoming]]}
          /\ bytes \o stream' = stream
      BY <2>2, <3>1, <3>2, ReadHeaderInLine
    <3>4. /\ stream' = SubSeq(stream, HeaderBytes + 1, Len(stream))
          /\ stream' \in Seq(BytesOf(Len(sent)))
          /\ Len(bytes) = HeaderBytes
      <4>1. HeaderBytes \in Nat
        BY StreamAssumption
      <4>. QED  BY <3>1, <4>1, RecvProperties DEF TypeInv, bytes
    <3>5. CASE Size[sent[Upcoming]] = 0
      <4>1. Delivers(bytes)
        BY <3>1, <3>3, <3>5
      <4>2. Wire[Upcoming] = HeaderBytes
        BY <3>3, <3>5, WireProperties, StreamAssumption DEF TypeInv
      <4>3. delivered' = Append(delivered, Upcoming) /\ ReaderInLine'
        BY <1>1, <3>3, <3>4, <4>1, <4>2, DeliveryKeepsLine
      <4>. QED  BY <1>1, <3>3, <4>3
    <3>6. CASE Size[sent[Upcoming]] # 0
      <4>1. /\ reader' = "body" /\ header' = bytes /\ due' = Size[sent[Upcoming]]
            /\ delivered' = delivered
        BY <3>1, <3>3, <3>6
      <4>2. Unread' = Unread /\ Upcoming' = Upcoming
        BY <3>3, <4>1 DEF Unread, Upcoming
      <4>3. Wire' = Wire
        BY <1>1 DEF Wire, WireLength
      <4>4. ReaderInLine'
        <5>1. InLine(Unread', Upcoming', Wire')
          BY <4>2, <4>3 DEF ReaderInLine
        <5>2. link' = "up" => Frontier'
          BY <1>1, <4>2, <4>3 DEF ReaderInLine, Frontier, Midway
        <5>3. Len(header') = HeaderBytes /\ due' = Size[sent'[Upcoming']]
          BY <1>1, <3>4, <4>1, <4>2
        <5>. QED  BY <5>1, <5>2, <5>3 DEF ReaderInLine
      <4>. QED  BY <1>1, <4>1, <4>4
    <3>. QED  BY <3>5, <3>6
  <2>. QED  BY <2>3, <2>4
<1>4. CASE ReadBody
  <2>1. PICK count \in 1 .. due :
          /\ Recv(due, count)
          /\ IF count # due
               THEN GivesUp
               ELSE Delivers(header \o SubSeq(stream, 1, count))
    BY <1>4 DEF ReadBody
  <2>2. reader = "body"
    BY <1>4 DEF ReadBody
  <2>3. CASE count # due
    BY <1>1, <1>2, <2>1, <2>3
  <2>4. CASE count = due
    <3>. DEFINE bytes == header \o SubSeq(stream, 1, due)
    <3>1. Recv(due, due) /\ Delivers(bytes)
      BY <2>1, <2>4
    <3>2. bytes = header \o SubSeq(stream, 1, due)
      OBVIOUS
    <3>. HIDE DEF bytes
    <3>3. /\ Unread # <<>> /\ Wire[Upcoming] <= Len(Unread)
          /\ Upcoming \in 1 .. Len(sent)
          /\ bytes = Bytes(Upcoming, 0, Wire[Upcoming])
          /\ stream' = SubSeq(Unread, Wire[Upcoming] + 1, Len(Unread))
          /\ stream' \in Seq(BytesOf(Len(sent)))
      BY <2>2, <3>1, <3>2, ReadBodyInLine
    <3>4. delivered' = Append(delivered, Upcoming) /\ ReaderInLine'
      BY <1>1, <3>1, <3>3, DeliveryKeepsLine
    <3>. QED  BY <1>1, <3>3, <3>4
  <2>. QED  BY <2>3, <2>4
<1>5. CASE ReadEnd
  BY <1>1, <1>2, <1>5 DEF ReadEnd
<1>. QED  BY <1>3, <1>4, <1>5 DEF Reads

-----------------------------------------------------------------------------
(* A send() that goes in line, of a first or of a further part.            *)
LEMMA SendsKeepLine ==
    ASSUME TypeInv, TypeInv', ~torn', OneAtWork, ReaderInLine,
           \/ \E s \in Senders, p \in Packets : SendBegins(s, p)
           \/ \E s \in Senders : SendContinues(s)
    PROVE  OneAtWork' /\ ReaderInLine'
<1>. DEFINE m == Len(sent')
<1>1. /\ Len(sent) \in Nat /\ Wire \in [1 .. Len(sent) -> Nat \ {0}]
      /\ Unread \in Seq(BytesOf(Len(sent))) /\ InLine(Unread, Upcoming, Wire)
      /\ header \in Seq(BytesOf(Len(sent))) /\ HeaderBytes \in Nat \ {0}
  BY WireProperties, UnreadProperties, LengthProperties
  DEF TypeInv, ReaderInLine
<1>2. ASSUME UNCHANGED readerVars, link' = link, InLine(Unread, Upcoming, Wire)', Frontier',
             \A n \in 1 .. Len(sent) : sent'[n] = sent[n]
      PROVE  ReaderInLine'
  <2>1. ASSUME reader = "body"
        PROVE  Len(header') = HeaderBytes /\ due' = Size[sent'[Upcoming']]
    <3>1. Len(header) = HeaderBytes /\ due = Size[sent[Upcoming]]
      BY <2>1 DEF ReaderInLine
    <3>2. Unread # <<>>
      BY <1>1, <3>1, UnreadProperties, LengthProperties DEF TypeInv
    <3>3. Upcoming \in 1 .. Len(sent)
      BY <1>1, <3>2, FrontOfLine
    <3>4. header' = header /\ due' = due /\ Upcoming' = Upcoming
      BY <1>2 DEF readerVars, Upcoming
    <3>. QED  BY <1>2, <3>1, <3>3, <3>4
  <2>. QED  BY <1>2, <2>1 DEF ReaderInLine, readerVars
<1>3. ASSUME NEW s \in Senders, NEW p \in Packets, SendBegins(s, p)
      PROVE  OneAtWork' /\ ReaderInLine'
  <2>1. /\ sent' = Append(sent, p) /\ Takes(s, Len(sent) + 1, p, 0) /\ Room > 0
        /\ link = "up" /\ link' = link /\ UNCHANGED readerVars
        /\ \A t \in Senders : ~Midway(t)
    BY <1>3 DEF SendBegins
  <2>2. /\ m = Len(sent) + 1 /\ m \in Nat /\ 1 <= m /\ Len(sent) <= m
        /\ Wire' \in [1 .. m -> Nat \ {0}] /\ Wire'[m] = WireLength(p)
        /\ \A n \in 1 .. Len(sent) : sent'[n] = sent[n] /\ Wire'[n] = Wire[n]
    BY <1>1, <2>1, SentGrows DEF TypeInv
  <2>. HIDE DEF m
  <2>3. PICK count \in Nat \ {0} : Took(s, m, p, 0, count)
    <3>1. TypeOK /\ 0 \in Nat /\ 0 < WireLength(p)
      BY StreamAssumption DEF TypeInv, WireLength
    <3>. QED  BY <2>1, <2>2, <3>1, TakesProperties
  <2>4. /\ InLine(Unread, Upcoming, Wire')
        /\ GoesOn(Unread, Upcoming, Wire', <<m, 0 + 1>>)
    <3>1. Frontier
      BY <2>1 DEF ReaderInLine
    <3>2. GoesOn(Unread, Upcoming, Wire, <<m, 0 + 1>>)
      BY <2>1, <2>2, <3>1 DEF Frontier
    <3>. DEFINE wire == Wire'
    <3>3. 1 .. Len(sent) \subseteq DOMAIN wire /\ \A n \in 1 .. Len(sent) : wire[n] = Wire[n]
      BY <1>1, <2>2
    <3>. HIDE DEF wire
    <3>4. InLine(Unread, Upcoming, wire) /\ GoesOn(Unread, Upcoming, wire, <<m, 0 + 1>>)
      BY <1>1, <3>2, <3>3, LineStays
    <3>. QED  BY <3>4 DEF wire
  <2>5. (InLine(Unread, Upcoming, Wire) /\ Frontier /\ OneAtWork)'
    <3>1. Len(sent') = m /\ 0 \in Nat
      BY DEF m
    <3>. QED  BY <2>1, <2>2, <2>3, <2>4, <3>1, TookKeepsLine
  <2>. QED  BY <1>2, <2>1, <2>2, <2>5
<1>4. ASSUME NEW s \in Senders, SendContinues(s)
      PROVE  OneAtWork' /\ ReaderInLine'
  <2>. DEFINE p == sent[m]
              from == call[s].taken
  <2>1. /\ Takes(s, call[s].packet, sent[call[s].packet], from) /\ Room > 0 /\ Midway(s)
        /\ link = "up" /\ link' = link /\ sent' = sent /\ UNCHANGED readerVars
    BY <1>4 DEF SendContinues
  <2>2. /\ call[s].packet = m /\ m = Len(sent) /\ m \in 1 .. m /\ from \in 1 .. Wire[m] - 1
        /\ \A t \in Senders : t # s => ~Midway(t)
    BY <2>1 DEF OneAtWork, TypeInv, Midways
  <2>3. /\ p \in Packets /\ Wire[m] = WireLength(p) /\ Wire' = Wire /\ Wire[m] \in Nat
        /\ m \in Nat /\ 1 <= m /\ from \in Nat /\ from < WireLength(p)
    <3>1. p \in Packets /\ Wire[m] = WireLength(p) /\ Wire[m] \in Nat
      BY <2>1, <2>2, WireProperties DEF TypeInv, WireLength
    <3>2. Wire' = Wire
      BY <2>1 DEF Wire, WireLength
    <3>. QED  BY <1>1, <2>2, <3>1, <3>2
  <2>4. GoesOn(Unread, Upcoming, Wire, <<m, from + 1>>)
    <3>1. Frontier
      BY <2>1 DEF ReaderInLine
    <3>. QED  BY <2>1, <2>2, <3>1 DEF Frontier
  <2>5. Takes(s, m, p, from)
    BY <2>1, <2>2
  <2>. HIDE DEF m, p, from
  <2>6. PICK count \in Nat \ {0} : Took(s, m, p, from, count)
    <3>1. TypeOK
      BY DEF TypeInv
    <3>. QED  BY <2>1, <2>3, <2>5, <3>1, TakesProperties
  <2>7. (InLine(Unread, Upcoming, Wire) /\ Frontier /\ OneAtWork)'
    <3>1. Len(sent') = m /\ Len(sent) <= m
      BY <1>1, <2>1, <2>2 DEF m
    <3>. QED  BY <1>1, <2>1, <2>2, <2>3, <2>4, <2>6, <3>1, TookKeepsLine
  <2>. QED  BY <1>2, <2>1, <2>7
<1>. QED  BY <1>3, <1>4

-----------------------------------------------------------------------------
(* The invariant, and what follows from it.                                *)

LEMMA StreamInvStep ==
    ASSUME ReaderSide = "SERVER", StreamInv, Next
    PROVE  StreamInv'
<1>1. TypeInv /\ TypeInv'
  BY TypeInvStep DEF StreamInv, TypeInv
<1>2. ASSUME torn'
      PROVE  StreamInv'
  BY <1>1, <1>2 DEF StreamInv, TypeInv, InStep
<1>3. ASSUME torn' = torn, UNCHANGED <<sent, stream, header, due, delivered>>,
             link' = link \/ link' # "up",
             reader' \in {"header", "body"} => reader' = reader,
             \A s \in Senders : call'[s] = call[s] \/ (link' # "up" /\ call'[s] = Idle)
      PROVE  StreamInv'
  <2>. SUFFICES ASSUME ~torn PROVE StreamInv'
    BY <1>2, <1>3 DEF TypeInv, TypeOK
  <2>1. /\ Wire' = Wire /\ Unread' = Unread /\ Upcoming' = Upcoming
        /\ \A s \in Senders : Midway(s)' => Midway(s) /\ call'[s] = call[s]
    BY <1>3 DEF Wire, WireLength, Unread, Upcoming, Midway
  <2>2. OneAtWork'
    BY <1>3, <2>1 DEF StreamInv, OneAtWork
  <2>3. ASSUME reader' \in {"header", "body"}
        PROVE  ReaderInLine'
    <3>1. ReaderInLine /\ reader' = reader
      BY <1>3, <2>3 DEF StreamInv
    <3>2. ASSUME link' = "up"
          PROVE  Frontier'
      <4>1. Frontier /\ \A s \in Senders : call'[s] = call[s]
        BY <1>3, <3>1, <3>2 DEF ReaderInLine
      <4>. QED  BY <1>3, <2>1, <4>1 DEF Frontier, Midway
    <3>. QED  BY <1>3, <2>1, <3>1, <3>2 DEF ReaderInLine
  <2>4. InStep'
    BY <1>3 DEF StreamInv, InStep
  <2>. QED  BY <1>1, <2>2, <2>3, <2>4 DEF StreamInv, TypeInv
<1>4. ASSUME NEW s \in Senders, NEW p \in Packets, SendBegins(s, p)
      PROVE  StreamInv'
  <2>. SUFFICES ASSUME ~torn' PROVE StreamInv'
    BY <1>2
  <2>1. ~torn /\ UNCHANGED readerVars
    BY <1>4 DEF SendBegins
  <2>2. reader \in {"header", "body"} => OneAtWork' /\ ReaderInLine'
    BY <1>1, <1>4, <2>1, SendsKeepLine DEF StreamInv
  <2>3. OneAtWork'
    <3>1. /\ \A t \in Senders : ~Midway(t)
          /\ sent' = Append(sent, p) /\ Takes(s, Len(sent) + 1, p, 0)
      BY <1>4 DEF SendBegins
    <3>2. Len(sent') = Len(sent) + 1
      BY <1>1, <3>1, SentGrows DEF TypeInv
    <3>3. \A t \in Senders : Midway(t)' => t = s /\ call'[t].packet = Len(sent')
      BY <1>1, <3>1, <3>2 DEF Takes, Midway, TypeInv, TypeOK
    <3>. QED  BY <3>3 DEF OneAtWork
  <2>4. InStep'
    BY <2>1 DEF StreamInv, InStep, readerVars
  <2>. QED  BY <1>1, <2>1, <2>2, <2>3, <2>4 DEF StreamInv, TypeInv, readerVars
<1>5. ASSUME NEW s \in Senders, SendContinues(s)
      PROVE  StreamInv'
  <2>. SUFFICES ASSUME ~torn' PROVE StreamInv'
    BY <1>2
  <2>1. ~torn /\ UNCHANGED readerVars /\ sent' = sent
    BY <1>5 DEF SendContinues
  <2>2. reader \in {"header", "body"} => ReaderInLine'
    BY <1>1, <1>5, <2>1, SendsKeepLine DEF StreamInv
  <2>3. OneAtWork'
    <3>1. /\ Takes(s, call[s].packet, sent[call[s].packet], call[s].taken)
          /\ Midway(s)
      BY <1>5 DEF SendContinues
    <3>2. call[s].packet = Len(sent) /\ \A t \in Senders : Midway(t) => t = s
      BY <2>1, <3>1 DEF StreamInv, OneAtWork
    <3>3. \A t \in Senders : Midway(t)' => t = s /\ call'[t].packet = Len(sent')
      BY <1>1, <2>1, <3>1, <3>2 DEF Takes, Midway, TypeInv, TypeOK
    <3>. QED  BY <3>3 DEF OneAtWork
  <2>4. InStep'
    BY <2>1 DEF StreamInv, InStep, readerVars
  <2>. QED  BY <1>1, <2>1, <2>2, <2>3, <2>4 DEF StreamInv, TypeInv, readerVars
<1>6. ASSUME NEW s \in Senders, SendInterrupted(s)
      PROVE  StreamInv'
  BY <1>2, <1>6 DEF SendInterrupted
<1>7. ASSUME NEW s \in Senders, SendFails(s)
      PROVE  StreamInv'
  <2>1. /\ call' = [call EXCEPT ![s] = Idle] /\ link = "reset" /\ link' = link
        /\ UNCHANGED <<sent, torn, stream, reader, header, due, delivered>>
    BY <1>7 DEF SendFails, readerVars
  <2>2. \A t \in Senders : call'[t] = call[t] \/ (link' # "up" /\ call'[t] = Idle)
    BY <1>1, <2>1 DEF TypeInv, TypeOK
  <2>. QED  BY <1>3, <2>1, <2>2
<1>8. ASSUME SendKills
      PROVE  StreamInv'
  BY <1>3, <1>8 DEF SendKills, readerVars
<1>9. ASSUME SenderCloses
      PROVE  StreamInv'
  BY <1>3, <1>9 DEF SenderCloses, senderVars, readerVars
<1>10. ASSUME ReaderEnds
       PROVE  StreamInv'
  BY <1>3, <1>10 DEF ReaderEnds, senderVars
<1>11. ASSUME Reads
       PROVE  StreamInv'
  <2>. SUFFICES ASSUME ~torn' PROVE StreamInv'
    BY <1>2
  <2>1. torn' = torn /\ UNCHANGED <<call, sent>> /\ reader \in {"header", "body"}
    BY <1>11 DEF Reads, ReadHeader, ReadBody, ReadEnd, senderVars
  <2>2. /\ \/ delivered' = delivered
           \/ Upcoming \in 1 .. Len(sent) /\ delivered' = Append(delivered, Upcoming)
        /\ reader' = "gone" \/ ReaderInLine'
    BY <1>1, <1>11, <2>1, ReadsKeepLine DEF StreamInv
  <2>3. OneAtWork'
    BY <2>1 DEF StreamInv, OneAtWork, Midway
  <2>4. InStep'
    <3>1. \A k \in 1 .. Len(delivered) : delivered[k] = k
      BY <2>1 DEF StreamInv, InStep
    <3>2. CASE delivered' = delivered
      BY <3>1, <3>2 DEF InStep
    <3>3. CASE Upcoming \in 1 .. Len(sent) /\ delivered' = Append(delivered, Upcoming)
      <4>1. /\ Len(delivered') = Len(delivered) + 1
            /\ \A k \in 1 .. Len(delivered) : delivered'[k] = delivered[k]
            /\ delivered'[Len(delivered) + 1] = Upcoming
            /\ Len(delivered) \in Nat
        <5>1. delivered \in Seq(0 .. Len(sent)) /\ Upcoming \in 0 .. Len(sent)
          BY <1>1, <3>3 DEF TypeInv, TypeOK
        <5>. QED  BY <3>3, <5>1, AppendProperties, LenProperties
      <4>. QED  BY <3>1, <4>1 DEF InStep, Upcoming
    <3>. QED  BY <2>2, <3>2, <3>3
  <2>. QED  BY <1>1, <2>2, <2>3, <2>4 DEF StreamInv, TypeInv
<1>. QED  BY <1>4, <1>5, <1>6, <1>7, <1>8, <1>9, <1>10, <1>11
          DEF Next

-----------------------------------------------------------------------------
(* Steps that change nothing, and what follows for all behaviours.         *)

LEMMA TypeInvStutters ==
    ASSUME TypeInv, UNCHANGED vars
    PROVE  TypeInv'
<1>1. /\ UNCHANGED <<call, sent, torn, stream, link, reader, header, due, delivered>>
      /\ Wire' = Wire
  BY DEF vars, senderVars, readerVars, Wire, WireLength
<1>. QED  BY <1>1 DEF TypeInv, TypeOK, Midways, Midway

LEMMA StreamInvStutters ==
    ASSUME StreamInv, UNCHANGED vars
    PROVE  StreamInv'
<1>1. /\ UNCHANGED <<call, sent, torn, stream, link, reader, header, due, delivered>>
      /\ Wire' = Wire /\ Unread' = Unread /\ Upcoming' = Upcoming
  BY DEF vars, senderVars, readerVars, Wire, WireLength, Unread, Upcoming
<1>2. TypeInv'
  BY TypeInvStutters DEF StreamInv, TypeInv
<1>3. /\ Frontier => Frontier'
      /\ OneAtWork => OneAtWork'
  BY <1>1 DEF Frontier, OneAtWork, Midway
<1>4. ReaderInLine => ReaderInLine'
  BY <1>1, <1>3 DEF ReaderInLine
<1>. QED  BY <1>1, <1>2, <1>3, <1>4 DEF StreamInv, TypeInv, InStep

(* Calls, streams, headers and histories keep their types, whoever reads   *)
(* and whatever is torn: send() never goes on with a packet that was not   *)
(* sent, and never puts more into the kernels than they hold.              *)
THEOREM StreamTyped == Spec => []TypeOK
<1>1. Init => TypeInv
  BY TypeInvInit
<1>2. TypeInv /\ [Next]_vars => TypeInv'
  BY TypeInvStep, TypeInvStutters
<1>3. TypeInv => TypeOK
  BY DEF TypeInv
<1>. QED  BY <1>1, <1>2, <1>3, PTL DEF Spec

LEMMA StreamInvHolds == ASSUME ReaderSide = "SERVER" PROVE Spec => []StreamInv
<1>1. Init => StreamInv
  BY StreamInvInit
<1>2. StreamInv /\ [Next]_vars => StreamInv'
  BY StreamInvStep, StreamInvStutters
<1>. QED  BY <1>1, <1>2, PTL DEF Spec

(* However TCP cuts the stream and however many threads send, a server's   *)
(* onMessageReception gets the packets of a client in the order they were  *)
(* sent, each once and nothing else, until a sender tears one.             *)
THEOREM DeliveriesInStep ==
    ASSUME ReaderSide = "SERVER"
    PROVE  Spec => []InStep
<1>1. StreamInv => InStep
  BY DEF StreamInv
<1>. QED  BY <1>1, StreamInvHolds, PTL

-----------------------------------------------------------------------------
(* A connection to a server is a Channel.                                  *)

(* What the callback was given, in step: the packets that were sent.       *)
LEMMA DeliveredProperties ==
    ASSUME StreamInv, ~torn
    PROVE  /\ DeliveredPackets = [k \in 1 .. Len(delivered) |-> sent[k]]
           /\ DeliveredPackets \in Seq(Packets)
           /\ Len(DeliveredPackets) = Len(delivered)
           /\ Len(delivered) \in Nat /\ Len(delivered) <= Len(sent)
<1>1. /\ delivered \in Seq(0 .. Len(sent)) /\ Len(delivered) \in Nat /\ Len(sent) \in Nat
      /\ \A k \in 1 .. Len(delivered) : delivered[k] = k
  BY LengthProperties DEF StreamInv, InStep, TypeOK
<1>2. \A k \in 1 .. Len(delivered) : k \in 1 .. Len(sent) /\ sent[k] \in Packets
  <2>1. ASSUME NEW k \in 1 .. Len(delivered)
        PROVE  k \in 1 .. Len(sent)
    <3>1. delivered[k] \in 0 .. Len(sent) /\ delivered[k] = k
      BY <1>1, ElementOfSeq
    <3>. QED  BY <1>1, <3>1
  <2>. QED  BY <2>1, WireProperties DEF StreamInv
<1>3. DeliveredPackets = [k \in 1 .. Len(delivered) |-> sent[k]]
  BY <1>1, <1>2 DEF DeliveredPackets
<1>4. DeliveredPackets \in [1 .. Len(delivered) -> Packets]
  BY <1>2, <1>3
<1>5. DeliveredPackets \in Seq(Packets) /\ Len(DeliveredPackets) = Len(delivered)
  BY <1>1, <1>4
<1>6. Len(delivered) <= Len(sent)
  <2>1. CASE Len(delivered) = 0
    BY <1>1, <2>1
  <2>2. CASE Len(delivered) # 0
    <3>1. Len(delivered) \in 1 .. Len(delivered)
      BY <1>1, <2>2
    <3>. QED  BY <1>1, <1>2, <3>1
  <2>. QED  BY <2>1, <2>2
<1>. QED  BY <1>1, <1>3, <1>5, <1>6

LEMMA DeliveredNext ==
    (StreamInv /\ ~torn)'
      => (DeliveredPackets = [k \in 1 .. Len(delivered) |-> sent[k]])'
<1>1. StreamInv /\ ~torn
        => DeliveredPackets = [k \in 1 .. Len(delivered) |-> sent[k]]
  BY DeliveredProperties
<1>. QED  BY <1>1, PTL

LEMMA ChannelStep ==
    ASSUME ReaderSide = "SERVER", StreamInv, StreamInv', Next
    PROVE  [C!Next]_<<sent, DeliveredPackets, torn>>
<1>. SUFFICES ASSUME ~torn'
              PROVE  \/ C!Send \/ C!Deliver
                     \/ UNCHANGED <<sent, DeliveredPackets, torn>>
  <2>1. torn' \in BOOLEAN
    BY DEF StreamInv, TypeOK
  <2>. QED  BY <2>1 DEF C!Next
<1>1. torn' = torn /\ ~torn
  BY DEF StreamInv, TypeOK, Next, SendBegins,
         SendContinues,
         SendInterrupted, SendFails, SendKills, SenderCloses, ReaderEnds,
         Reads, ReadHeader, ReadBody, ReadEnd, senderVars
<1>2. /\ DeliveredPackets = [k \in 1 .. Len(delivered) |-> sent[k]]
      /\ DeliveredPackets \in Seq(Packets)
      /\ Len(DeliveredPackets) = Len(delivered)
      /\ Len(delivered) \in Nat /\ Len(delivered) <= Len(sent)
  BY <1>1, DeliveredProperties
<1>3. DeliveredPackets' = [k \in 1 .. Len(delivered') |-> sent'[k]]
  BY DeliveredNext
<1>4. ASSUME NEW s \in Senders, NEW p \in Packets, SendBegins(s, p)
      PROVE  C!Send
  <2>1. sent' = Append(sent, p) /\ delivered' = delivered
    BY <1>4 DEF SendBegins, readerVars
  <2>2. \A k \in 1 .. Len(delivered) : sent'[k] = sent[k]
    <3>1. \A k \in 1 .. Len(sent) : sent'[k] = sent[k]
      BY <2>1, SentGrows DEF StreamInv
    <3>2. \A k \in 1 .. Len(delivered) : k \in 1 .. Len(sent)
      BY <1>2, LengthProperties DEF StreamInv
    <3>. QED  BY <3>1, <3>2
  <2>3. DeliveredPackets' = DeliveredPackets
    BY <1>2, <1>3, <2>1, <2>2
  <2>. QED  BY <1>1, <2>1, <2>3 DEF C!Send
<1>5. ASSUME Reads
      PROVE  C!Deliver \/ UNCHANGED <<sent, DeliveredPackets, torn>>
  <2>1. reader \in {"header", "body"}
    BY <1>5 DEF Reads, ReadHeader, ReadBody, ReadEnd
  <2>2. /\ sent' = sent
        /\ \/ delivered' = delivered
           \/ Upcoming \in 1 .. Len(sent) /\ delivered' = Append(delivered, Upcoming)
    BY <1>1, <1>5, <2>1, ReadsKeepLine DEF StreamInv, TypeInv
  <2>3. CASE delivered' = delivered
    BY <1>1, <1>2, <1>3, <2>2, <2>3
  <2>4. CASE Upcoming \in 1 .. Len(sent) /\ delivered' = Append(delivered, Upcoming)
    <3>. DEFINE next == Append(DeliveredPackets, sent[Upcoming])
    <3>1. Len(delivered') = Len(delivered) + 1
      <4>1. delivered \in Seq(0 .. Len(sent)) /\ Upcoming \in 0 .. Len(sent)
        BY <2>4 DEF StreamInv, TypeOK
      <4>. QED  BY <2>4, <4>1, AppendProperties
    <3>2. DeliveredPackets' = [k \in 1 .. Len(delivered) + 1 |-> sent[k]]
      BY <1>3, <2>2, <3>1
    <3>3. sent[Upcoming] \in Packets
      BY <2>4, WireProperties DEF StreamInv
    <3>4. /\ next \in Seq(Packets) /\ Len(next) = Len(delivered) + 1
          /\ \A k \in 1 .. Len(delivered) : next[k] = DeliveredPackets[k]
          /\ next[Len(delivered) + 1] = sent[Upcoming]
      BY <1>2, <3>3, AppendProperties
    <3>5. next = [k \in 1 .. Len(delivered) + 1 |-> next[k]]
      BY <1>2, <3>4
    <3>. HIDE DEF next
    <3>6. \A k \in 1 .. Len(delivered) + 1 : next[k] = sent[k]
      <4>1. \A k \in 1 .. Len(delivered) : next[k] = sent[k]
        BY <1>2, <3>4
      <4>2. next[Len(delivered) + 1] = sent[Len(delivered) + 1]
        BY <3>4 DEF Upcoming
      <4>3. \A k \in 1 .. Len(delivered) + 1 : k \in 1 .. Len(delivered) \/ k = Len(delivered) + 1
        BY <1>2
      <4>. QED  BY <4>1, <4>2, <4>3
    <3>7. DeliveredPackets' = next
      BY <3>2, <3>5, <3>6
    <3>8. Len(DeliveredPackets) < Len(sent)
      BY <1>2, <2>4, LengthProperties DEF StreamInv, Upcoming
    <3>9. sent[Upcoming] = sent[Len(DeliveredPackets) + 1]
      BY <1>2 DEF Upcoming
    <3>. QED  BY <1>1, <2>2, <3>7, <3>8, <3>9 DEF C!Deliver, next
  <2>. QED  BY <2>2, <2>3, <2>4
<1>6. ASSUME UNCHANGED <<sent, delivered>>
      PROVE  UNCHANGED <<sent, DeliveredPackets, torn>>
  BY <1>1, <1>2, <1>3, <1>6
<1>. QED  BY <1>4, <1>5, <1>6
          DEF Next, SendContinues, SendInterrupted, SendFails,
              SendKills, SenderCloses, ReaderEnds, senderVars, readerVars

(* Reading from TCP in step implements the channel the callers rely on: a  *)
(* send appends a packet, a delivery hands over the next one, and only the *)
(* tearing of a packet ends that.                                          *)
THEOREM ConnectionImplementsChannel ==
    ASSUME ReaderSide = "SERVER"
    PROVE  Spec => ChannelSpec
<1>1. Init => C!Init
  <2>. SUFFICES ASSUME Init PROVE C!Init
    OBVIOUS
  <2>1. sent = <<>> /\ delivered = <<>> /\ torn = FALSE
    BY DEF Init
  <2>2. StreamInv
    BY StreamInvInit
  <2>3. DeliveredPackets \in Seq(Packets) /\ Len(DeliveredPackets) = 0
    BY <2>1, <2>2, DeliveredProperties
  <2>. QED  BY <2>1, <2>3 DEF C!Init
<1>2. StreamInv /\ StreamInv' /\ [Next]_vars => [C!Next]_<<sent, DeliveredPackets, torn>>
  <2>1. UNCHANGED vars => UNCHANGED <<sent, DeliveredPackets, torn>>
    BY DEF vars, senderVars, readerVars, DeliveredPackets
  <2>. QED  BY <2>1, ChannelStep
<1>. QED  BY <1>1, <1>2, StreamInvHolds, PTL DEF Spec, ChannelSpec, C!Spec
=============================================================================
